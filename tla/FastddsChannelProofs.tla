------------------------ MODULE FastddsChannelProofs ------------------------
(***************************************************************************)
(* What FastddsChannel keeps, proved for any handlers, buffers, places of   *)
(* the executor and numbers of samples.                                     *)
(*                                                                         *)
(* After it, what the communicator keeps, which receives through such       *)
(* channels: for any communicators, profiles and messages.                  *)
(***************************************************************************)
EXTENDS FastddsChannel, Communicator, FiniteSetTheorems, SequenceTheorems,
        TLAPS

-----------------------------------------------------------------------------
(* The inductive invariant. *)

\* No two places of a sequence hold the same.
Distinct(s) == \A i, j \in DOMAIN s : i # j => s[i] # s[j]

\* The listener's callback counts itself while it is inside, has a handler to
\* call only while it delivers, and holds a lease only while it calls.
CallbackInv ==
    /\ inflight = (IF cb.at \in {"out", "count"} THEN 0 ELSE 1)
    /\ Distinct(handlers) /\ Distinct(cb.todo)
    /\ cb.at # "deliver" => cb.todo = <<>> /\ cb.leased = None
    /\ cb.at # "leased" => cb.hold = None
    /\ cb.at \in {"test", "copy", "deliver", "leased"} => taken # 0

\* cleanup() sets stopping_, then clears the handlers, then waits.
CleanupInv ==
    /\ ctl \notin {"open", "clear"} => handlers = <<>> /\ leased = None
    /\ stopping = (ctl # "open")
    /\ listener = CASE ctl \in {"open", "clear", "unlisten"} -> "set"
                    [] ctl \in {"wait", "delete"} -> "unset"
                    [] ctl = "gone" -> "deleted"
    /\ Awaited

\* The leases, by where they are.
FreeOnes == Ex!InSeq(free)
QueueOnes == LeasesIn(Ex!InSeq(queue))
SlotOnes == LeasesIn({slot[s] : s \in Slots})
MsgOnes == {lease} \ {None}
HoldOnes == {cb.hold} \ {None}

\* A closure of the queue, or of the slots, that owns a lease owns it alone.
OwnsAlone(tasks) == \A i, j \in DOMAIN tasks :
    tasks[i].buf # None /\ tasks[i].buf = tasks[j].buf => i = j

\* Five sets that have every buffer between them, and none twice.
Partition(F, Q, S, M, H) ==
    /\ F \cap Q = {} /\ F \cap S = {} /\ F \cap M = {} /\ F \cap H = {}
    /\ Q \cap S = {} /\ Q \cap M = {} /\ Q \cap H = {}
    /\ S \cap M = {} /\ S \cap H = {} /\ M \cap H = {}
    /\ Buffers = F \cup Q \cup S \cup M \cup H

\* A lease has one place, and one closure when it is with the executor.
LeaseInv ==
    /\ Distinct(free) /\ OwnsAlone(queue) /\ OwnsAlone(slot)
    /\ Partition(FreeOnes, QueueOnes, SlotOnes, MsgOnes, HoldOnes)

\* The messages for h that wait on the executor.
QueueFor(h) == MsgsFor(h, Ex!InSeq(queue))

\* Four sets that have what was due between them, and nothing twice.
Divided(D, G, Q, L, P) ==
    /\ D = G \cup Q \cup L \cup P
    /\ G \cap Q = {} /\ G \cap L = {} /\ G \cap P = {}
    /\ Q \cap L = {} /\ Q \cap P = {} /\ L \cap P = {}

Called(h) == Ex!InSeq(got[h])

\* What was due is in one place, and not beyond what was taken.
ShareInv == \A h \in All :
    /\ Divided(due[h], Called(h), QueueFor(h), lost[h], Pending(h))
    /\ \A m \in due[h] : m <= taken
    /\ cb.at \in {"test", "copy"} => taken \notin due[h]

\* Closures wait in the order of their messages, after those that have begun.
OrderInv ==
    /\ \A i, j \in DOMAIN queue :
          i # j /\ queue[i].to = queue[j].to => queue[i].msg # queue[j].msg
    /\ \A i, j \in DOMAIN queue :
          i < j /\ queue[i].to = queue[j].to /\ queue[i].to # Leased
              => queue[i].msg < queue[j].msg
    /\ \A h \in All : Distinct(got[h])
    /\ \A h \in Handlers :
          /\ Increasing(got[h])
          /\ \A m \in Called(h), i \in DOMAIN queue :
                queue[i].to = h => m < queue[i].msg

IInv == TypeOK /\ CallbackInv /\ CleanupInv /\ LeaseInv /\ ShareInv /\ OrderInv

-----------------------------------------------------------------------------
(* Sequences. *)

LEMMA Appended ==
    ASSUME NEW S, NEW s \in Seq(S), NEW x \in S
    PROVE  /\ Append(s, x) \in Seq(S)
           /\ Ex!InSeq(Append(s, x)) = Ex!InSeq(s) \cup {x}
           /\ DOMAIN Append(s, x) = DOMAIN s \cup {Len(s) + 1}
           /\ DOMAIN s = 1..Len(s) /\ Len(s) \in Nat
           /\ \A i \in DOMAIN s : Append(s, x)[i] = s[i]
           /\ Append(s, x)[Len(s) + 1] = x
           /\ Distinct(s) /\ x \notin Ex!InSeq(s) => Distinct(Append(s, x))
<1> DEFINE r == Append(s, x)
<1>1. /\ r \in Seq(S) /\ Len(r) = Len(s) + 1 /\ Len(s) \in Nat
      /\ DOMAIN s = 1..Len(s) /\ DOMAIN r = 1..(Len(s) + 1)
      /\ \A i \in 1..Len(s) : r[i] = s[i]
      /\ r[Len(s) + 1] = x
  OBVIOUS
<1> HIDE DEF r
<1>2. \A i \in DOMAIN r : i = Len(s) + 1 \/ (i \in DOMAIN s /\ r[i] = s[i])
  BY <1>1
<1>3. DOMAIN r = DOMAIN s \cup {Len(s) + 1}
  BY <1>1
<1>4. Ex!InSeq(r) = Ex!InSeq(s) \cup {x}
  BY <1>1, <1>2, <1>3 DEF Ex!InSeq
<1>5. Distinct(s) /\ x \notin Ex!InSeq(s) => Distinct(r)
  BY <1>1, <1>2 DEF Distinct, Ex!InSeq
<1> QED  BY <1>1, <1>3, <1>4, <1>5 DEF r

LEMMA Beheaded ==
    ASSUME NEW S, NEW s \in Seq(S), s # <<>>
    PROVE  /\ Head(s) \in S /\ Tail(s) \in Seq(S)
           /\ Head(s) = s[1] /\ 1 \in DOMAIN s
           /\ \A i \in DOMAIN Tail(s) :
                 i \in Nat /\ i + 1 \in DOMAIN s /\ Tail(s)[i] = s[i + 1]
           /\ Ex!InSeq(s) = Ex!InSeq(Tail(s)) \cup {Head(s)}
           /\ Distinct(s) => /\ Distinct(Tail(s))
                             /\ Head(s) \notin Ex!InSeq(Tail(s))
<1> DEFINE r == Tail(s)
<1>1. /\ Head(s) \in S /\ r \in Seq(S)
      /\ Len(s) \in Nat \ {0} /\ Len(r) = Len(s) - 1
      /\ DOMAIN s = 1..Len(s) /\ DOMAIN r = 1..(Len(s) - 1)
      /\ Head(s) = s[1]
      /\ \A i \in 1..(Len(s) - 1) : r[i] = s[i + 1]
  OBVIOUS
<1> HIDE DEF r
<1>2. \A i \in DOMAIN r : i \in Nat /\ i + 1 \in DOMAIN s /\ r[i] = s[i + 1]
  BY <1>1
<1>3. \A i \in DOMAIN s : i = 1 \/ \E j \in DOMAIN r : s[i] = r[j]
  <2> SUFFICES ASSUME NEW i \in DOMAIN s, i # 1
               PROVE  i - 1 \in DOMAIN r /\ s[i] = r[i - 1]
    OBVIOUS
  <2> QED  BY <1>1
<1>4. Ex!InSeq(s) = Ex!InSeq(r) \cup {Head(s)}
  <2>1. \A i \in DOMAIN s : s[i] \in Ex!InSeq(r) \cup {Head(s)}
    BY <1>1, <1>3 DEF Ex!InSeq
  <2>2. \A i \in DOMAIN r : r[i] \in Ex!InSeq(s)
    BY <1>2 DEF Ex!InSeq
  <2>3. Head(s) \in Ex!InSeq(s)
    BY <1>1 DEF Ex!InSeq
  <2> QED  BY <2>1, <2>2, <2>3 DEF Ex!InSeq
<1>5. ASSUME Distinct(s)
      PROVE  Distinct(r) /\ Head(s) \notin Ex!InSeq(r)
  <2>1. Distinct(r)
    BY <1>1, <1>2, <1>5 DEF Distinct
  <2>2. \A i \in DOMAIN r : r[i] # Head(s)
    BY <1>1, <1>2, <1>5 DEF Distinct
  <2> QED  BY <2>1, <2>2 DEF Ex!InSeq
<1> QED  BY <1>1, <1>2, <1>4, <1>5 DEF r

LEMMA Joined ==
    ASSUME NEW S, NEW s \in Seq(S), NEW t \in Seq(S)
    PROVE  /\ s \o t \in Seq(S)
           /\ Ex!InSeq(s \o t) = Ex!InSeq(s) \cup Ex!InSeq(t)
           /\ Distinct(s) /\ Distinct(t) /\ Ex!InSeq(s) \cap Ex!InSeq(t) = {}
                 => Distinct(s \o t)
<1> DEFINE r == s \o t
<1>1. /\ r \in Seq(S) /\ Len(r) = Len(s) + Len(t)
      /\ Len(s) \in Nat /\ Len(t) \in Nat
      /\ DOMAIN s = 1..Len(s) /\ DOMAIN t = 1..Len(t)
      /\ DOMAIN r = 1..(Len(s) + Len(t))
      /\ \A i \in 1..(Len(s) + Len(t)) :
            r[i] = IF i <= Len(s) THEN s[i] ELSE t[i - Len(s)]
  BY ConcatProperties
<1> HIDE DEF r
<1>2. \A i \in DOMAIN s : i \in DOMAIN r /\ r[i] = s[i]
  BY <1>1
<1>3. \A i \in DOMAIN t : Len(s) + i \in DOMAIN r /\ r[Len(s) + i] = t[i]
  BY <1>1
<1>4. \A i \in DOMAIN r : \/ i \in DOMAIN s /\ r[i] = s[i]
                          \/ /\ i \notin DOMAIN s /\ i - Len(s) \in DOMAIN t
                             /\ r[i] = t[i - Len(s)]
  BY <1>1
<1>5. Ex!InSeq(r) = Ex!InSeq(s) \cup Ex!InSeq(t)
  <2>1. \A i \in DOMAIN r : r[i] \in Ex!InSeq(s) \cup Ex!InSeq(t)
    BY <1>4 DEF Ex!InSeq
  <2>2. \A i \in DOMAIN s : s[i] \in Ex!InSeq(r)
    BY <1>2 DEF Ex!InSeq
  <2>3. \A i \in DOMAIN t : t[i] \in Ex!InSeq(r)
    BY <1>3 DEF Ex!InSeq
  <2> QED  BY <2>1, <2>2, <2>3 DEF Ex!InSeq
<1>6. ASSUME Distinct(s), Distinct(t), Ex!InSeq(s) \cap Ex!InSeq(t) = {}
      PROVE  Distinct(r)
  <2>1. \A i \in DOMAIN s, j \in DOMAIN t : s[i] # t[j]
    BY <1>6 DEF Ex!InSeq
  <2> SUFFICES ASSUME NEW i \in DOMAIN r, NEW j \in DOMAIN r, i # j
               PROVE  r[i] # r[j]
    BY DEF Distinct
  <2>2. i - Len(s) # j - Len(s)
    BY <1>1
  <2> QED  BY <1>4, <1>6, <2>1, <2>2 DEF Distinct
<1> QED  BY <1>1, <1>5, <1>6 DEF r

LEMMA Removed ==
    ASSUME NEW S, NEW s \in Seq(S), NEW i \in DOMAIN s
    PROVE  /\ RemoveAt(s, i) \in Seq(S)
           /\ Distinct(s) => Distinct(RemoveAt(s, i))
<1> DEFINE a == SubSeq(s, 1, i - 1)
           b == SubSeq(s, i + 1, Len(s))
<1>1. Len(s) \in Nat /\ DOMAIN s = 1..Len(s) /\ i \in 1..Len(s)
  OBVIOUS
<1>2. /\ a \in Seq(S) /\ Len(a) = i - 1
      /\ \A j \in 1..(i - 1) : a[j] = s[j]
  BY <1>1, SubSeqProperties
<1>3. /\ b \in Seq(S) /\ Len(b) = Len(s) - i
      /\ \A j \in 1..(Len(s) - i) : b[j] = s[i + j]
  <2>1. /\ b \in Seq(S)
        /\ Len(b) = IF i + 1 <= Len(s) THEN Len(s) - (i + 1) + 1 ELSE 0
        /\ \A j \in 1..(Len(s) - (i + 1) + 1) : b[j] = s[i + 1 + j - 1]
    <3>1. \A j \in (i + 1)..Len(s) : s[j] \in S
      BY <1>1
    <3> QED  BY <1>1, <3>1, SubSeqProperties
  <2> QED  BY <1>1, <2>1
<1> HIDE DEF a, b
<1>4. DOMAIN a = 1..(i - 1) /\ DOMAIN b = 1..(Len(s) - i)
  BY <1>1, <1>2, <1>3
<1>5. ASSUME Distinct(s)  PROVE  Distinct(a \o b)
  <2>1. Distinct(a)
    BY <1>1, <1>2, <1>4, <1>5 DEF Distinct
  <2>2. Distinct(b)
    <3> SUFFICES ASSUME NEW j \in DOMAIN b, NEW k \in DOMAIN b, j # k
                 PROVE  b[j] # b[k]
      BY DEF Distinct
    <3>1. i + j \in DOMAIN s /\ i + k \in DOMAIN s /\ i + j # i + k
      BY <1>1, <1>4
    <3> QED  BY <1>3, <1>4, <1>5, <3>1 DEF Distinct
  <2>3. \A j \in DOMAIN a, k \in DOMAIN b : a[j] # b[k]
    <3> SUFFICES ASSUME NEW j \in DOMAIN a, NEW k \in DOMAIN b
                 PROVE  a[j] # b[k]
      OBVIOUS
    <3>1. j \in DOMAIN s /\ i + k \in DOMAIN s /\ j # i + k
      BY <1>1, <1>4
    <3> QED  BY <1>2, <1>3, <1>4, <1>5, <3>1 DEF Distinct
  <2>4. Ex!InSeq(a) \cap Ex!InSeq(b) = {}
    BY <2>3 DEF Ex!InSeq
  <2> QED  BY <1>2, <1>3, <2>1, <2>2, <2>4, Joined
<1>6. RemoveAt(s, i) = a \o b
  BY DEF RemoveAt, a, b
<1> QED  BY <1>2, <1>3, <1>5, <1>6, Joined

LEMMA Listed ==
    ASSUME NEW S, IsFiniteSet(S)
    PROVE  /\ SetToSeq(S) \in Seq(S)
           /\ Distinct(SetToSeq(S))
           /\ Ex!InSeq(SetToSeq(S)) = S
<1> DEFINE n == Cardinality(S)
           f == SetToSeq(S)
<1>1. n \in Nat /\ ExistsBijection(1..n, S)
  BY FS_CardinalityType
<1>2. \E g \in [1..n -> S] : IsInjective(g)
  BY <1>1 DEF ExistsBijection, Bijection, Injection
<1>3. f \in [1..n -> S] /\ IsInjective(f)
  BY <1>2 DEF SetToSeq
<1> HIDE DEF f
<1>4. f \in Injection(1..n, S)
  BY <1>3 DEF Injection
<1>5. Cardinality(1..n) = n
  BY <1>1, FS_Interval
<1>6. f \in Surjection(1..n, S)
  BY <1>4, <1>5, FS_Injection
<1> HIDE DEF n
<1>7. f \in Seq(S) /\ DOMAIN f = 1..n
  BY <1>1, <1>3
<1>8. Ex!InSeq(f) = S
  BY <1>3, <1>6, <1>7 DEF Surjection, Ex!InSeq
<1>9. Distinct(f)
  BY <1>3 DEF Distinct, IsInjective
<1> QED  BY <1>7, <1>8, <1>9 DEF f

-----------------------------------------------------------------------------
(* Types. *)

USE DEF Places, Ways

CbType == [at : Places, want : BOOLEAN, todo : Seq(subscribed),
           leased : Ways, hold : Buffers \cup {None}]

LEMMA MessagesAreNumbers == Msgs \subseteq Nat \ {0} /\ NoTask \notin Tasks
  BY ChannelAssumption DEF Msgs, NoTask, Tasks

LEMMA Freed ==
    ASSUME TypeOK, NEW b \in Buffers \cup {None}
    PROVE  Returned(b) \in Seq(Buffers)
  BY Appended DEF TypeOK, Returned

LEMMA CalledType ==
    ASSUME TypeOK, NEW h \in All, taken # 0
    PROVE  /\ taken \in Msgs
           /\ [got EXCEPT ![h] = Append(@, taken)] \in [All -> Seq(Msgs)]
           /\ Add(lost, h) \in [All -> SUBSET Msgs]
<1>1. taken \in Msgs
  BY ChannelAssumption DEF TypeOK, Msgs
<1>2. got \in [All -> Seq(Msgs)] /\ lost \in [All -> SUBSET Msgs]
  BY DEF TypeOK
<1>3. Append(got[h], taken) \in Seq(Msgs)
  BY <1>1, <1>2
<1> QED  BY <1>1, <1>2, <1>3 DEF Add

\* What the steps of the callback may change.
CallbackTypes ==
    /\ cb' \in CbType
    /\ free' \in Seq(Buffers) /\ lease' \in Buffers \cup {None}
    /\ taken' \in 0..arrived /\ inflight' \in {0, 1}
    /\ queue' \in Seq(Tasks) /\ UNCHANGED <<slot, finished, dropped>>
    /\ due' \in [All -> SUBSET Msgs] /\ lost' \in [All -> SUBSET Msgs]
    /\ got' \in [All -> Seq(Msgs)]

LEMMA CallbackType ==
    ASSUME TypeOK, CallbackInv, Callback
    PROVE  TypeOK'
<1> USE DEF CallbackUnchanged, otherVars, subVars, tearVars, exVars
<1>0. /\ cb \in CbType
      /\ free \in Seq(Buffers) /\ lease \in Buffers \cup {None}
      /\ taken \in 0..arrived /\ arrived \in Nat /\ inflight \in {0, 1}
      /\ queue \in Seq(Tasks)
      /\ due \in [All -> SUBSET Msgs] /\ lost \in [All -> SUBSET Msgs]
      /\ got \in [All -> Seq(Msgs)]
      /\ leased \in Ways /\ handlers \in Seq(subscribed)
      /\ subscribed \subseteq All
      /\ taken \in Nat
  BY ChannelAssumption DEF TypeOK, CbType, All
<1>a. /\ \A p \in Places : [cb EXCEPT !.at = p] \in CbType
      /\ cb.todo \in Seq(subscribed) /\ cb.leased \in Ways
      /\ cb.hold \in Buffers \cup {None}
  BY <1>0 DEF CbType
<1>b. cb.todo # <<>> => /\ Head(cb.todo) \in subscribed
                        /\ [cb EXCEPT !.todo = Tail(@)] \in CbType
  <2> SUFFICES ASSUME cb.todo # <<>>
               PROVE  /\ Head(cb.todo) \in subscribed
                      /\ [cb EXCEPT !.todo = Tail(@)] \in CbType
    OBVIOUS
  <2>1. Head(cb.todo) \in subscribed /\ Tail(cb.todo) \in Seq(subscribed)
    BY <1>a
  <2> QED  BY <1>0, <2>1 DEF CbType
<1>c. [cb EXCEPT !.at = "take", !.leased = None] \in CbType
  BY <1>0 DEF CbType
<1>d. None \in Ways /\ Leased \in All
  BY DEF All
<1>1. CASE Enter
  <2> CallbackTypes  BY <1>0, <1>a, <1>1 DEF Enter, CallbackTypes
  <2> UNCHANGED otherVars  BY <1>1 DEF Enter
  <2> QED  BY DEF TypeOK, CallbackTypes, CbType
<1>2. CASE Count
  <2>1. inflight' = 1
    BY <1>0, <1>2 DEF Count, At, CallbackInv
  <2> CallbackTypes  BY <1>0, <1>a, <1>2, <2>1 DEF Count, CallbackTypes
  <2> UNCHANGED otherVars  BY <1>2 DEF Count
  <2> QED  BY DEF TypeOK, CallbackTypes, CbType
<1>3. CASE Configure
  <2>1. cb' \in CbType
    BY <1>0, <1>3 DEF Configure, CbType
  <2> CallbackTypes  BY <1>0, <1>3, <2>1 DEF Configure, CallbackTypes
  <2> UNCHANGED otherVars  BY <1>3 DEF Configure
  <2> QED  BY DEF TypeOK, CallbackTypes, CbType
<1>4. CASE Take
  <2>1. free # <<>> => Head(free) \in Buffers /\ Tail(free) \in Seq(Buffers)
    BY <1>0
  <2>2. free # <<>> => Append(Tail(free), Head(free)) \in Seq(Buffers)
    BY <2>1
  <2>3. Returned(lease) \in Seq(Buffers)
    BY <1>0, Freed
  <2>4. free' \in Seq(Buffers) /\ lease' \in Buffers \cup {None}
    BY <1>0, <1>4, <2>1, <2>2, <2>3 DEF Take, TakeToBuffer, TakeToVector
  <2>5. taken' \in 0..arrived
    BY <1>0, <1>4 DEF Take
  <2> CallbackTypes  BY <1>0, <1>a, <1>4, <2>4, <2>5 DEF Take, CallbackTypes
  <2> UNCHANGED otherVars  BY <1>4 DEF Take
  <2> QED  BY DEF TypeOK, CallbackTypes, CbType
<1>5. CASE Test
  <2> CallbackTypes  BY <1>0, <1>a, <1>5 DEF Test, CallbackTypes
  <2> UNCHANGED otherVars  BY <1>5 DEF Test
  <2> QED  BY DEF TypeOK, CallbackTypes, CbType
<1>6. CASE NotAlive
  <2> CallbackTypes  BY <1>0, <1>a, <1>6 DEF NotAlive, CallbackTypes
  <2> UNCHANGED otherVars  BY <1>6 DEF NotAlive
  <2> QED  BY DEF TypeOK, CallbackTypes, CbType
<1>7. CASE Copy
  <2>1. taken \in Msgs
    BY <1>7, <1>d, CalledType DEF Copy, At, CallbackInv
  <2>2. cb' \in CbType
    BY <1>0, <1>7 DEF Copy, CbType
  <2>3. due' \in [All -> SUBSET Msgs]
    BY <1>0, <1>7, <2>1 DEF Copy
  <2> CallbackTypes  BY <1>0, <1>7, <2>2, <2>3 DEF Copy, CallbackTypes
  <2> UNCHANGED otherVars  BY <1>7 DEF Copy
  <2> QED  BY DEF TypeOK, CallbackTypes, CbType
<1>8. CASE DeliverInPlace
  <2>1. Head(cb.todo) \in All /\ taken # 0
    BY <1>0, <1>b, <1>8 DEF DeliverInPlace, At, CallbackInv
  <2>2. got' \in [All -> Seq(Msgs)]
    BY <1>8, <2>1, CalledType DEF DeliverInPlace, Call
  <2> CallbackTypes
    BY <1>0, <1>b, <1>8, <2>2 DEF DeliverInPlace, CallbackTypes
  <2> UNCHANGED otherVars  BY <1>8 DEF DeliverInPlace
  <2> QED  BY DEF TypeOK, CallbackTypes, CbType
<1>9. CASE DeliverPost
  <2>1. taken # 0 /\ taken \in Msgs
    BY <1>9, <1>d, CalledType DEF DeliverPost, At, CallbackInv
  <2>2. [to |-> Head(cb.todo), msg |-> taken, buf |-> None] \in Tasks
    BY <1>9, <2>1 DEF DeliverPost, Tasks
  <2>3. queue' \in Seq(Tasks) /\ UNCHANGED <<slot, finished, dropped>>
    BY <1>0, <1>9, <2>2 DEF DeliverPost, Ex!Submit
  <2> CallbackTypes
    BY <1>0, <1>b, <1>9, <2>3 DEF DeliverPost, CallbackTypes
  <2> UNCHANGED otherVars  BY <1>9 DEF DeliverPost
  <2> QED  BY DEF TypeOK, CallbackTypes, CbType
<1>10. CASE DeliverRefused
  <2>1. Head(cb.todo) \in All /\ taken # 0
    BY <1>0, <1>b, <1>10 DEF DeliverRefused, At, CallbackInv
  <2>2. lost' \in [All -> SUBSET Msgs]
    BY <1>10, <2>1, CalledType DEF DeliverRefused
  <2> CallbackTypes
    BY <1>0, <1>b, <1>10, <2>2 DEF DeliverRefused, CallbackTypes
  <2> UNCHANGED otherVars  BY <1>10 DEF DeliverRefused
  <2> QED  BY DEF TypeOK, CallbackTypes, CbType
<1>11. CASE NoLeased
  <2> CallbackTypes  BY <1>0, <1>a, <1>11 DEF NoLeased, CallbackTypes
  <2> UNCHANGED otherVars  BY <1>11 DEF NoLeased
  <2> QED  BY DEF TypeOK, CallbackTypes, CbType
<1>12. CASE PoolExhausted
  <2>1. taken # 0
    BY <1>12 DEF PoolExhausted, LeasedTurn, At, CallbackInv
  <2>2. lost' \in [All -> SUBSET Msgs]
    BY <1>12, <1>d, <2>1, CalledType DEF PoolExhausted
  <2> CallbackTypes
    BY <1>0, <1>c, <1>12, <2>2 DEF PoolExhausted, CallbackTypes
  <2> UNCHANGED otherVars  BY <1>12 DEF PoolExhausted
  <2> QED  BY DEF TypeOK, CallbackTypes, CbType
<1>13. CASE LeasedPost
  <2>1. taken # 0 /\ taken \in Msgs
    BY <1>13, <1>d, CalledType DEF LeasedPost, LeasedTurn, At, CallbackInv
  <2>2. [to |-> Leased, msg |-> taken, buf |-> lease] \in Tasks
    BY <1>0, <1>13, <2>1 DEF LeasedPost, Tasks
  <2>3. queue' \in Seq(Tasks) /\ UNCHANGED <<slot, finished, dropped>>
    BY <1>0, <1>13, <2>2 DEF LeasedPost, Ex!Submit
  <2> CallbackTypes
    BY <1>0, <1>c, <1>13, <2>3 DEF LeasedPost, CallbackTypes
  <2> UNCHANGED otherVars  BY <1>13 DEF LeasedPost
  <2> QED  BY DEF TypeOK, CallbackTypes, CbType
<1>14. CASE LeasedRefused
  <2>1. taken # 0
    BY <1>14 DEF LeasedRefused, LeasedTurn, At, CallbackInv
  <2>2. lost' \in [All -> SUBSET Msgs]
    BY <1>14, <1>d, <2>1, CalledType DEF LeasedRefused
  <2>3. free' \in Seq(Buffers)
    BY <1>0, <1>14, Freed DEF LeasedRefused
  <2> CallbackTypes
    BY <1>0, <1>c, <1>14, <2>2, <2>3 DEF LeasedRefused, CallbackTypes
  <2> UNCHANGED otherVars  BY <1>14 DEF LeasedRefused
  <2> QED  BY DEF TypeOK, CallbackTypes, CbType
<1>15. CASE LeasedCall
  <2>1. taken # 0
    BY <1>15 DEF LeasedCall, LeasedTurn, At, CallbackInv
  <2>2. got' \in [All -> Seq(Msgs)]
    BY <1>15, <1>d, <2>1, CalledType DEF LeasedCall, Call
  <2>3. cb' \in CbType
    BY <1>0, <1>15 DEF LeasedCall, CbType
  <2> CallbackTypes
    BY <1>0, <1>15, <2>2, <2>3 DEF LeasedCall, CallbackTypes
  <2> UNCHANGED otherVars  BY <1>15 DEF LeasedCall
  <2> QED  BY DEF TypeOK, CallbackTypes, CbType
<1>16. CASE LeasedReturns
  <2>1. free' \in Seq(Buffers)
    BY <1>a, <1>16, Freed DEF LeasedReturns
  <2>2. cb' \in CbType
    BY <1>0, <1>16 DEF LeasedReturns, CbType
  <2> CallbackTypes
    BY <1>0, <1>16, <2>1, <2>2 DEF LeasedReturns, CallbackTypes
  <2> UNCHANGED otherVars  BY <1>16 DEF LeasedReturns
  <2> QED  BY DEF TypeOK, CallbackTypes, CbType
<1>17. CASE Leave
  <2>1. inflight' = 0
    BY <1>0, <1>17 DEF Leave, At, CallbackInv
  <2>2. Out \in CbType
    BY <1>d DEF Out, CbType
  <2> CallbackTypes  BY <1>0, <1>17, <2>1, <2>2 DEF Leave, CallbackTypes
  <2> UNCHANGED otherVars  BY <1>17 DEF Leave
  <2> QED  BY DEF TypeOK, CallbackTypes, CbType
<1>18. CASE Dangle
  BY <1>18 DEF Dangle, TypeOK
<1> QED
  BY <1>1, <1>2, <1>3, <1>4, <1>5, <1>6, <1>7, <1>8, <1>9, <1>10, <1>11,
     <1>12, <1>13, <1>14, <1>15, <1>16, <1>17, <1>18 DEF Callback

LEMMA LeasesAreBuffers ==
    ASSUME TypeOK
    PROVE  /\ LeasesIn(Ex!InSeq(queue)) \subseteq Buffers
           /\ LET back == SetToSeq(LeasesIn(Ex!InSeq(queue)))
              IN  /\ back \in Seq(Buffers) /\ Distinct(back)
                  /\ Ex!InSeq(back) = LeasesIn(Ex!InSeq(queue))
<1> DEFINE L == LeasesIn(Ex!InSeq(queue))
<1>1. \A k \in Ex!InSeq(queue) : k \in Tasks
  BY DEF TypeOK, Ex!InSeq
<1>2. L \subseteq Buffers
  BY <1>1 DEF LeasesIn, Tasks
<1> HIDE DEF L
<1>3. IsFiniteSet(L)
  BY <1>2, FS_Subset, ChannelAssumption
<1>4. /\ SetToSeq(L) \in Seq(L) /\ Distinct(SetToSeq(L))
      /\ Ex!InSeq(SetToSeq(L)) = L
  BY <1>3, Listed
<1>5. SetToSeq(L) \in Seq(Buffers)
  <2> DEFINE r == SetToSeq(L)
  <2> HIDE DEF r
  <2>1. r \in Seq(L)
    BY <1>4 DEF r
  <2>2. r \in Seq(Buffers)
    BY <1>2, <2>1
  <2> QED  BY <2>2 DEF r
<1> QED  BY <1>2, <1>4, <1>5 DEF L

LEMMA ArriveType == ASSUME TypeOK, Arrive  PROVE TypeOK'
<1>1. arrived' \in 0..MaxMsgs /\ taken' \in 0..arrived'
  BY ChannelAssumption DEF TypeOK, Arrive
<1>2. UNCHANGED <<subVars, tearVars, undefined, free, lease, cb, inflight,
                  exVars, due, got, lost>>
  BY DEF Arrive
<1> QED  BY <1>1, <1>2 DEF TypeOK, subVars, tearVars, exVars

LEMMA TaskingType == ASSUME TypeOK, Tasking  PROVE TypeOK'
<1>0. /\ queue \in Seq(Tasks) /\ slot \in [Slots -> Tasks \cup {NoTask}]
      /\ got \in [All -> Seq(Msgs)] /\ lost \in [All -> SUBSET Msgs]
      /\ finished \subseteq Tasks /\ dropped \subseteq Tasks
      /\ free \in Seq(Buffers)
  BY DEF TypeOK
<1>a. \A k \in Tasks : k.to \in All /\ k.msg \in Msgs
                       /\ k.buf \in Buffers \cup {None}
  BY ChannelAssumption DEF Tasks, All
<1>b. Ex!InSeq(queue) \subseteq Tasks
  BY <1>0 DEF Ex!InSeq
<1>1. ASSUME NEW s \in Slots, Begin(s)  PROVE TypeOK'
  <2>1. Head(queue) \in Tasks /\ Tail(queue) \in Seq(Tasks)
    BY <1>0, <1>1 DEF Begin, Ex!Begin
  <2>2. queue' \in Seq(Tasks) /\ slot' \in [Slots -> Tasks \cup {NoTask}]
    BY <1>0, <1>1, <2>1 DEF Begin, Ex!Begin
  <2>3. Append(got[Head(queue).to], Head(queue).msg) \in Seq(Msgs)
    BY <1>0, <1>a, <2>1
  <2>4. got' \in [All -> Seq(Msgs)]
    BY <1>0, <1>1, <2>3 DEF Begin
  <2>5. UNCHANGED <<finished, dropped>>
    BY <1>1 DEF Begin, Ex!Begin
  <2> QED  BY <1>1, <2>2, <2>4, <2>5
           DEF TypeOK, Begin, ExecutorUnchanged, otherVars, subVars, tearVars
<1>2. ASSUME NEW s \in Slots, End(s)  PROVE TypeOK'
  <2>1. slot[s] \in Tasks
    BY <1>0, <1>2 DEF End, Ex!End
  <2>2. Returned(slot[s].buf) \in Seq(Buffers)
    BY <1>a, <2>1, Freed
  <2>3. free' \in Seq(Buffers)
    BY <1>2, <2>2 DEF End
  <2>4. slot' \in [Slots -> Tasks \cup {NoTask}] /\ UNCHANGED <<queue, dropped>>
    BY <1>0, <1>2 DEF End, Ex!End
  <2>5. finished' \subseteq Tasks
    BY <1>0, <1>2, <2>1 DEF End, Ex!End
  <2> QED  BY <1>2, <2>3, <2>4, <2>5
           DEF TypeOK, End, ExecutorUnchanged, otherVars, subVars, tearVars
<1>3. CASE Discard
  <2>1. free' \in Seq(Buffers)
    <3> DEFINE back == SetToSeq(LeasesIn(Ex!InSeq(queue)))
    <3>1. back \in Seq(Buffers)
      BY LeasesAreBuffers
    <3>2. free' = free \o back
      BY <1>3 DEF Discard
    <3> HIDE DEF back
    <3> QED  BY <1>0, <3>1, <3>2
  <2>2. lost' \in [All -> SUBSET Msgs]
    <3>1. \A h \in All : lost[h] \cup MsgsFor(h, Ex!InSeq(queue)) \subseteq Msgs
      BY <1>0, <1>a, <1>b DEF MsgsFor
    <3> QED  BY <1>3, <3>1 DEF Discard
  <2>3. queue' \in Seq(Tasks) /\ UNCHANGED <<slot, finished>>
        /\ dropped' \subseteq Tasks
    BY <1>0, <1>b, <1>3 DEF Discard, Ex!Discard
  <2> QED  BY <1>3, <2>1, <2>2, <2>3
           DEF TypeOK, Discard, ExecutorUnchanged, otherVars, subVars, tearVars
<1> QED  BY <1>1, <1>2, <1>3 DEF Tasking

LEMMA OwnerType == ASSUME TypeOK, CallbackInv, Owner  PROVE TypeOK'
<1> USE DEF OwnerUnchanged, exVars, tearVars
<1>1. ASSUME NEW h \in Handlers, Subscribe(h)  PROVE TypeOK'
  <2>1. \A s \in Seq(subscribed) : s \in Seq(subscribed \cup {h})
    OBVIOUS
  <2>2. handlers \in Seq(subscribed \cup {h})
        /\ cb.todo \in Seq(subscribed \cup {h})
    BY <2>1 DEF TypeOK
  <2>3. subscribed' = subscribed \cup {h} /\ subscribed' \subseteq Handlers
    BY <1>1 DEF Subscribe, TypeOK
  <2>4. handlers' \in Seq(subscribed')
    BY <1>1, <2>2, <2>3 DEF Subscribe
  <2>5. cb' \in CbType'
    BY <1>1, <2>2, <2>3 DEF Subscribe, CbType, TypeOK
  <2>6. UNCHANGED <<leased, renewals, tearVars, undefined, free, lease,
                    arrived, taken, inflight, exVars, due, got, lost>>
    BY <1>1 DEF Subscribe
  <2> QED  BY <2>3, <2>4, <2>5, <2>6 DEF TypeOK, CbType
<1>2. ASSUME NEW h \in Handlers, Reset(h)  PROVE TypeOK'
  <2>1. handlers' \in Seq(subscribed)
    BY <1>2, Removed DEF Reset, TypeOK
  <2>2. UNCHANGED <<leased, subscribed, renewals, tearVars, undefined, free,
                    lease, arrived, taken, cb, inflight, exVars, due, got, lost>>
    BY <1>2 DEF Reset
  <2> QED  BY <2>1, <2>2 DEF TypeOK
<1>3. ASSUME NEW where \in {"inline", "posted"}, SubscribeLeased(where)
      PROVE  TypeOK'
  BY <1>3 DEF SubscribeLeased, TypeOK
<1>4. CASE Stop
  BY <1>4 DEF Stop, NoHandlers, TypeOK
<1>5. CASE CleanupFlag
  BY <1>5 DEF CleanupFlag, TypeOK, subVars
<1>6. CASE CleanupClear
  BY <1>6 DEF CleanupClear, NoHandlers, TypeOK
<1>7. CASE CleanupUnlisten
  BY <1>7 DEF CleanupUnlisten, TypeOK, subVars
<1>8. CASE CleanupWait
  BY <1>8 DEF CleanupWait, TypeOK, subVars
<1>9. CASE CleanupDelete
  <2>1. free' \in Seq(Buffers) /\ lease' \in Buffers \cup {None}
    BY <1>9, Freed DEF CleanupDelete, TypeOK
  <2> QED  BY <1>9, <2>1 DEF CleanupDelete, TypeOK, subVars
<1> QED  BY <1>1, <1>2, <1>3, <1>4, <1>5, <1>6, <1>7, <1>8, <1>9 DEF Owner

-----------------------------------------------------------------------------
(* The callback against stop() and cleanup(). *)

LEMMA CallbackControl ==
    ASSUME TypeOK, CallbackInv, CleanupInv, Callback
    PROVE  CallbackInv' /\ CleanupInv'
<1> USE DEF CallbackUnchanged, otherVars, subVars, tearVars
<1>0. /\ cb \in CbType /\ taken \in Nat
      /\ cb.todo # <<>> => Distinct(Tail(cb.todo))
  <2>1. cb \in CbType /\ taken \in Nat
    BY ChannelAssumption DEF TypeOK, CbType
  <2>2. cb.todo \in Seq(subscribed)
    BY <2>1 DEF CbType
  <2> QED  BY <2>1, <2>2, Beheaded DEF CallbackInv
<1>1. Distinct(handlers') /\ Distinct(handlers) /\ Distinct(<<>>)
  <2>1. handlers' = handlers
    BY DEF Callback, Enter, Count, Configure, Take, Test, NotAlive, Copy,
           DeliverInPlace, DeliverPost, DeliverRefused, NoLeased,
           PoolExhausted, LeasedPost, LeasedRefused, LeasedCall,
           LeasedReturns, Leave, Dangle
  <2> QED  BY <2>1 DEF CallbackInv, Distinct
<1>2. CallbackInv'
  <2> USE DEF CallbackInv, CbType, At, LeasedTurn
  <2>1. CASE Enter  BY <1>0, <1>1, <2>1 DEF Enter
  <2>2. CASE Count  BY <1>0, <1>1, <2>2 DEF Count
  <2>3. CASE Configure  BY <1>0, <1>1, <2>3 DEF Configure
  <2>4. CASE Take  BY <1>0, <1>1, <2>4 DEF Take
  <2>5. CASE Test  BY <1>0, <1>1, <2>5 DEF Test
  <2>6. CASE NotAlive  BY <1>0, <1>1, <2>6 DEF NotAlive
  <2>7. CASE Copy  BY <1>0, <1>1, <2>7 DEF Copy
  <2>8. CASE DeliverInPlace  BY <1>0, <1>1, <2>8 DEF DeliverInPlace
  <2>9. CASE DeliverPost  BY <1>0, <1>1, <2>9 DEF DeliverPost
  <2>10. CASE DeliverRefused  BY <1>0, <1>1, <2>10 DEF DeliverRefused
  <2>11. CASE NoLeased  BY <1>0, <1>1, <2>11 DEF NoLeased
  <2>12. CASE PoolExhausted  BY <1>0, <1>1, <2>12 DEF PoolExhausted
  <2>13. CASE LeasedPost  BY <1>0, <1>1, <2>13 DEF LeasedPost
  <2>14. CASE LeasedRefused  BY <1>0, <1>1, <2>14 DEF LeasedRefused
  <2>15. CASE LeasedCall  BY <1>0, <1>1, <2>15 DEF LeasedCall
  <2>16. CASE LeasedReturns  BY <1>0, <1>1, <2>16 DEF LeasedReturns
  <2>17. CASE Leave  BY <1>0, <1>1, <2>17 DEF Leave, Out
  <2>18. CASE Dangle  BY <2>18 DEF Dangle
  <2> QED  BY <2>1, <2>2, <2>3, <2>4, <2>5, <2>6, <2>7, <2>8, <2>9, <2>10,
              <2>11, <2>12, <2>13, <2>14, <2>15, <2>16, <2>17, <2>18
           DEF Callback
<1>3. UNCHANGED <<handlers, leased, stopping, listener, ctl, late>>
  BY DEF Callback, Enter, Count, Configure, Take, Test, NotAlive, Copy,
         DeliverInPlace, DeliverPost, DeliverRefused, NoLeased, PoolExhausted,
         LeasedPost, LeasedRefused, LeasedCall, LeasedReturns, Leave, Dangle
\* With handlers_ empty there is nothing to copy, and nothing comes of nothing.
<1>4. ASSUME handlers = <<>>, leased = None, cb.todo = <<>>,
             cb.leased = None, cb.hold = None
      PROVE  cb'.todo = <<>> /\ cb'.leased = None /\ cb'.hold = None
  <2> USE DEF CbType, At, LeasedTurn
  <2>1. CASE Enter  BY <1>0, <1>4, <2>1 DEF Enter
  <2>2. CASE Count  BY <1>0, <1>4, <2>2 DEF Count
  <2>3. CASE Configure  BY <1>0, <1>4, <2>3 DEF Configure
  <2>4. CASE Take  BY <1>0, <1>4, <2>4 DEF Take
  <2>5. CASE Test  BY <1>0, <1>4, <2>5 DEF Test
  <2>6. CASE NotAlive  BY <1>0, <1>4, <2>6 DEF NotAlive
  <2>7. CASE Copy  BY <1>0, <1>4, <2>7 DEF Copy
  <2>8. CASE DeliverInPlace  BY <1>0, <1>4, <2>8 DEF DeliverInPlace
  <2>9. CASE DeliverPost  BY <1>0, <1>4, <2>9 DEF DeliverPost
  <2>10. CASE DeliverRefused  BY <1>0, <1>4, <2>10 DEF DeliverRefused
  <2>11. CASE NoLeased  BY <1>0, <1>4, <2>11 DEF NoLeased
  <2>12. CASE PoolExhausted  BY <1>0, <1>4, <2>12 DEF PoolExhausted
  <2>13. CASE LeasedPost  BY <1>0, <1>4, <2>13 DEF LeasedPost
  <2>14. CASE LeasedRefused  BY <1>0, <1>4, <2>14 DEF LeasedRefused
  <2>15. CASE LeasedCall
    BY <1>0, <1>4, <2>15, ChannelAssumption DEF LeasedCall
  <2>16. CASE LeasedReturns  BY <1>0, <1>4, <2>16 DEF LeasedReturns
  <2>17. CASE Leave  BY <1>0, <1>4, <2>17 DEF Leave, Out
  <2>18. CASE Dangle  BY <1>0, <1>4, <2>18 DEF Dangle
  <2> QED  BY <2>1, <2>2, <2>3, <2>4, <2>5, <2>6, <2>7, <2>8, <2>9, <2>10,
              <2>11, <2>12, <2>13, <2>14, <2>15, <2>16, <2>17, <2>18
           DEF Callback
<1> QED  BY <1>2, <1>3, <1>4 DEF CleanupInv, Awaited

LEMMA ElseControl ==
    ASSUME TypeOK, CallbackInv, CleanupInv, Arrive \/ Tasking
    PROVE  CallbackInv' /\ CleanupInv'
<1>1. UNCHANGED <<subVars, tearVars, taken, cb, inflight>>
  BY DEF Arrive, Tasking, Begin, End, Discard, ExecutorUnchanged, otherVars
<1> QED  BY <1>1 DEF CallbackInv, CleanupInv, Awaited, Distinct, subVars,
                     tearVars

LEMMA OwnerControl ==
    ASSUME TypeOK, CallbackInv, CleanupInv, Owner
    PROVE  CallbackInv' /\ CleanupInv'
<1> USE DEF OwnerUnchanged, tearVars
<1>0. UNCHANGED <<taken, cb, inflight>>
  BY DEF Owner, Subscribe, Reset, SubscribeLeased, Stop, CleanupFlag,
         CleanupClear, CleanupUnlisten, CleanupWait, CleanupDelete
<1>1. Distinct(handlers')
  <2>1. ASSUME NEW h \in Handlers, Subscribe(h)  PROVE Distinct(handlers')
    <3>1. /\ handlers \in Seq(subscribed) /\ h \notin subscribed
          /\ handlers' = Append(handlers, h)
      BY <2>1 DEF Subscribe, TypeOK
    <3>2. handlers \in Seq(subscribed \cup {h}) /\ h \notin Ex!InSeq(handlers)
      BY <3>1 DEF Ex!InSeq
    <3> QED  BY <3>1, <3>2, Appended DEF CallbackInv
  <2>2. ASSUME NEW h \in Handlers, Reset(h)  PROVE Distinct(handlers')
    BY <2>2, Removed DEF Reset, TypeOK, CallbackInv
  <2>3. CASE handlers' = <<>>
    BY <2>3 DEF Distinct
  <2>4. CASE UNCHANGED handlers
    BY <2>4 DEF CallbackInv, Distinct
  <2> QED
    BY <2>1, <2>2, <2>3, <2>4
       DEF Owner, SubscribeLeased, Stop, CleanupFlag, CleanupClear,
           CleanupUnlisten, CleanupWait, CleanupDelete, NoHandlers, subVars
<1>2. CallbackInv'
  BY <1>0, <1>1 DEF CallbackInv
<1>3. CleanupInv'
  <2> USE <1>0 DEF CleanupInv, Awaited
  <2>1. ASSUME NEW h \in Handlers, Subscribe(h) \/ Reset(h)  PROVE CleanupInv'
    BY <2>1 DEF Subscribe, Reset
  <2>2. ASSUME NEW where \in {"inline", "posted"}, SubscribeLeased(where)
        PROVE  CleanupInv'
    BY <2>2 DEF SubscribeLeased
  <2>3. CASE Stop  BY <2>3 DEF Stop
  <2>4. CASE CleanupFlag  BY <2>4 DEF CleanupFlag, subVars
  <2>5. CASE CleanupClear  BY <2>5 DEF CleanupClear, NoHandlers
  <2>6. CASE CleanupUnlisten  BY <2>6 DEF CleanupUnlisten, subVars
  \* Nobody inside, or the wait has been given up.
  <2>7. CASE CleanupWait
    <3>1. late' = (inflight # 0) /\ ctl = "wait" /\ ctl' = "delete"
          /\ UNCHANGED <<handlers, leased, stopping, listener, cb>>
      BY <2>7 DEF CleanupWait, subVars
    <3>2. ASSUME ~late'
          PROVE  cb.todo = <<>> /\ cb.leased = None /\ cb.hold = None
      <4>1. inflight = 0
        BY <3>1, <3>2, Zenon
      <4>2. cb.at \in {"out", "count"}
        BY <4>1 DEF CallbackInv
      <4> QED  BY <4>2 DEF CallbackInv
    <3> QED  BY <3>1, <3>2
  <2>8. CASE CleanupDelete  BY <2>8 DEF CleanupDelete, subVars
  <2> QED  BY <2>1, <2>2, <2>3, <2>4, <2>5, <2>6, <2>7, <2>8 DEF Owner
<1> QED  BY <1>2, <1>3

-----------------------------------------------------------------------------
(* The leases. *)

LEMMA GivenBack ==
    ASSUME TypeOK, LeaseInv, NEW b \in Buffers \cup {None}, b \notin FreeOnes
    PROVE  /\ Distinct(Returned(b))
           /\ Ex!InSeq(Returned(b)) = FreeOnes \cup ({b} \ {None})
  BY Appended DEF TypeOK, LeaseInv, FreeOnes, Returned

LEMMA Queued ==
    ASSUME TypeOK, LeaseInv, NEW k \in Tasks, k.buf \notin QueueOnes
    PROVE  /\ OwnsAlone(Append(queue, k))
           /\ LeasesIn(Ex!InSeq(Append(queue, k)))
                 = QueueOnes \cup ({k.buf} \ {None})
<1> DEFINE r == Append(queue, k)
<1>1. /\ Ex!InSeq(r) = Ex!InSeq(queue) \cup {k}
      /\ DOMAIN r = DOMAIN queue \cup {Len(queue) + 1}
      /\ \A i \in DOMAIN queue : r[i] = queue[i]
      /\ r[Len(queue) + 1] = k
  BY Appended DEF TypeOK
<1> HIDE DEF r
<1>2. LeasesIn(Ex!InSeq(r)) = QueueOnes \cup ({k.buf} \ {None})
  BY <1>1 DEF QueueOnes, LeasesIn
<1>3. \A i \in DOMAIN queue : queue[i].buf = None \/ queue[i].buf # k.buf
  BY DEF QueueOnes, LeasesIn, Ex!InSeq
<1>4. OwnsAlone(r)
  BY <1>1, <1>3 DEF LeaseInv, OwnsAlone
<1> QED  BY <1>2, <1>4 DEF r

LEMMA LeaseIdle ==
    ASSUME LeaseInv, UNCHANGED <<free, lease, queue, slot>>, cb'.hold = cb.hold
    PROVE  LeaseInv'
  BY DEF LeaseInv, FreeOnes, QueueOnes, SlotOnes, MsgOnes, HoldOnes, Distinct,
         OwnsAlone, Partition

LEMMA TakeLease == ASSUME TypeOK, LeaseInv, Take  PROVE LeaseInv'
<1>0. /\ UNCHANGED <<queue, slot>> /\ cb'.hold = cb.hold
      /\ free \in Seq(Buffers) /\ lease \in Buffers \cup {None}
      /\ None \notin Buffers
  BY ChannelAssumption DEF Take, CallbackUnchanged, exVars, TypeOK
<1>1. /\ QueueOnes' = QueueOnes /\ SlotOnes' = SlotOnes /\ HoldOnes' = HoldOnes
      /\ OwnsAlone(queue') /\ OwnsAlone(slot')
  BY <1>0 DEF QueueOnes, SlotOnes, HoldOnes, LeaseInv, OwnsAlone
<1>2. CASE UNCHANGED <<free, lease>>
  BY <1>0, <1>2, LeaseIdle
<1>3. free # <<>> => /\ Head(free) \in Buffers /\ Tail(free) \in Seq(Buffers)
                     /\ FreeOnes = Ex!InSeq(Tail(free)) \cup {Head(free)}
                     /\ Distinct(Tail(free))
                     /\ Head(free) \notin Ex!InSeq(Tail(free))
  BY <1>0, Beheaded DEF LeaseInv, FreeOnes
<1>4. CASE lease = None /\ free # <<>> /\ lease' = Head(free)
           /\ free' = Tail(free)
  <2>1. /\ Distinct(free') /\ MsgOnes = {} /\ MsgOnes' = {lease'}
        /\ FreeOnes = FreeOnes' \cup {lease'} /\ lease' \notin FreeOnes'
    BY <1>0, <1>3, <1>4 DEF FreeOnes, MsgOnes
  <2> QED  BY <1>1, <2>1 DEF LeaseInv, Partition
<1>5. CASE /\ lease = None /\ free # <<>> /\ lease' = None
           /\ free' = Append(Tail(free), Head(free))
  <2>1. Distinct(free') /\ FreeOnes' = FreeOnes
    <3> DEFINE r == Tail(free)
               x == Head(free)
    <3>1. /\ r \in Seq(Buffers) /\ x \in Buffers /\ Distinct(r)
          /\ x \notin Ex!InSeq(r) /\ FreeOnes = Ex!InSeq(r) \cup {x}
          /\ free' = Append(r, x)
      BY <1>3, <1>5
    <3> HIDE DEF r, x
    <3>2. Distinct(Append(r, x)) /\ Ex!InSeq(Append(r, x)) = FreeOnes
      BY <3>1, Appended
    <3>3. FreeOnes' = Ex!InSeq(free')
      BY DEF FreeOnes, Ex!InSeq
    <3> QED  BY <3>1, <3>2, <3>3
  <2>2. MsgOnes' = MsgOnes
    BY <1>5 DEF MsgOnes
  <2> QED  BY <1>1, <2>1, <2>2 DEF LeaseInv, Partition
<1>6. CASE lease' = None /\ free' = Returned(lease)
  <2>1. lease \notin FreeOnes
    BY <1>0 DEF LeaseInv, Partition, FreeOnes, MsgOnes, Ex!InSeq
  <2>2. Distinct(free') /\ FreeOnes' = FreeOnes \cup MsgOnes
    BY <1>0, <1>6, <2>1, GivenBack DEF FreeOnes, MsgOnes
  <2>3. MsgOnes' = {}
    BY <1>6 DEF MsgOnes
  <2> QED  BY <1>1, <2>2, <2>3 DEF LeaseInv, Partition
<1> QED  BY <1>2, <1>4, <1>5, <1>6 DEF Take, TakeToBuffer, TakeToVector

\* The lease of msg_ goes back to the pool.
LEMMA LeaseBack ==
    ASSUME TypeOK, LeaseInv, free' = Returned(lease), lease' = None,
           UNCHANGED <<queue, slot>>, cb'.hold = cb.hold
    PROVE  LeaseInv'
<1>0. lease \in Buffers \cup {None} /\ None \notin Buffers
      /\ free \in Seq(Buffers)
  BY ChannelAssumption DEF TypeOK
<1>1. lease \notin FreeOnes
  BY <1>0 DEF LeaseInv, Partition, FreeOnes, MsgOnes, Ex!InSeq
<1>2. Distinct(free') /\ FreeOnes' = FreeOnes \cup MsgOnes
  BY <1>0, <1>1, GivenBack DEF FreeOnes, MsgOnes
<1>3. MsgOnes' = {}
  BY DEF MsgOnes
<1>4. /\ QueueOnes' = QueueOnes /\ SlotOnes' = SlotOnes /\ HoldOnes' = HoldOnes
      /\ OwnsAlone(queue') /\ OwnsAlone(slot')
  BY DEF QueueOnes, SlotOnes, HoldOnes, LeaseInv, OwnsAlone
<1> QED  BY <1>2, <1>3, <1>4 DEF LeaseInv, Partition

LEMMA CallbackLease ==
    ASSUME TypeOK, CallbackInv, LeaseInv, Callback
    PROVE  LeaseInv'
<1> USE DEF CallbackUnchanged, exVars
<1>0. /\ cb \in CbType /\ None \notin Buffers
      /\ lease \in Buffers \cup {None} /\ taken \in Nat
  BY ChannelAssumption DEF TypeOK, CbType
<1>1. CASE Take
  BY <1>1, TakeLease
<1>2. CASE LeasedRefused
  <2>1. cb'.hold = cb.hold
    BY <1>0, <1>2 DEF LeasedRefused, CbType
  <2> QED  BY <1>2, <2>1, LeaseBack DEF LeasedRefused
<1>3. CASE DeliverPost
  <2> DEFINE k == [to |-> Head(cb.todo), msg |-> taken, buf |-> None]
  <2>1. k \in Tasks /\ k.buf = None
    <3>1. taken \in Msgs
      BY <1>3, CalledType DEF DeliverPost, At, CallbackInv, All
    <3> QED  BY <1>3, <3>1 DEF DeliverPost, Tasks
  <2>2. queue' = Append(queue, k) /\ UNCHANGED <<slot, free, lease>>
    BY <1>3 DEF DeliverPost, Ex!Submit
  <2>3. cb'.hold = cb.hold
    BY <1>0, <1>3 DEF DeliverPost, CbType
  <2> HIDE DEF k
  <2>4. None \notin QueueOnes
    BY DEF QueueOnes, LeasesIn
  <2>5. OwnsAlone(queue') /\ QueueOnes' = QueueOnes
    BY <2>1, <2>2, <2>4, Queued DEF QueueOnes
  <2>6. /\ FreeOnes' = FreeOnes /\ SlotOnes' = SlotOnes
        /\ HoldOnes' = HoldOnes /\ MsgOnes' = MsgOnes
        /\ Distinct(free') /\ OwnsAlone(slot')
    BY <2>2, <2>3
       DEF FreeOnes, SlotOnes, HoldOnes, MsgOnes, LeaseInv, Distinct, OwnsAlone
  <2> QED  BY <2>5, <2>6 DEF LeaseInv, Partition
<1>4. CASE LeasedPost
  <2> DEFINE k == [to |-> Leased, msg |-> taken, buf |-> lease]
  <2>1. k \in Tasks /\ k.buf = lease
    <3>1. taken \in Msgs
      BY <1>4, CalledType DEF LeasedPost, LeasedTurn, At, CallbackInv, All
    <3> QED  BY <1>0, <1>4, <3>1 DEF LeasedPost, Tasks
  <2>2. /\ queue' = Append(queue, k) /\ UNCHANGED <<slot, free>>
        /\ lease # None /\ lease' = None
    BY <1>4 DEF LeasedPost, Ex!Submit
  <2>3. cb'.hold = cb.hold
    BY <1>0, <1>4 DEF LeasedPost, CbType
  <2> HIDE DEF k
  <2>4. lease \notin QueueOnes
    BY <2>2 DEF LeaseInv, Partition, MsgOnes
  <2>5. OwnsAlone(queue') /\ QueueOnes' = QueueOnes \cup MsgOnes
    BY <2>1, <2>2, <2>4, Queued DEF QueueOnes, MsgOnes
  <2>6. /\ FreeOnes' = FreeOnes /\ SlotOnes' = SlotOnes
        /\ HoldOnes' = HoldOnes /\ MsgOnes' = {}
        /\ Distinct(free') /\ OwnsAlone(slot')
    BY <2>2, <2>3
       DEF FreeOnes, SlotOnes, HoldOnes, MsgOnes, LeaseInv, Distinct, OwnsAlone
  <2> QED  BY <2>5, <2>6 DEF LeaseInv, Partition
<1>5. CASE LeasedCall
  <2>1. /\ UNCHANGED <<queue, slot, free>> /\ lease # None /\ lease' = None
        /\ cb'.hold = lease /\ cb.hold = None
    BY <1>0, <1>5 DEF LeasedCall, LeasedTurn, At, CallbackInv, CbType
  <2>2. /\ FreeOnes' = FreeOnes /\ SlotOnes' = SlotOnes
        /\ QueueOnes' = QueueOnes
        /\ HoldOnes' = MsgOnes /\ MsgOnes' = {} /\ HoldOnes = {}
        /\ Distinct(free') /\ OwnsAlone(slot') /\ OwnsAlone(queue')
    BY <2>1 DEF FreeOnes, SlotOnes, QueueOnes, HoldOnes, MsgOnes, LeaseInv,
                Distinct, OwnsAlone
  <2> QED  BY <2>2 DEF LeaseInv, Partition
<1>6. CASE LeasedReturns
  <2>1. /\ UNCHANGED <<queue, slot, lease>> /\ cb'.hold = None
        /\ free' = Returned(cb.hold) /\ cb.hold \in Buffers \cup {None}
    BY <1>0, <1>6 DEF LeasedReturns, CbType
  <2>2. cb.hold \notin FreeOnes
    <3>1. None \notin FreeOnes
      BY <1>0 DEF TypeOK, FreeOnes, Ex!InSeq
    <3> QED  BY <3>1 DEF LeaseInv, Partition, HoldOnes
  <2>3. Distinct(free') /\ FreeOnes' = FreeOnes \cup HoldOnes
    BY <2>1, <2>2, GivenBack DEF FreeOnes, HoldOnes
  <2>4. /\ SlotOnes' = SlotOnes /\ QueueOnes' = QueueOnes
        /\ HoldOnes' = {} /\ MsgOnes' = MsgOnes
        /\ OwnsAlone(slot') /\ OwnsAlone(queue')
    BY <2>1 DEF SlotOnes, QueueOnes, HoldOnes, MsgOnes, LeaseInv, OwnsAlone
  <2> QED  BY <2>3, <2>4 DEF LeaseInv, Partition
<1>7. CASE \/ Enter \/ Count \/ Configure \/ Test \/ NotAlive \/ Copy
           \/ DeliverInPlace \/ DeliverRefused \/ NoLeased \/ PoolExhausted
           \/ Leave \/ Dangle
  <2>1. UNCHANGED <<free, lease, queue, slot>>
    BY <1>7 DEF Enter, Count, Configure, Test, NotAlive, Copy, DeliverInPlace,
                DeliverRefused, NoLeased, PoolExhausted, Leave, Dangle
  <2>2. cb'.hold = cb.hold
    <3> USE DEF CbType
    <3>1. CASE Leave
      <4>1. cb.hold = None
        BY <3>1 DEF Leave, At, CallbackInv
      <4> QED  BY <3>1, <4>1 DEF Leave, Out
    <3>2. CASE Dangle  BY <3>2 DEF Dangle
    <3>3. CASE \/ Enter \/ Count \/ Configure \/ Test \/ NotAlive
      BY <1>0, <3>3 DEF Enter, Count, Configure, Test, NotAlive
    <3>4. CASE Copy  BY <1>0, <3>4 DEF Copy
    <3>5. CASE \/ DeliverInPlace \/ DeliverRefused \/ NoLeased \/ PoolExhausted
      BY <1>0, <3>5 DEF DeliverInPlace, DeliverRefused, NoLeased, PoolExhausted
    <3> QED  BY <1>7, <3>1, <3>2, <3>3, <3>4, <3>5
  <2> QED  BY <2>1, <2>2, LeaseIdle
<1> QED  BY <1>1, <1>2, <1>3, <1>4, <1>5, <1>6, <1>7 DEF Callback

LEMMA BeginLease ==
    ASSUME TypeOK, LeaseInv, NEW s \in Slots, Begin(s)
    PROVE  LeaseInv'
<1> DEFINE k == Head(queue)
<1>0. /\ queue \in Seq(Tasks) /\ queue # <<>> /\ slot[s] = NoTask
      /\ slot \in [Slots -> Tasks \cup {NoTask}]
      /\ queue' = Tail(queue) /\ slot' = [slot EXCEPT ![s] = Head(queue)]
      /\ UNCHANGED <<free, lease, cb>>
  BY DEF Begin, Ex!Begin, ExecutorUnchanged, TypeOK
<1>1. /\ k \in Tasks /\ k = queue[1] /\ 1 \in DOMAIN queue
      /\ \A i \in DOMAIN queue' :
            i \in Nat /\ i + 1 \in DOMAIN queue /\ queue'[i] = queue[i + 1]
      /\ Ex!InSeq(queue) = Ex!InSeq(queue') \cup {k}
      /\ DOMAIN queue \subseteq Nat \ {0}
  <2>1. DOMAIN queue \subseteq Nat \ {0}
    BY <1>0
  <2> QED  BY <1>0, <2>1, Beheaded
<1>2. OwnsAlone(queue')
  <2> SUFFICES ASSUME NEW i \in DOMAIN queue', NEW j \in DOMAIN queue',
                      queue'[i].buf # None, queue'[i].buf = queue'[j].buf
               PROVE  i = j
    BY DEF OwnsAlone
  <2>1. i + 1 = j + 1
    BY <1>1 DEF LeaseInv, OwnsAlone
  <2> QED  BY <1>1, <2>1
<1>3. QueueOnes = QueueOnes' \cup ({k.buf} \ {None})
  <2>1. QueueOnes' = LeasesIn(Ex!InSeq(queue'))
    BY DEF QueueOnes, LeasesIn, Ex!InSeq
  <2> QED  BY <1>1, <2>1 DEF QueueOnes, LeasesIn
<1>4. k.buf \notin QueueOnes'
  <2> SUFFICES ASSUME NEW i \in DOMAIN queue', queue'[i].buf = k.buf,
                      k.buf # None
               PROVE  FALSE
    BY DEF QueueOnes, LeasesIn, Ex!InSeq
  <2>1. 1 = i + 1
    BY <1>1 DEF LeaseInv, OwnsAlone
  <2>2. i \in Nat \ {0}
    <3>1. queue' \in Seq(Tasks)
      BY <1>0
    <3> QED  BY <3>1
  <2> QED  BY <2>1, <2>2
<1> HIDE DEF k
<1>5. /\ slot'[s] = k
      /\ \A t \in Slots : t # s => slot'[t] = slot[t]
      /\ DOMAIN slot' = Slots /\ DOMAIN slot = Slots
  BY <1>0 DEF k
<1>6. slot[s].buf = None
  BY <1>0 DEF NoTask
<1>7. SlotOnes' = SlotOnes \cup ({k.buf} \ {None})
  BY <1>5, <1>6 DEF SlotOnes, LeasesIn
<1>8. OwnsAlone(slot')
  <2>1. k.buf \notin SlotOnes
    BY <1>3 DEF LeaseInv, Partition, SlotOnes, LeasesIn
  <2>2. \A t \in Slots : slot[t].buf = None \/ slot[t].buf # k.buf
    BY <2>1 DEF SlotOnes, LeasesIn
  <2> QED  BY <1>5, <2>2 DEF LeaseInv, OwnsAlone
<1>9. /\ FreeOnes' = FreeOnes /\ MsgOnes' = MsgOnes /\ HoldOnes' = HoldOnes
      /\ Distinct(free')
  BY <1>0 DEF FreeOnes, MsgOnes, HoldOnes, LeaseInv, Distinct
<1> QED  BY <1>2, <1>3, <1>4, <1>7, <1>8, <1>9 DEF LeaseInv, Partition

LEMMA EndLease ==
    ASSUME TypeOK, LeaseInv, NEW s \in Slots, End(s)
    PROVE  LeaseInv'
<1> DEFINE b == slot[s].buf
<1>0. /\ slot \in [Slots -> Tasks \cup {NoTask}] /\ slot[s] \in Tasks
      /\ slot' = [slot EXCEPT ![s] = NoTask]
      /\ free' = Returned(b) /\ UNCHANGED <<queue, lease, cb>>
      /\ None \notin Buffers
  BY ChannelAssumption DEF End, Ex!End, ExecutorUnchanged, TypeOK
<1>1. b \in Buffers \cup {None} /\ {b} \ {None} \subseteq SlotOnes
  BY <1>0 DEF Tasks, SlotOnes, LeasesIn
<1>2. \A t \in Slots : t # s => slot[t].buf = None \/ slot[t].buf # b
  BY <1>0 DEF LeaseInv, OwnsAlone
<1>3. /\ slot'[s] = NoTask /\ NoTask.buf = None
      /\ \A t \in Slots : t # s => slot'[t] = slot[t]
      /\ DOMAIN slot' = Slots /\ DOMAIN slot = Slots
  BY <1>0 DEF NoTask
<1> HIDE DEF b
<1>4. SlotOnes' = SlotOnes \ {b}
  BY <1>2, <1>3 DEF SlotOnes, LeasesIn, b
<1>5. OwnsAlone(slot')
  BY <1>3 DEF LeaseInv, OwnsAlone
<1>6. b \notin FreeOnes
  <2>1. None \notin FreeOnes
    BY <1>0 DEF TypeOK, FreeOnes, Ex!InSeq
  <2> QED  BY <1>1, <2>1 DEF LeaseInv, Partition
<1>7. Distinct(free') /\ FreeOnes' = FreeOnes \cup ({b} \ {None})
  BY <1>0, <1>1, <1>6, GivenBack DEF FreeOnes
<1>8. /\ QueueOnes' = QueueOnes /\ MsgOnes' = MsgOnes /\ HoldOnes' = HoldOnes
      /\ OwnsAlone(queue') /\ None \notin SlotOnes
  BY <1>0 DEF QueueOnes, MsgOnes, HoldOnes, SlotOnes, LeasesIn, LeaseInv,
              OwnsAlone
<1> QED  BY <1>1, <1>4, <1>5, <1>7, <1>8 DEF LeaseInv, Partition

LEMMA DiscardLease == ASSUME TypeOK, LeaseInv, Discard  PROVE LeaseInv'
<1> DEFINE back == SetToSeq(LeasesIn(Ex!InSeq(queue)))
<1>0. /\ free \in Seq(Buffers) /\ free' = free \o back /\ queue' = <<>>
      /\ UNCHANGED <<slot, lease, cb>>
  BY DEF Discard, Ex!Discard, ExecutorUnchanged, TypeOK
<1>1. back \in Seq(Buffers) /\ Distinct(back) /\ Ex!InSeq(back) = QueueOnes
  BY LeasesAreBuffers DEF QueueOnes
<1> HIDE DEF back
<1>2. Ex!InSeq(free) \cap Ex!InSeq(back) = {}
  BY <1>1 DEF LeaseInv, Partition, FreeOnes
<1>3. Distinct(free') /\ FreeOnes' = FreeOnes \cup QueueOnes
  BY <1>0, <1>1, <1>2, Joined DEF LeaseInv, FreeOnes
<1>4. QueueOnes' = {} /\ OwnsAlone(queue')
  BY <1>0 DEF QueueOnes, LeasesIn, Ex!InSeq, OwnsAlone
<1>5. /\ SlotOnes' = SlotOnes /\ MsgOnes' = MsgOnes /\ HoldOnes' = HoldOnes
      /\ OwnsAlone(slot')
  BY <1>0 DEF SlotOnes, MsgOnes, HoldOnes, LeaseInv, OwnsAlone
<1> QED  BY <1>3, <1>4, <1>5 DEF LeaseInv, Partition

LEMMA ElseLease ==
    ASSUME TypeOK, LeaseInv, Arrive \/ Tasking \/ Owner
    PROVE  LeaseInv'
<1>1. CASE Tasking
  BY <1>1, BeginLease, EndLease, DiscardLease DEF Tasking
<1>2. CASE CleanupDelete
  BY <1>2, LeaseBack DEF CleanupDelete, OwnerUnchanged, exVars
<1>3. CASE UNCHANGED <<free, lease, queue, slot, cb>>
  BY <1>3, LeaseIdle
<1> QED
  BY <1>1, <1>2, <1>3
     DEF Arrive, Owner, Subscribe, Reset, SubscribeLeased, Stop, CleanupFlag,
         CleanupClear, CleanupUnlisten, CleanupWait, OwnerUnchanged, exVars

-----------------------------------------------------------------------------
(* The messages of each handler. *)

LEMMA QueuedFor ==
    ASSUME TypeOK, NEW k \in Tasks, queue' = Append(queue, k), NEW h
    PROVE  QueueFor(h)' = QueueFor(h) \cup (IF h = k.to THEN {k.msg} ELSE {})
<1>1. Ex!InSeq(queue') = Ex!InSeq(queue) \cup {k}
  BY Appended DEF TypeOK
<1>2. QueueFor(h)' = MsgsFor(h, Ex!InSeq(queue'))
  BY DEF QueueFor, MsgsFor, Ex!InSeq
<1> QED  BY <1>1, <1>2 DEF QueueFor, MsgsFor

LEMMA CalledWith ==
    ASSUME TypeOK, NEW x \in All, NEW m \in Msgs,
           got' = [got EXCEPT ![x] = Append(@, m)]
    PROVE  /\ Called(x)' = Called(x) \cup {m}
           /\ \A h \in All \ {x} : Called(h)' = Called(h)
<1>1. got \in [All -> Seq(Msgs)]
  BY DEF TypeOK
<1>2. got'[x] = Append(got[x], m) /\ \A h \in All \ {x} : got'[h] = got[h]
  BY <1>1
<1>3. Ex!InSeq(got'[x]) = Ex!InSeq(got[x]) \cup {m}
  BY <1>1, <1>2, Appended
<1>4. \A h : Called(h)' = Ex!InSeq(got'[h])
  BY DEF Called, Ex!InSeq
<1> QED  BY <1>2, <1>3, <1>4 DEF Called

\* The callback has the sample to give to x, and after the step it has not.
TurnOf(x) ==
    /\ x \in All /\ UNCHANGED <<due, taken>>
    /\ cb'.at \notin {"test", "copy"}
    /\ Pending(x) = {taken} /\ Pending(x)' = {}
    /\ \A h \in All \ {x} : Pending(h)' = Pending(h)

LEMMA HandlerTurn ==
    ASSUME TypeOK, CallbackInv, At("deliver"), cb.todo # <<>>,
           NEW x, x = Head(cb.todo), cb' = [cb EXCEPT !.todo = Tail(@)],
           UNCHANGED <<due, taken>>
    PROVE  TurnOf(x) /\ x \in Handlers /\ taken \in Msgs
<1>0. cb \in CbType /\ cb.todo \in Seq(subscribed) /\ subscribed \subseteq Handlers
  BY DEF TypeOK, CbType
<1>1. /\ x \in subscribed /\ Ex!InSeq(cb.todo) = Ex!InSeq(Tail(cb.todo)) \cup {x}
      /\ x \notin Ex!InSeq(Tail(cb.todo))
  BY <1>0, Beheaded DEF CallbackInv
<1>2. x \in Handlers /\ x # Leased /\ x \in All
  BY <1>0, <1>1, ChannelAssumption DEF All
<1>3. cb'.at = "deliver" /\ cb'.todo = Tail(cb.todo) /\ cb'.leased = cb.leased
  BY <1>0 DEF CbType, At
<1>4. \A h : Pending(h)' = IF h \in Ex!InSeq(Tail(cb.todo))
                              \/ (h = Leased /\ cb.leased # None)
                           THEN {taken} ELSE {}
  BY <1>3 DEF Pending, Ex!InSeq
<1>5. taken \in Msgs
  BY <1>2, CalledType DEF CallbackInv, At
<1> QED  BY <1>1, <1>2, <1>3, <1>4, <1>5 DEF TurnOf, Pending

LEMMA LeasedTurnEnds ==
    ASSUME TypeOK, CallbackInv, LeasedTurn, cb.leased # None,
           cb'.todo = <<>>, cb'.leased = None, cb'.at \in {"take", "leased"},
           UNCHANGED <<due, taken>>
    PROVE  TurnOf(Leased) /\ taken \in Msgs
<1>1. Ex!InSeq(cb.todo) = {} /\ cb.at = "deliver"
  BY DEF LeasedTurn, At, Ex!InSeq
<1>2. \A h : Pending(h)' = {}
  BY DEF Pending, Ex!InSeq
<1>3. Pending(Leased) = {taken} /\ \A h \in All \ {Leased} : Pending(h) = {}
  BY <1>1 DEF Pending
<1>4. Leased \in All
  BY DEF All
<1>5. taken \in Msgs
  BY <1>1, <1>4, CalledType DEF CallbackInv
<1> QED  BY <1>2, <1>3, <1>4, <1>5 DEF TurnOf

LEMMA TurnKeepsShares ==
    ASSUME ShareInv, NEW x, TurnOf(x),
           \A h \in All \ {x} : /\ Called(h)' = Called(h)
                                /\ QueueFor(h)' = QueueFor(h)
                                /\ lost'[h] = lost[h],
           \/ /\ Called(x)' = Called(x) \cup {taken}
              /\ QueueFor(x)' = QueueFor(x) /\ lost'[x] = lost[x]
           \/ /\ QueueFor(x)' = QueueFor(x) \cup {taken}
              /\ Called(x)' = Called(x) /\ lost'[x] = lost[x]
           \/ /\ lost'[x] = lost[x] \cup {taken}
              /\ Called(x)' = Called(x) /\ QueueFor(x)' = QueueFor(x)
    PROVE  ShareInv'
<1> SUFFICES ASSUME NEW h \in All
             PROVE  /\ Divided(due'[h], Called(h)', QueueFor(h)', lost'[h],
                               Pending(h)')
                    /\ \A m \in due'[h] : m <= taken'
                    /\ cb'.at \in {"test", "copy"} => taken' \notin due'[h]
  BY DEF ShareInv, Divided
<1>0. UNCHANGED <<due, taken>> /\ cb'.at \notin {"test", "copy"}
  BY DEF TurnOf
<1>1. Divided(due[h], Called(h), QueueFor(h), lost[h], Pending(h))
      /\ \A m \in due[h] : m <= taken
  BY DEF ShareInv
<1>2. CASE h = x
  <2>1. Pending(h) = {taken} /\ Pending(h)' = {}
    BY <1>2 DEF TurnOf
  <2>2. Divided(due[h], Called(h)', QueueFor(h)', lost'[h], {})
    BY <1>1, <1>2, <2>1 DEF Divided
  <2> QED  BY <1>0, <1>1, <2>1, <2>2
<1>3. CASE h # x
  BY <1>0, <1>1, <1>3 DEF TurnOf
<1> QED  BY <1>2, <1>3

\* A closure of the queue that is to be called with taken comes after the
\* others for its handler, and after the calls.
LEMMA TurnKeepsOrder ==
    ASSUME TypeOK, ShareInv, OrderInv, NEW x, TurnOf(x), taken \in Msgs,
           \/ /\ got' = [got EXCEPT ![x] = Append(@, taken)]
              /\ UNCHANGED queue /\ x \notin Posted
           \/ /\ UNCHANGED got
              /\ \E k \in Tasks : /\ k.to = x /\ k.msg = taken
                                  /\ queue' = Append(queue, k)
    PROVE  OrderInv'
<1>0. /\ got \in [All -> Seq(Msgs)] /\ queue \in Seq(Tasks) /\ x \in All
      /\ Msgs \subseteq Nat /\ taken \in Nat
      /\ \A i \in DOMAIN queue : queue[i] \in Tasks /\ queue[i].msg \in Nat
  <2>1. \A k \in Tasks : k.msg \in Msgs
    BY DEF Tasks
  <2>2. /\ got \in [All -> Seq(Msgs)] /\ queue \in Seq(Tasks) /\ x \in All
    BY DEF TypeOK, TurnOf
  <2>3. \A i \in DOMAIN queue : queue[i] \in Tasks
    BY <2>2
  <2> QED  BY <2>1, <2>2, <2>3, MessagesAreNumbers
<1>1. /\ \A m \in Called(x) : m \in Nat /\ m < taken
      /\ \A m \in QueueFor(x) : m \in Nat /\ m < taken
  <2>1. taken \notin Called(x) /\ taken \notin QueueFor(x)
    <3>1. Pending(x) = {taken}
      BY DEF TurnOf
    <3>2. Divided(due[x], Called(x), QueueFor(x), lost[x], Pending(x))
      BY <1>0 DEF ShareInv
    <3> QED  BY <3>1, <3>2 DEF Divided
  <2>2. Called(x) \subseteq Nat /\ QueueFor(x) \subseteq Nat
    <3>1. \A i \in DOMAIN got[x] : got[x][i] \in Nat
      <4>1. got[x] \in Seq(Msgs)
        BY <1>0
      <4>2. \A i \in DOMAIN got[x] : got[x][i] \in Msgs
        BY <4>1
      <4> QED  BY <1>0, <4>2
    <3>2. Called(x) \subseteq Nat
      BY <3>1 DEF Called, Ex!InSeq
    <3>3. QueueFor(x) \subseteq Nat
      BY <1>0 DEF QueueFor, MsgsFor, Ex!InSeq
    <3> QED  BY <3>2, <3>3
  <2>3. \A m \in Called(x) \cup QueueFor(x) : m <= taken
    BY <1>0 DEF ShareInv, Divided
  <2> QED  BY <1>0, <2>1, <2>2, <2>3
<1>2. CASE /\ got' = [got EXCEPT ![x] = Append(@, taken)]
           /\ UNCHANGED queue /\ x \notin Posted
  <2>1. got'[x] = Append(got[x], taken) /\ \A h \in All \ {x} : got'[h] = got[h]
    BY <1>0, <1>2
  <2>2. /\ DOMAIN got'[x] = DOMAIN got[x] \cup {Len(got[x]) + 1}
        /\ DOMAIN got[x] = 1..Len(got[x]) /\ Len(got[x]) \in Nat
        /\ \A i \in DOMAIN got[x] : got'[x][i] = got[x][i]
        /\ got'[x][Len(got[x]) + 1] = taken
    BY <1>0, <2>1, Appended
  <2>3. \A i \in DOMAIN got[x] : got[x][i] < taken /\ got[x][i] \in Nat
    BY <1>1 DEF Called, Ex!InSeq
  <2>4. Distinct(got'[x])
    BY <1>0, <2>2, <2>3 DEF OrderInv, Distinct
  <2>5. Increasing(got[x]) => Increasing(got'[x])
    BY <1>0, <2>2, <2>3 DEF Increasing
  <2>6. \A h : Called(h)' = Ex!InSeq(got'[h])
    BY DEF Called, Ex!InSeq
  <2>7. \A h \in All \ {x} : Called(h)' = Called(h)
    BY <2>1, <2>6 DEF Called
  <2>8. x \in Handlers => \A i \in DOMAIN queue : queue[i].to # x
    BY <1>0, <1>2, ChannelAssumption DEF Tasks
  <2>9. \A h \in All : Distinct(got'[h])
    BY <2>1, <2>4 DEF OrderInv
  <2>10. \A h \in Handlers :
           /\ Increasing(got'[h])
           /\ \A m \in Called(h)', i \in DOMAIN queue :
                 queue[i].to = h => m < queue[i].msg
    <3> SUFFICES ASSUME NEW h \in Handlers
                 PROVE  /\ Increasing(got'[h])
                        /\ \A m \in Called(h)', i \in DOMAIN queue :
                              queue[i].to = h => m < queue[i].msg
      OBVIOUS
    <3>1. CASE h = x
      BY <2>5, <2>8, <3>1 DEF OrderInv
    <3>2. CASE h # x
      BY <2>1, <2>7, <3>2 DEF OrderInv, All
    <3> QED  BY <3>1, <3>2
  <2> QED  BY <1>2, <2>9, <2>10 DEF OrderInv, Distinct, Increasing
<1>3. ASSUME UNCHANGED got, NEW k \in Tasks, k.to = x, k.msg = taken,
             queue' = Append(queue, k)
      PROVE  OrderInv'
  <2>1. /\ DOMAIN queue' = DOMAIN queue \cup {Len(queue) + 1}
        /\ DOMAIN queue = 1..Len(queue) /\ Len(queue) \in Nat
        /\ \A i \in DOMAIN queue : queue'[i] = queue[i]
        /\ queue'[Len(queue) + 1] = k
    BY <1>0, <1>3, Appended
  <2>2. \A i \in DOMAIN queue : queue[i].to = x => queue[i].msg < taken
    BY <1>1 DEF QueueFor, MsgsFor, Ex!InSeq
  <2>3. \A i, j \in DOMAIN queue' :
           i < j /\ queue'[i].to = queue'[j].to /\ queue'[i].to # Leased
               => queue'[i].msg < queue'[j].msg
    <3> SUFFICES ASSUME NEW i \in DOMAIN queue', NEW j \in DOMAIN queue', i < j,
                        queue'[i].to = queue'[j].to, queue'[i].to # Leased
                 PROVE  queue'[i].msg < queue'[j].msg
      OBVIOUS
    <3>1. i \in DOMAIN queue
      BY <2>1
    <3>2. CASE j \in DOMAIN queue
      BY <2>1, <3>1, <3>2 DEF OrderInv
    <3>3. CASE j = Len(queue) + 1
      BY <1>3, <2>1, <2>2, <3>1, <3>3
    <3> QED  BY <2>1, <3>2, <3>3
  <2>4. \A i, j \in DOMAIN queue' :
           i # j /\ queue'[i].to = queue'[j].to
               => queue'[i].msg # queue'[j].msg
    <3> SUFFICES ASSUME NEW i \in DOMAIN queue', NEW j \in DOMAIN queue', i # j,
                        queue'[i].to = queue'[j].to
                 PROVE  queue'[i].msg # queue'[j].msg
      OBVIOUS
    <3>1. CASE i \in DOMAIN queue /\ j \in DOMAIN queue
      BY <2>1, <3>1 DEF OrderInv
    <3>2. CASE i = Len(queue) + 1
      <4>1. j \in DOMAIN queue /\ queue'[j] = queue[j] /\ queue'[i] = k
        BY <2>1, <3>2
      <4> QED  BY <1>0, <1>3, <2>2, <4>1
    <3>3. CASE j = Len(queue) + 1
      <4>1. i \in DOMAIN queue /\ queue'[i] = queue[i] /\ queue'[j] = k
        BY <2>1, <3>3
      <4> QED  BY <1>0, <1>3, <2>2, <4>1
    <3> QED  BY <2>1, <3>1, <3>2, <3>3
  <2>5. \A h \in Handlers : \A m \in Called(h), i \in DOMAIN queue' :
           queue'[i].to = h => m < queue'[i].msg
    <3> SUFFICES ASSUME NEW h \in Handlers, NEW m \in Called(h),
                        NEW i \in DOMAIN queue', queue'[i].to = h
                 PROVE  m < queue'[i].msg
      OBVIOUS
    <3>1. CASE i \in DOMAIN queue
      BY <2>1, <3>1 DEF OrderInv
    <3>2. CASE i = Len(queue) + 1
      BY <1>1, <1>3, <2>1, <3>2
    <3> QED  BY <2>1, <3>1, <3>2
  <2>6. \A h : Called(h)' = Called(h)
    BY <1>3 DEF Called
  <2> QED  BY <1>3, <2>3, <2>4, <2>5, <2>6 DEF OrderInv, Distinct, Increasing
<1> QED  BY <1>2, <1>3

\* Steps that change no message's place.
SharesIdle ==
    /\ UNCHANGED <<due, got, lost, queue, taken>>
    /\ \A h \in All : Pending(h)' = Pending(h)
    /\ cb'.at \in {"test", "copy"} => cb.at \in {"test", "copy"}

LEMMA IdleKeeps ==
    ASSUME ShareInv, OrderInv, SharesIdle
    PROVE  ShareInv' /\ OrderInv'
<1>1. \A h : Called(h)' = Called(h) /\ QueueFor(h)' = QueueFor(h)
  BY DEF SharesIdle, Called, QueueFor
<1>2. ShareInv'
  BY <1>1 DEF ShareInv, SharesIdle, Divided
<1>3. OrderInv'
  BY <1>1 DEF OrderInv, SharesIdle, Distinct, Increasing
<1> QED  BY <1>2, <1>3

LEMMA NothingPending ==
    ASSUME TypeOK, CallbackInv, cb.at # "deliver"
    PROVE  \A h : Pending(h) = {}
  BY DEF CallbackInv, Pending, Ex!InSeq

LEMMA CallbackShares ==
    ASSUME TypeOK, CallbackInv, ShareInv, OrderInv, Callback
    PROVE  ShareInv' /\ OrderInv'
<1> USE DEF CallbackUnchanged, exVars
<1>0. cb \in CbType /\ taken \in Nat
  BY ChannelAssumption DEF TypeOK, CbType
<1>1. CASE \/ Enter \/ Count \/ Configure \/ Test \/ NotAlive \/ LeasedReturns
           \/ Leave \/ Dangle \/ NoLeased
  <2>1. UNCHANGED <<due, got, lost, queue, taken>>
    BY <1>1 DEF Enter, Count, Configure, Test, NotAlive, LeasedReturns, Leave,
                Dangle, NoLeased
  <2>2. cb'.todo = cb.todo /\ cb'.leased = cb.leased
    <3>1. CASE Leave
      BY <3>1 DEF Leave, At, Out, CallbackInv
    <3>2. CASE ~Leave
      BY <1>0, <1>1, <3>2
         DEF Enter, Count, Configure, Test, NotAlive, LeasedReturns, Dangle,
             NoLeased, CbType
    <3> QED  BY <3>1, <3>2
  <2>3. cb'.at \in {"test", "copy"} => cb.at \in {"test", "copy"}
    <3>1. CASE Dangle
      BY <3>1 DEF Dangle
    <3>2. CASE Test
      BY <3>2 DEF Test, At
    <3>3. CASE Leave
      BY <3>3 DEF Leave, Out
    <3>4. CASE \/ Enter \/ Count \/ Configure \/ NotAlive \/ LeasedReturns
               \/ NoLeased
      <4>1. cb'.at \in {"count", "configure", "take"}
        BY <1>0, <3>4 DEF Enter, Count, Configure, NotAlive, LeasedReturns,
                          NoLeased, CbType
      <4> QED  BY <4>1
    <3> QED  BY <1>1, <3>1, <3>2, <3>3, <3>4
  <2>4. \A h \in All : Pending(h)' = Pending(h)
    BY <2>1, <2>2 DEF Pending
  <2>5. SharesIdle
    BY <2>1, <2>3, <2>4 DEF SharesIdle
  <2> QED  BY <2>5, IdleKeeps
<1>2. CASE Take
  <2>1. /\ UNCHANGED <<due, got, lost, queue>> /\ taken' = taken + 1
        /\ cb.at = "take" /\ cb'.todo = cb.todo /\ cb'.leased = cb.leased
    BY <1>0, <1>2 DEF Take, At, CbType
  <2>2. \A h : Pending(h) = {} /\ Pending(h)' = {}
    BY <2>1, NothingPending DEF CallbackInv, Pending, Ex!InSeq
  <2>3. \A h : Called(h)' = Called(h) /\ QueueFor(h)' = QueueFor(h)
    BY <2>1 DEF Called, QueueFor
  <2>4. \A h \in All : due[h] \subseteq Nat
    BY MessagesAreNumbers DEF TypeOK
  <2>5. ShareInv'
    <3> SUFFICES ASSUME NEW h \in All
                 PROVE  /\ Divided(due'[h], Called(h)', QueueFor(h)', lost'[h],
                                   Pending(h)')
                        /\ \A m \in due'[h] : m <= taken'
                        /\ taken' \notin due'[h]
      BY DEF ShareInv, Divided
    <3>1. Divided(due[h], Called(h), QueueFor(h), lost[h], Pending(h))
          /\ \A m \in due[h] : m <= taken /\ m \in Nat
      BY <2>4 DEF ShareInv
    <3>2. Divided(due'[h], Called(h)', QueueFor(h)', lost'[h], Pending(h)')
      BY <2>1, <2>2, <2>3, <3>1
    <3>3. \A m \in due'[h] : m < taken'
      BY <1>0, <2>1, <3>1
    <3> QED  BY <1>0, <2>1, <3>1, <3>2, <3>3
  <2>6. OrderInv'
    BY <2>1, <2>3 DEF OrderInv, Distinct, Increasing
  <2> QED  BY <2>5, <2>6
<1>3. CASE Copy
  <2> DEFINE to == IF cb.want THEN leased ELSE None
  <2>1. /\ UNCHANGED <<got, lost, queue, taken>> /\ cb.at = "copy"
        /\ cb'.at = "deliver" /\ cb'.todo = handlers /\ cb'.leased = to
        /\ due' = [h \in All |->
                     IF h \in Ex!InSeq(handlers) \/ (h = Leased /\ to # None)
                     THEN due[h] \cup {taken} ELSE due[h]]
    BY <1>0, <1>3 DEF Copy, At, CbType
  <2> HIDE DEF to
  <2>2. \A h : Pending(h) = {}
    BY <2>1, NothingPending
  <2>3. \A h : Pending(h)' =
                 IF h \in Ex!InSeq(handlers) \/ (h = Leased /\ to # None)
                 THEN {taken} ELSE {}
    BY <2>1 DEF Pending, Ex!InSeq
  <2>4. \A h : Called(h)' = Called(h) /\ QueueFor(h)' = QueueFor(h)
    BY <2>1 DEF Called, QueueFor
  <2>5. ShareInv'
    <3> SUFFICES ASSUME NEW h \in All
                 PROVE  /\ Divided(due'[h], Called(h)', QueueFor(h)', lost'[h],
                                   Pending(h)')
                        /\ \A m \in due'[h] : m <= taken'
                        /\ cb'.at \in {"test", "copy"} => taken' \notin due'[h]
      BY DEF ShareInv, Divided
    <3>1. Divided(due[h], Called(h), QueueFor(h), lost[h], {})
          /\ (\A m \in due[h] : m <= taken) /\ taken \notin due[h]
      BY <2>1, <2>2 DEF ShareInv
    <3>2. due'[h] = due[h] \cup Pending(h)'
      BY <2>1, <2>3
    <3>3. Pending(h)' \subseteq {taken}
      BY <2>3
    <3>4. Divided(due'[h], Called(h), QueueFor(h), lost[h], Pending(h)')
      BY <3>1, <3>2, <3>3 DEF Divided
    <3>5. \A m \in due'[h] : m <= taken'
      BY <1>0, <2>1, <3>1, <3>2, <3>3
    <3> QED  BY <2>1, <2>4, <3>4, <3>5
  <2>6. OrderInv'
    BY <2>1, <2>4 DEF OrderInv, Distinct, Increasing
  <2> QED  BY <2>5, <2>6
<1>4. CASE DeliverInPlace
  <2>1. PICK x : x = Head(cb.todo)
    OBVIOUS
  <2>2. TurnOf(x) /\ x \in Handlers /\ taken \in Msgs
    BY <1>4, <2>1, HandlerTurn DEF DeliverInPlace
  <2>3. /\ got' = [got EXCEPT ![x] = Append(@, taken)] /\ x \notin Posted
        /\ UNCHANGED <<queue, lost>>
    BY <1>4, <2>1 DEF DeliverInPlace, Call
  <2>4. /\ Called(x)' = Called(x) \cup {taken}
        /\ \A h \in All \ {x} : Called(h)' = Called(h)
    BY <2>2, <2>3, CalledWith DEF All
  <2>5. \A h : QueueFor(h)' = QueueFor(h)
    BY <2>3 DEF QueueFor
  <2>6. ShareInv'
    BY <2>2, <2>3, <2>4, <2>5, TurnKeepsShares
  <2>7. OrderInv'
    BY <2>2, <2>3, TurnKeepsOrder
  <2> QED  BY <2>6, <2>7
<1>5. CASE DeliverPost
  <2>1. PICK x : x = Head(cb.todo)
    OBVIOUS
  <2>2. TurnOf(x) /\ x \in Handlers /\ taken \in Msgs
    BY <1>5, <2>1, HandlerTurn DEF DeliverPost
  <2>3. PICK k : k = [to |-> x, msg |-> taken, buf |-> None]
    OBVIOUS
  <2>4. k \in Tasks /\ k.to = x /\ k.msg = taken
    BY <1>5, <2>1, <2>2, <2>3 DEF DeliverPost, Tasks
  <2>5. queue' = Append(queue, k) /\ UNCHANGED <<got, lost>>
    BY <1>5, <2>1, <2>3 DEF DeliverPost, Ex!Submit
  <2>6. \A h : QueueFor(h)' = QueueFor(h) \cup (IF h = x THEN {taken} ELSE {})
    BY <2>4, <2>5, QueuedFor
  <2>7. \A h : Called(h)' = Called(h)
    BY <2>5 DEF Called
  <2>8. ShareInv'
    BY <2>2, <2>5, <2>6, <2>7, TurnKeepsShares
  <2>9. OrderInv'
    BY <2>2, <2>4, <2>5, TurnKeepsOrder
  <2> QED  BY <2>8, <2>9
<1>6. CASE DeliverRefused
  <2>1. PICK x : x = Head(cb.todo)
    OBVIOUS
  <2>2. TurnOf(x) /\ x \in Handlers /\ taken \in Msgs
    BY <1>6, <2>1, HandlerTurn DEF DeliverRefused
  <2>3. /\ UNCHANGED <<queue, got>> /\ lost' = Add(lost, x)
        /\ lost \in [All -> SUBSET Msgs] /\ x \in All
    BY <1>6, <2>1, <2>2 DEF DeliverRefused, TypeOK, TurnOf
  <2>4. /\ lost'[x] = lost[x] \cup {taken}
        /\ \A h \in All \ {x} : lost'[h] = lost[h]
    BY <2>3 DEF Add
  <2>5. \A h : QueueFor(h)' = QueueFor(h) /\ Called(h)' = Called(h)
    BY <2>3 DEF QueueFor, Called
  <2>6. ShareInv'
    BY <2>2, <2>4, <2>5, TurnKeepsShares
  <2>7. OrderInv'
    BY <2>3, <2>5 DEF OrderInv, Distinct, Increasing
  <2> QED  BY <2>6, <2>7
<1>7. CASE PoolExhausted \/ LeasedRefused
  <2>1. /\ LeasedTurn /\ cb.leased # None /\ UNCHANGED <<due, taken, queue, got>>
        /\ lost' = Add(lost, Leased) /\ cb'.at = "take"
        /\ cb'.todo = <<>> /\ cb'.leased = None
    BY <1>0, <1>7, ChannelAssumption
       DEF PoolExhausted, LeasedRefused, LeasedTurn, CbType
  <2>2. TurnOf(Leased) /\ taken \in Msgs
    BY <2>1, LeasedTurnEnds
  <2>3. lost \in [All -> SUBSET Msgs] /\ Leased \in All
    BY DEF TypeOK, All
  <2>4. /\ lost'[Leased] = lost[Leased] \cup {taken}
        /\ \A h \in All \ {Leased} : lost'[h] = lost[h]
    BY <2>1, <2>3 DEF Add
  <2>5. \A h : QueueFor(h)' = QueueFor(h) /\ Called(h)' = Called(h)
    BY <2>1 DEF QueueFor, Called
  <2>6. ShareInv'
    BY <2>2, <2>4, <2>5, TurnKeepsShares
  <2>7. OrderInv'
    BY <2>1, <2>5 DEF OrderInv, Distinct, Increasing
  <2> QED  BY <2>6, <2>7
<1>8. CASE LeasedPost
  <2>1. /\ LeasedTurn /\ cb.leased # None /\ UNCHANGED <<due, taken, got, lost>>
        /\ cb'.at = "take" /\ cb'.todo = <<>> /\ cb'.leased = None
    BY <1>0, <1>8, ChannelAssumption DEF LeasedPost, LeasedTurn, CbType
  <2>2. TurnOf(Leased) /\ taken \in Msgs
    BY <2>1, LeasedTurnEnds
  <2>3. PICK k : k = [to |-> Leased, msg |-> taken, buf |-> lease]
    OBVIOUS
  <2>4. k \in Tasks /\ k.to = Leased /\ k.msg = taken
    BY <2>2, <2>3 DEF Tasks, TypeOK
  <2>5. queue' = Append(queue, k)
    BY <1>8, <2>3 DEF LeasedPost, Ex!Submit
  <2>6. \A h : QueueFor(h)'
                  = QueueFor(h) \cup (IF h = Leased THEN {taken} ELSE {})
    BY <2>4, <2>5, QueuedFor
  <2>7. \A h : Called(h)' = Called(h)
    BY <2>1 DEF Called
  <2>8. ShareInv'
    BY <2>1, <2>2, <2>6, <2>7, TurnKeepsShares
  <2>9. OrderInv'
    BY <2>1, <2>2, <2>4, <2>5, TurnKeepsOrder
  <2> QED  BY <2>8, <2>9
<1>9. CASE LeasedCall
  <2>1. /\ LeasedTurn /\ cb.leased # None
        /\ UNCHANGED <<due, taken, queue, lost>>
        /\ got' = [got EXCEPT ![Leased] = Append(@, taken)]
        /\ cb'.at = "leased" /\ cb'.todo = <<>> /\ cb'.leased = None
    BY <1>0, <1>9, ChannelAssumption DEF LeasedCall, Call, LeasedTurn, CbType
  <2>2. TurnOf(Leased) /\ taken \in Msgs
    BY <2>1, LeasedTurnEnds
  <2>3. /\ Called(Leased)' = Called(Leased) \cup {taken}
        /\ \A h \in All \ {Leased} : Called(h)' = Called(h)
    BY <2>1, <2>2, CalledWith DEF All
  <2>4. \A h : QueueFor(h)' = QueueFor(h)
    BY <2>1 DEF QueueFor
  <2>5. ShareInv'
    BY <2>1, <2>2, <2>3, <2>4, TurnKeepsShares
  <2>6. Leased \notin Posted
    BY ChannelAssumption
  <2>7. OrderInv'
    BY <2>1, <2>2, <2>6, TurnKeepsOrder
  <2> QED  BY <2>5, <2>7
<1> QED
  BY <1>1, <1>2, <1>3, <1>4, <1>5, <1>6, <1>7, <1>8, <1>9 DEF Callback

\* The oldest closure starts: its message moves from the queue to the calls.
LEMMA BeginShares ==
    ASSUME TypeOK, ShareInv, OrderInv, NEW s \in Slots, Begin(s)
    PROVE  ShareInv' /\ OrderInv'
<1>0. /\ queue \in Seq(Tasks) /\ queue # <<>> /\ queue' = Tail(queue)
      /\ got \in [All -> Seq(Msgs)]
      /\ got' = [got EXCEPT ![Head(queue).to] = Append(@, Head(queue).msg)]
      /\ UNCHANGED <<due, lost, taken, cb>>
  BY DEF Begin, Ex!Begin, ExecutorUnchanged, TypeOK
<1>1. PICK k : k = Head(queue)
  OBVIOUS
<1>2. /\ k \in Tasks /\ k = queue[1] /\ 1 \in DOMAIN queue
      /\ \A i \in DOMAIN queue' :
            i \in Nat /\ i + 1 \in DOMAIN queue /\ queue'[i] = queue[i + 1]
      /\ Ex!InSeq(queue) = Ex!InSeq(queue') \cup {k}
  BY <1>0, <1>1, Beheaded
<1>3. PICK x, m : x = k.to /\ m = k.msg
  OBVIOUS
<1>4. /\ x \in All /\ m \in Msgs
      /\ got' = [got EXCEPT ![x] = Append(@, m)]
      /\ x \in Handlers \/ x = Leased
  BY <1>0, <1>1, <1>2, <1>3, ChannelAssumption DEF Tasks, All
<1>5. /\ Called(x)' = Called(x) \cup {m}
      /\ \A h \in All \ {x} : Called(h)' = Called(h)
  BY <1>4, CalledWith
<1>6. \A h : QueueFor(h)' = MsgsFor(h, Ex!InSeq(queue'))
  BY DEF QueueFor, MsgsFor, Ex!InSeq
<1>7. \A h : QueueFor(h) = QueueFor(h)' \cup (IF h = x THEN {m} ELSE {})
  BY <1>2, <1>3, <1>6 DEF QueueFor, MsgsFor
<1>8. m \notin QueueFor(x)'
  <2> SUFFICES ASSUME NEW i \in DOMAIN queue', queue'[i].to = x,
                      queue'[i].msg = m
               PROVE  FALSE
    BY <1>6 DEF MsgsFor, Ex!InSeq
  <2>1. i \in Nat \ {0}
    <3>1. queue' \in Seq(Tasks)
      BY <1>0
    <3> QED  BY <3>1
  <2>2. i + 1 # 1 /\ i + 1 \in DOMAIN queue /\ queue'[i] = queue[i + 1]
    BY <1>2, <2>1
  <2> QED  BY <1>2, <1>3, <2>2 DEF OrderInv
<1>9. \A h : Pending(h)' = Pending(h)
  BY <1>0 DEF Pending
<1>10. ShareInv'
  <2> SUFFICES ASSUME NEW h \in All
               PROVE  /\ Divided(due'[h], Called(h)', QueueFor(h)', lost'[h],
                                 Pending(h)')
                      /\ \A d \in due'[h] : d <= taken'
                      /\ cb'.at \in {"test", "copy"} => taken' \notin due'[h]
    BY DEF ShareInv, Divided
  <2>1. /\ Divided(due[h], Called(h), QueueFor(h), lost[h], Pending(h))
        /\ \A d \in due[h] : d <= taken
        /\ cb.at \in {"test", "copy"} => taken \notin due[h]
    BY DEF ShareInv
  <2>2. Divided(due[h], Called(h)', QueueFor(h)', lost[h], Pending(h))
    <3>1. CASE h = x
      BY <1>5, <1>7, <1>8, <2>1, <3>1 DEF Divided
    <3>2. CASE h # x
      BY <1>5, <1>7, <2>1, <3>2
    <3> QED  BY <3>1, <3>2
  <2> QED  BY <1>0, <1>9, <2>1, <2>2
<1>11. \A i, j \in DOMAIN queue' :
          /\ i # j /\ queue'[i].to = queue'[j].to
                => queue'[i].msg # queue'[j].msg
          /\ i < j /\ queue'[i].to = queue'[j].to /\ queue'[i].to # Leased
                => queue'[i].msg < queue'[j].msg
  <2> SUFFICES ASSUME NEW i \in DOMAIN queue', NEW j \in DOMAIN queue'
               PROVE  /\ i # j /\ queue'[i].to = queue'[j].to
                            => queue'[i].msg # queue'[j].msg
                      /\ i < j /\ queue'[i].to = queue'[j].to
                            /\ queue'[i].to # Leased
                            => queue'[i].msg < queue'[j].msg
    OBVIOUS
  <2>1. /\ i \in Nat /\ i + 1 \in DOMAIN queue /\ queue'[i] = queue[i + 1]
        /\ j \in Nat /\ j + 1 \in DOMAIN queue /\ queue'[j] = queue[j + 1]
    BY <1>2
  <2>2. (i # j => i + 1 # j + 1) /\ (i < j => i + 1 < j + 1)
    BY <2>1
  <2> QED  BY <2>1, <2>2 DEF OrderInv
<1>12. /\ got'[x] = Append(got[x], m) /\ \A h \in All \ {x} : got'[h] = got[h]
       /\ DOMAIN got'[x] = DOMAIN got[x] \cup {Len(got[x]) + 1}
       /\ DOMAIN got[x] = 1..Len(got[x]) /\ Len(got[x]) \in Nat
       /\ \A i \in DOMAIN got[x] : got'[x][i] = got[x][i]
       /\ got'[x][Len(got[x]) + 1] = m
  <2>1. got'[x] = Append(got[x], m) /\ \A h \in All \ {x} : got'[h] = got[h]
    BY <1>0, <1>4
  <2> QED  BY <1>0, <1>4, <2>1, Appended
<1>13. Distinct(got'[x])
  <2>1. m \notin Called(x)
    BY <1>4, <1>7 DEF ShareInv, Divided
  <2>2. Distinct(got[x]) /\ got[x] \in Seq(Msgs)
    BY <1>0, <1>4 DEF OrderInv
  <2> QED  BY <1>4, <1>12, <2>1, <2>2, Appended DEF Called
<1>14. x \in Handlers => Increasing(got'[x])
  <2> SUFFICES ASSUME x \in Handlers  PROVE Increasing(got'[x])
    OBVIOUS
  <2>1. Increasing(got[x]) /\ \A n \in Called(x) : n < m
    BY <1>2, <1>3 DEF OrderInv
  <2>2. \A i \in DOMAIN got[x] : got[x][i] < m
    BY <2>1 DEF Called, Ex!InSeq
  <2> QED  BY <1>12, <2>1, <2>2 DEF Increasing
<1>15. \A h \in Handlers : \A n \in Called(h)', i \in DOMAIN queue' :
          queue'[i].to = h => n < queue'[i].msg
  <2> SUFFICES ASSUME NEW h \in Handlers, NEW n \in Called(h)',
                      NEW i \in DOMAIN queue', queue'[i].to = h
               PROVE  n < queue'[i].msg
    OBVIOUS
  <2>1. i \in Nat /\ i + 1 \in DOMAIN queue /\ queue'[i] = queue[i + 1]
        /\ 1 < i + 1 /\ h # Leased /\ h \in All
    <3>1. queue' \in Seq(Tasks)
      BY <1>0
    <3>2. i \in Nat \ {0}
      BY <3>1
    <3> QED  BY <1>2, <3>2, ChannelAssumption DEF All
  <2>2. CASE n \in Called(h)
    BY <2>1, <2>2 DEF OrderInv
  <2>3. CASE h = x /\ n = m
    BY <1>2, <1>3, <2>1, <2>3 DEF OrderInv
  <2> QED  BY <1>5, <2>1, <2>2, <2>3
<1>16. OrderInv'
  <2>1. \A h \in All : Distinct(got'[h])
    BY <1>12, <1>13 DEF OrderInv
  <2>2. \A h \in Handlers : Increasing(got'[h])
    BY <1>12, <1>14 DEF OrderInv, All
  <2> QED  BY <1>11, <1>15, <2>1, <2>2 DEF OrderInv, Distinct, Increasing
<1> QED  BY <1>10, <1>16

LEMMA DiscardShares ==
    ASSUME TypeOK, ShareInv, OrderInv, Discard
    PROVE  ShareInv' /\ OrderInv'
<1>0. /\ queue' = <<>> /\ UNCHANGED <<due, got, taken, cb>>
      /\ \A h \in All : lost'[h] = lost[h] \cup QueueFor(h)
  BY DEF Discard, Ex!Discard, ExecutorUnchanged, QueueFor
<1>1. \A h : /\ QueueFor(h)' = {} /\ Called(h)' = Called(h)
             /\ Pending(h)' = Pending(h)
  BY <1>0 DEF QueueFor, MsgsFor, Called, Pending, Ex!InSeq
<1>2. ShareInv'
  <2> SUFFICES ASSUME NEW h \in All
               PROVE  /\ Divided(due'[h], Called(h)', QueueFor(h)', lost'[h],
                                 Pending(h)')
                      /\ \A d \in due'[h] : d <= taken'
                      /\ cb'.at \in {"test", "copy"} => taken' \notin due'[h]
    BY DEF ShareInv, Divided
  <2>1. /\ Divided(due[h], Called(h), QueueFor(h), lost[h], Pending(h))
        /\ \A d \in due[h] : d <= taken
        /\ cb.at \in {"test", "copy"} => taken \notin due[h]
    BY DEF ShareInv
  <2>2. Divided(due[h], Called(h), {}, lost'[h], Pending(h))
    BY <1>0, <2>1 DEF Divided
  <2> QED  BY <1>0, <1>1, <2>1, <2>2
<1>3. OrderInv'
  BY <1>0, <1>1 DEF OrderInv, Distinct, Increasing
<1> QED  BY <1>2, <1>3

LEMMA ElseShares ==
    ASSUME TypeOK, ShareInv, OrderInv, Arrive \/ Tasking \/ Owner
    PROVE  ShareInv' /\ OrderInv'
<1>1. CASE \E s \in Slots : Begin(s)
  BY <1>1, BeginShares
<1>2. CASE Discard
  BY <1>2, DiscardShares
<1>3. CASE Arrive \/ Owner \/ \E s \in Slots : End(s)
  <2>1. UNCHANGED <<due, got, lost, queue, taken, cb>>
    BY <1>3 DEF Arrive, Owner, Subscribe, Reset, SubscribeLeased, Stop,
                CleanupFlag, CleanupClear, CleanupUnlisten, CleanupWait,
                CleanupDelete, OwnerUnchanged, exVars, End, Ex!End,
                ExecutorUnchanged
  <2>2. SharesIdle
    BY <2>1 DEF SharesIdle, Pending
  <2> QED  BY <2>2, IdleKeeps
<1> QED  BY <1>1, <1>2, <1>3 DEF Tasking

-----------------------------------------------------------------------------
(* The invariant holds. *)

LEMMA Initially == Init => IInv
<1> SUFFICES ASSUME Init  PROVE IInv
  OBVIOUS
<1>0. /\ free \in Seq(Buffers) /\ Distinct(free) /\ Ex!InSeq(free) = Buffers
      /\ None \notin Buffers /\ MaxMsgs \in Nat
  BY Listed, ChannelAssumption DEF Init
<1>1. TypeOK
  <2>1. /\ subscribed \subseteq Handlers /\ handlers \in Seq(subscribed)
        /\ leased \in Ways /\ renewals \in Nat
        /\ lease \in Buffers \cup {None}
        /\ inflight \in {0, 1}
        /\ listener \in {"set", "unset", "deleted"}
        /\ ctl \in {"open", "clear", "unlisten", "wait", "delete", "gone"}
    BY DEF Init
  <2>a. stopping = FALSE /\ late = FALSE /\ undefined = FALSE
    BY DEF Init
  <2>b. {stopping, late, undefined} \subseteq BOOLEAN
    BY <2>a
  <2>2. arrived \in 0..MaxMsgs /\ taken \in 0..arrived
    BY <1>0 DEF Init
  <2>3. cb \in [at : Places, want : BOOLEAN, todo : Seq(subscribed),
               leased : Ways, hold : Buffers \cup {None}]
    BY DEF Init, Out
  <2>4. queue \in Seq(Tasks) /\ slot \in [Slots -> Tasks \cup {NoTask}]
        /\ finished \cup dropped \subseteq Tasks
    BY DEF Init, Ex!Init
  <2>5. /\ {due, lost} \subseteq [All -> SUBSET Msgs]
        /\ got \in [All -> Seq(Msgs)]
    BY DEF Init
  <2> QED  BY <1>0, <2>1, <2>2, <2>3, <2>4, <2>5, <2>b DEF TypeOK
<1>2. CallbackInv
  BY DEF Init, Out, CallbackInv, Distinct
<1>3. CleanupInv
  BY DEF Init, CleanupInv, Awaited
<1>4. LeaseInv
  <2>1. QueueOnes = {} /\ OwnsAlone(queue)
    BY DEF Init, Ex!Init, QueueOnes, LeasesIn, Ex!InSeq, OwnsAlone
  <2>2. SlotOnes = {} /\ OwnsAlone(slot)
    BY DEF Init, Ex!Init, SlotOnes, LeasesIn, NoTask, OwnsAlone
  <2>3. MsgOnes = {} /\ HoldOnes = {} /\ FreeOnes = Buffers
    BY <1>0 DEF Init, Out, MsgOnes, HoldOnes, FreeOnes
  <2> QED  BY <1>0, <2>1, <2>2, <2>3 DEF LeaseInv, Partition
<1>5. \A h \in All : Called(h) = {} /\ QueueFor(h) = {} /\ Pending(h) = {}
  BY DEF Init, Ex!Init, Out, Called, QueueFor, MsgsFor, Pending, Ex!InSeq
<1>6. ShareInv
  BY <1>5 DEF ShareInv, Divided, Init, Out
<1>7. OrderInv
  BY <1>5 DEF OrderInv, Init, Ex!Init, Distinct, Increasing, All
<1> QED  BY <1>1, <1>2, <1>3, <1>4, <1>6, <1>7 DEF IInv

LEMMA NextKeeps == IInv /\ [Next]_vars => IInv'
<1> SUFFICES ASSUME IInv, [Next]_vars  PROVE IInv'
  OBVIOUS
<1> USE DEF IInv
<1>1. CASE Callback
  BY <1>1, CallbackType, CallbackControl, CallbackLease, CallbackShares
<1>2. CASE Arrive \/ Tasking
  BY <1>2, ArriveType, TaskingType, ElseControl, ElseLease, ElseShares
<1>3. CASE Owner
  BY <1>3, OwnerType, OwnerControl, ElseLease, ElseShares
<1>4. CASE UNCHANGED vars
  <2>1. /\ UNCHANGED <<handlers, leased, subscribed, renewals, stopping,
                       listener, ctl, late, arrived, undefined, free, lease,
                       taken, cb, inflight, queue, slot, finished, dropped,
                       due, got, lost>>
    BY <1>4 DEF vars, otherVars, subVars, tearVars, exVars
  <2>2. TypeOK'
    BY <2>1 DEF TypeOK
  <2>3. CallbackInv' /\ CleanupInv'
    BY <2>1 DEF CallbackInv, CleanupInv, Awaited, Distinct
  <2>4. LeaseInv'
    BY <2>1, LeaseIdle
  <2>5. SharesIdle
    BY <2>1 DEF SharesIdle, Pending
  <2> QED  BY <2>2, <2>3, <2>4, <2>5, IdleKeeps
<1> QED  BY <1>1, <1>2, <1>3, <1>4 DEF Next

LEMMA Invariance == Spec => []IInv
  BY Initially, NextKeeps, PTL DEF Spec

(* Every variable has its type.                                             *)
THEOREM TypeCorrect == Spec => []TypeOK
<1>1. IInv => TypeOK
  BY DEF IInv
<1> QED  BY <1>1, Invariance, PTL

(* cleanup() that has waited for the callbacks deletes the listener when     *)
(* none of them is calling a handler or will: one that was not counted yet   *)
(* finds the handlers gone.                                                 *)
THEOREM AwaitedTheorem == Spec => []Awaited
<1>1. IInv => Awaited
  BY DEF IInv, CleanupInv
<1> QED  BY <1>1, Invariance, PTL

LEMMA LeaseIsOwned == TypeOK /\ LeaseInv => OneOwner
<1> SUFFICES ASSUME TypeOK, LeaseInv, NEW b \in Buffers
             PROVE  Owners(b) = 1
  BY DEF OneOwner
<1> DEFINE F == {i \in DOMAIN free : free[i] = b}
           T == {k \in Alive : k.buf = b}
<1>0. b # None
  BY ChannelAssumption
<1>1. \/ b \in FreeOnes /\ \E i \in DOMAIN free : F = {i}
      \/ b \notin FreeOnes /\ F = {}
  BY DEF FreeOnes, Ex!InSeq, LeaseInv, Distinct
<1>2. \A k : k \in T <=> \/ \E i \in DOMAIN queue : k = queue[i] /\ k.buf = b
                         \/ \E s \in Slots : k = slot[s] /\ k.buf = b
  BY <1>0 DEF Alive, Running, NoTask, Ex!InSeq
<1>3. b \in QueueOnes <=> \E i \in DOMAIN queue : queue[i].buf = b
  BY <1>0 DEF QueueOnes, LeasesIn, Ex!InSeq
<1>4. b \in SlotOnes <=> \E s \in Slots : slot[s].buf = b
  BY <1>0 DEF SlotOnes, LeasesIn
<1> HIDE DEF F, T
<1>5. \/ b \in QueueOnes \cup SlotOnes /\ \E k : T = {k}
      \/ b \notin QueueOnes \cup SlotOnes /\ T = {}
  <2>1. CASE b \in QueueOnes
    <3>1. PICK i \in DOMAIN queue : queue[i].buf = b
      BY <1>3, <2>1
    <3>2. \A j \in DOMAIN queue : queue[j].buf = b => j = i
      BY <1>0, <3>1 DEF LeaseInv, OwnsAlone
    <3>3. \A s \in Slots : slot[s].buf # b
      BY <1>4, <2>1 DEF LeaseInv, Partition
    <3>4. T = {queue[i]}
      BY <1>2, <3>1, <3>2, <3>3
    <3> QED  BY <2>1, <3>4
  <2>2. CASE b \in SlotOnes
    <3>1. PICK s \in Slots : slot[s].buf = b
      BY <1>4, <2>2
    <3>2. \A t \in Slots : slot[t].buf = b => t = s
      BY <1>0, <3>1 DEF LeaseInv, OwnsAlone, TypeOK
    <3>3. \A i \in DOMAIN queue : queue[i].buf # b
      BY <1>3, <2>2 DEF LeaseInv, Partition
    <3>4. T = {slot[s]}
      BY <1>2, <3>1, <3>2, <3>3
    <3> QED  BY <2>2, <3>4
  <2>3. CASE b \notin QueueOnes \cup SlotOnes
    <3>1. T = {}
      BY <1>2, <1>3, <1>4, <2>3
    <3> QED  BY <2>3, <3>1
  <2> QED  BY <2>1, <2>2, <2>3
<1>6. \/ b \in FreeOnes /\ Cardinality(F) = 1
      \/ b \notin FreeOnes /\ Cardinality(F) = 0
  BY <1>1, FS_Singleton, FS_EmptySet
<1>7. \/ b \in QueueOnes \cup SlotOnes /\ Cardinality(T) = 1
      \/ b \notin QueueOnes \cup SlotOnes /\ Cardinality(T) = 0
  BY <1>5, FS_Singleton, FS_EmptySet
<1>8. /\ b \in MsgOnes <=> lease = b
      /\ b \in HoldOnes <=> cb.hold = b
  BY <1>0 DEF MsgOnes, HoldOnes
<1>9. Owners(b) = Cardinality(F) + Cardinality(T)
                  + (IF lease = b THEN 1 ELSE 0)
                  + (IF cb.hold = b THEN 1 ELSE 0)
  BY DEF Owners, F, T
<1>10. CASE b \in FreeOnes
  BY <1>6, <1>7, <1>8, <1>9, <1>10 DEF LeaseInv, Partition
<1>11. CASE b \in QueueOnes \cup SlotOnes
  BY <1>6, <1>7, <1>8, <1>9, <1>11 DEF LeaseInv, Partition
<1>12. CASE b \in MsgOnes
  BY <1>6, <1>7, <1>8, <1>9, <1>12 DEF LeaseInv, Partition
<1>13. CASE b \in HoldOnes
  BY <1>6, <1>7, <1>8, <1>9, <1>13 DEF LeaseInv, Partition
<1> QED  BY <1>10, <1>11, <1>12, <1>13 DEF LeaseInv, Partition

(* A buffer of the pool always has one owner: the pool, msg_, the handler    *)
(* that runs in the callback, or one closure, whatever is refused,           *)
(* discarded or torn down on the way.                                       *)
THEOREM OneOwnerTheorem == Spec => []OneOwner
<1>1. IInv => OneOwner
  BY LeaseIsOwned DEF IInv
<1> QED  BY <1>1, Invariance, PTL

LEMMA CallsAreCounted ==
    ASSUME NEW S, NEW s \in Seq(S), Distinct(s)
    PROVE  Cardinality(Ex!InSeq(s)) = Len(s)
<1> DEFINE n == Len(s)
<1>1. n \in Nat /\ DOMAIN s = 1..n
  OBVIOUS
<1>2. s \in [1..n -> Ex!InSeq(s)]
  BY <1>1 DEF Ex!InSeq
<1>3. s \in Bijection(1..n, Ex!InSeq(s))
  <2>1. s \in Injection(1..n, Ex!InSeq(s))
    BY <1>1, <1>2 DEF Injection, IsInjective, Distinct
  <2>2. s \in Surjection(1..n, Ex!InSeq(s))
    BY <1>1, <1>2 DEF Surjection, Ex!InSeq
  <2> QED  BY <2>1, <2>2 DEF Bijection
<1>4. ExistsBijection(1..n, Ex!InSeq(s))
  BY <1>3 DEF ExistsBijection
<1> QED  BY <1>1, <1>4, FS_CountingElements

LEMMA SharesAreAccounted == TypeOK /\ ShareInv /\ OrderInv => Accounted
<1> SUFFICES ASSUME TypeOK, ShareInv, OrderInv, NEW h \in All
             PROVE  /\ due[h] = UNION {Shares(h)[i] : i \in DOMAIN Shares(h)}
                    /\ \A i, j \in DOMAIN Shares(h) :
                          i # j => Shares(h)[i] \cap Shares(h)[j] = {}
                    /\ Cardinality(Ex!InSeq(got[h])) = Len(got[h])
                    /\ h # Leased => Increasing(got[h])
  BY DEF Accounted
<1>1. Divided(due[h], Called(h), QueueFor(h), lost[h], Pending(h))
  BY DEF ShareInv
<1>2. Shares(h) = <<Called(h), QueueFor(h), lost[h], Pending(h)>>
  BY DEF Shares, Called, QueueFor
<1>3. DOMAIN Shares(h) = {1, 2, 3, 4}
  BY <1>2
<1>4. /\ Shares(h)[1] = Called(h) /\ Shares(h)[2] = QueueFor(h)
      /\ Shares(h)[3] = lost[h] /\ Shares(h)[4] = Pending(h)
  BY <1>2
<1>5. due[h] = UNION {Shares(h)[i] : i \in DOMAIN Shares(h)}
  BY <1>1, <1>3, <1>4 DEF Divided
<1>6. \A i, j \in DOMAIN Shares(h) :
         i # j => Shares(h)[i] \cap Shares(h)[j] = {}
  BY <1>1, <1>3, <1>4 DEF Divided
<1>7. Cardinality(Ex!InSeq(got[h])) = Len(got[h])
  <2>1. got[h] \in Seq(Msgs) /\ Distinct(got[h])
    BY DEF TypeOK, OrderInv
  <2> QED  BY <2>1, CallsAreCounted
<1>8. h # Leased => Increasing(got[h])
  BY DEF OrderInv, All
<1> QED  BY <1>5, <1>6, <1>7, <1>8

(* What a handler was to be given it has been called with, or waits on the   *)
(* executor, or was dropped and counted, or comes next: each message in one  *)
(* of these, none twice; an ordinary handler sees them in order.             *)
THEOREM AccountedTheorem == Spec => []Accounted
<1>1. IInv => Accounted
  BY SharesAreAccounted DEF IInv
<1> QED  BY <1>1, Invariance, PTL

-----------------------------------------------------------------------------
(* The communicator: what its entries hold, for a communicator c that has    *)
(* not been destroyed and a table t.                                        *)

EntryType == [open : BOOLEAN, queue : Seq(Nat), capacity : Nat \ {0}]

\* A sequence of anything.
SomeSeq(s) == s \in Seq({s[i] : i \in DOMAIN s})

CommTyped ==
    /\ world \in Worlds
    /\ SomeSeq(sent)
    /\ entry \in [Communicators -> [Tables -> EntryType]]
    /\ local \in [Communicators -> [Tables -> Nat]]
    /\ pending \in [Communicators -> [Tables -> [Writers -> Seq(Nat)]]]
    /\ heard \in [Communicators -> [Tables -> Seq(Nat)]]
    /\ results = [c \in Communicators |-> [t \in Tables |-> results[c][t]]]
    /\ \A c \in Communicators, t \in Tables : SomeSeq(results[c][t])
    /\ qos = [c \in Communicators |-> qos[c]]
    /\ \A c \in Communicators : qos[c].depth \in Int

\* No message is twice in what an entry has heard and is still to hear.
WireInv(c, t) ==
    /\ Distinct(heard[c][t])
    /\ \A i \in DOMAIN heard[c][t] : heard[c][t][i] \in DOMAIN sent
    /\ \A d \in Writers :
          /\ Distinct(pending[c][t][d])
          /\ \A i \in DOMAIN pending[c][t][d] :
                /\ pending[c][t][d][i] \in DOMAIN sent
                /\ WriterOf(sent[pending[c][t][d][i]]) = d
                /\ \A j \in DOMAIN heard[c][t] :
                      heard[c][t][j] # pending[c][t][d][i]
    /\ ~entry[c][t].open =>
          /\ heard[c][t] = << >>
          /\ \A d \in Writers : pending[c][t][d] = << >>

QueueInv(c, t) == /\ Len(entry[c][t].queue) <= entry[c][t].capacity
                  /\ QueueInOrder(c, t)

\* The copy is newer than those that were handed out.
CopyInv(c, t) ==
    /\ \A i \in From(c, t, "local") : results[c][t][i].id \in DOMAIN sent
    /\ local[c][t] # Nothing =>
          /\ local[c][t] \in DOMAIN sent
          /\ sent[local[c][t]].from = c
          /\ \A i \in From(c, t, "local") :
                results[c][t][i].id < local[c][t]
    /\ CopiesInOrder(c, t)

EntryInv(c, t) == WireInv(c, t) /\ QueueInv(c, t) /\ CopyInv(c, t)

CommInv == /\ CommTyped
           /\ \A c \in Communicators \ gone, t \in Tables : EntryInv(c, t)

-----------------------------------------------------------------------------
(* Sequences and entries. *)

LEMMA SomeAppend ==
    ASSUME NEW s, SomeSeq(s), NEW x
    PROVE  /\ SomeSeq(Append(s, x)) /\ Len(s) \in Nat /\ DOMAIN s = 1..Len(s)
           /\ Len(Append(s, x)) = Len(s) + 1
           /\ DOMAIN Append(s, x) = 1..(Len(s) + 1)
           /\ \A i \in 1..Len(s) : Append(s, x)[i] = s[i]
           /\ Append(s, x)[Len(s) + 1] = x
<1> DEFINE S == {s[i] : i \in DOMAIN s}
           r == Append(s, x)
           R == {r[i] : i \in DOMAIN r}
<1>1. s \in Seq(S \cup {x})
  <2>1. s \in Seq(S)
    BY DEF SomeSeq
  <2>2. s \in [1..Len(s) -> S] /\ Len(s) \in Nat
    BY <2>1
  <2>3. s \in [1..Len(s) -> S \cup {x}]
    BY <2>2
  <2> QED
    BY <2>2, <2>3, SeqDef
<1> HIDE DEF S
<1>2. /\ r \in Seq(S \cup {x}) /\ Len(s) \in Nat /\ DOMAIN s = 1..Len(s)
      /\ Len(r) = Len(s) + 1 /\ DOMAIN r = 1..(Len(s) + 1)
      /\ \A i \in 1..Len(s) : r[i] = s[i]
      /\ r[Len(s) + 1] = x
  BY <1>1
<1> HIDE DEF r
<1>3. r \in [1..(Len(s) + 1) -> R]
  <2>1. r = [i \in 1..(Len(s) + 1) |-> r[i]]
    BY <1>2
  <2> QED
    BY <1>2, <2>1
<1>4. r \in Seq(R)
  BY <1>2, <1>3, SeqDef
<1> QED
  BY <1>2, <1>4 DEF SomeSeq, r

LEMMA NatAppend ==
    ASSUME NEW s \in Seq(Nat), NEW x \in Nat
    PROVE  /\ Append(s, x) \in Seq(Nat) /\ Len(s) \in Nat
           /\ DOMAIN s = 1..Len(s)
           /\ Len(Append(s, x)) = Len(s) + 1
           /\ DOMAIN Append(s, x) = 1..(Len(s) + 1)
           /\ \A i \in 1..Len(s) : Append(s, x)[i] = s[i]
           /\ Append(s, x)[Len(s) + 1] = x
OBVIOUS

LEMMA NatTail ==
    ASSUME NEW s \in Seq(Nat), s # << >>
    PROVE  /\ Head(s) \in Nat /\ Head(s) = s[1] /\ Tail(s) \in Seq(Nat)
           /\ Len(s) \in Nat \ {0} /\ DOMAIN s = 1..Len(s)
           /\ Len(Tail(s)) = Len(s) - 1
           /\ DOMAIN Tail(s) = 1..(Len(s) - 1)
           /\ \A i \in 1..(Len(s) - 1) : Tail(s)[i] = s[i + 1]
OBVIOUS

\* What Kept() leaves of a queue q of length a: all, or all but the oldest.
Keeps(q, id, cap, k, a, b) ==
    /\ k \in Seq(Nat) /\ b \in Nat /\ b >= 1 /\ b <= cap
    /\ DOMAIN k = 1..b /\ k[b] = id
    /\ b = a + 1 \/ (b = a /\ a = cap)
    /\ \A i \in 1..b : i # b => k[i] = q[i + a + 1 - b]

LEMMA KeptIs ==
    ASSUME NEW q \in Seq(Nat), NEW id \in Nat, NEW cap \in Nat \ {0},
           Len(q) <= cap, NEW k, k = Kept(q, id, cap),
           NEW a, a = Len(q), NEW b, b = Len(k)
    PROVE  Keeps(q, id, cap, k, a, b)
<1> SUFFICES /\ k \in Seq(Nat) /\ b \in Nat /\ b >= 1 /\ b <= cap
             /\ DOMAIN k = 1..b /\ k[b] = id
             /\ b = a + 1 \/ (b = a /\ a = cap)
             /\ \A i \in 1..b : i # b => k[i] = q[i + a + 1 - b]
  BY DEF Keeps
<1> DEFINE all == Append(q, id)
<1>1. /\ all \in Seq(Nat) /\ Len(q) \in Nat /\ DOMAIN q = 1..Len(q)
      /\ Len(all) = Len(q) + 1
      /\ \A i \in 1..Len(q) : all[i] = q[i]
      /\ all[Len(q) + 1] = id
  BY NatAppend
<1> HIDE DEF all
<1>2. PICK n : n = Len(q) /\ n \in Nat
  BY <1>1
<1>3. k = SubSeq(all, Larger(0, (n + 1) - cap) + 1, n + 1)
  BY <1>1, <1>2 DEF Kept, all
<1>4. CASE n < cap
  <2>1. Larger(0, (n + 1) - cap) + 1 = 1
    BY <1>2, <1>4 DEF Larger
  <2>2. k = SubSeq(all, 1, n + 1)
    BY <1>3, <2>1
  <2>3. /\ k \in Seq(Nat) /\ Len(k) = n + 1 /\ DOMAIN k = 1..(n + 1)
        /\ \A i \in 1..(n + 1) : k[i] = all[i]
    BY <1>1, <1>2, <2>2
  <2>4. \A i \in 1..(n + 1) : /\ i + n + 1 - (n + 1) = i
                              /\ i # n + 1 => i \in 1..n
    BY <1>2
  <2> QED
    BY <1>1, <1>2, <1>4, <2>3, <2>4
<1>5. CASE n = cap
  <2>1. Larger(0, (n + 1) - cap) + 1 = 2
    BY <1>2, <1>5 DEF Larger
  <2>2. k = SubSeq(all, 2, n + 1)
    BY <1>3, <2>1
  <2>3. /\ k \in Seq(Nat) /\ Len(k) = n /\ DOMAIN k = 1..n
        /\ \A i \in 1..n : k[i] = all[i + 1]
    BY <1>1, <1>2, <1>5, <2>2
  <2>4. \A i \in 1..n : i + n + 1 - n = i + 1 /\ (i # n => i + 1 \in 1..n)
    BY <1>2
  <2> QED
    BY <1>1, <1>2, <1>5, <2>3, <2>4
<1> QED
  BY <1>2, <1>4, <1>5

LEMMA CapacityIs ==
    ASSUME NEW p, p.depth \in Int
    PROVE  Capacity(p) \in Nat \ {0}
BY DEF Capacity, History, Larger

-----------------------------------------------------------------------------
(* What a step does to one entry. *)

\* Messages that were sent stay what they are.
Grown == /\ DOMAIN sent \subseteq DOMAIN sent'
         /\ \A i \in DOMAIN sent : sent'[i] = sent[i]

LEMMA WritersStay ==
    ASSUME Communicators' = Communicators
    PROVE  Writers' = Writers
BY DEF Writers

\* Nothing more has been returned this way.
SameReturns(c, t, way) ==
    /\ From(c, t, way)' = From(c, t, way)
    /\ \A i \in From(c, t, way) :
          results'[c][t][i].id = results[c][t][i].id

LEMMA NoReturn ==
    ASSUME NEW c, NEW t, NEW way, results'[c][t] = results[c][t]
    PROVE  SameReturns(c, t, way)
BY DEF SameReturns, From

LEMMA SameQueue ==
    ASSUME NEW c, NEW t, QueueInv(c, t), SameReturns(c, t, "queue"),
           entry'[c][t] = entry[c][t], heard'[c][t] = heard[c][t]
    PROVE  QueueInv(c, t)'
BY DEF QueueInv, QueueInOrder, SameReturns

LEMMA SameCopies ==
    ASSUME NEW c, NEW t, CopyInv(c, t), Grown, SameReturns(c, t, "local"),
           local'[c][t] = local[c][t]
    PROVE  CopyInv(c, t)'
BY DEF CopyInv, CopiesInOrder, Grown, SameReturns

LEMMA SameWire ==
    ASSUME NEW c, NEW t, WireInv(c, t), Grown, Communicators' = Communicators,
           entry[c][t].open => entry'[c][t].open,
           heard'[c][t] = heard[c][t], pending'[c][t] = pending[c][t]
    PROVE  WireInv(c, t)'
BY WritersStay DEF WireInv, Grown, Distinct

LEMMA SameEntry ==
    ASSUME NEW c, NEW t, EntryInv(c, t), Grown, Communicators' = Communicators,
           entry'[c][t] = entry[c][t], heard'[c][t] = heard[c][t],
           results'[c][t] = results[c][t], local'[c][t] = local[c][t],
           pending'[c][t] = pending[c][t]
    PROVE  EntryInv(c, t)'
BY NoReturn, SameQueue, SameCopies, SameWire DEF EntryInv

\* A channel that is made finds an empty entry.
LEMMA OpenedIs ==
    ASSUME CommTyped, NEW c \in Communicators, NEW t \in Tables,
           NEW e, e = Opened(c, t)
    PROVE  /\ e \in [Communicators -> [Tables -> EntryType]]
           /\ \A d \in Communicators, u \in Tables :
                 d # c \/ u # t => e[d][u] = entry[d][u]
           /\ e[c][t].open /\ e[c][t].queue = entry[c][t].queue
           /\ entry[c][t].open => e[c][t] = entry[c][t]
<1>1. Capacity(qos[c]) \in Nat \ {0}
  BY CapacityIs DEF CommTyped
<1>2. entry \in [Communicators -> [Tables -> EntryType]]
  BY DEF CommTyped
<1>3. CASE entry[c][t].open
  BY <1>2, <1>3 DEF Opened, EntryType
<1>4. CASE ~entry[c][t].open
  <2>1. PICK x \in EntryType :
            /\ x.open = TRUE /\ x.queue = entry[c][t].queue
            /\ x = [entry[c][t] EXCEPT !.open = TRUE,
                                       !.capacity = Capacity(qos[c])]
    <3> DEFINE y == [entry[c][t] EXCEPT !.open = TRUE,
                                        !.capacity = Capacity(qos[c])]
    <3>1. entry[c][t] \in EntryType
      BY <1>2
    <3>2. y \in EntryType /\ y.open = TRUE /\ y.queue = entry[c][t].queue
      BY <1>1, <3>1 DEF EntryType
    <3> QED
      BY <3>2
  <2>2. e = [entry EXCEPT ![c] = [entry[c] EXCEPT ![t] = x]]
    BY <1>2, <1>4, <2>1 DEF Opened
  <2> QED
    BY <1>2, <1>4, <2>1, <2>2
<1> QED
  BY <1>3, <1>4

LEMMA OpenedQueue ==
    ASSUME CommTyped, NEW c \in Communicators, NEW t \in Tables,
           NEW d \in Communicators, NEW u \in Tables, EntryInv(d, u),
           entry' = Opened(c, t), SameReturns(d, u, "queue"),
           heard'[d][u] = heard[d][u]
    PROVE  QueueInv(d, u)'
<1>1. /\ d # c \/ u # t => entry'[d][u] = entry[d][u]
      /\ d = c /\ u = t => entry'[d][u].open
      /\ entry'[d][u].queue = entry[d][u].queue
      /\ entry[d][u].open => entry'[d][u] = entry[d][u]
      /\ entry'[d][u] \in EntryType /\ entry[d][u] \in EntryType
  <2>1. PICK e : e = Opened(c, t)
    OBVIOUS
  <2>2. /\ e \in [Communicators -> [Tables -> EntryType]]
        /\ \A x \in Communicators, y \in Tables :
              x # c \/ y # t => e[x][y] = entry[x][y]
        /\ e[c][t].open /\ e[c][t].queue = entry[c][t].queue
        /\ entry[c][t].open => e[c][t] = entry[c][t]
    BY <2>1, OpenedIs
  <2>3. entry' = e /\ entry[d][u] \in EntryType
    BY <2>1 DEF CommTyped
  <2> QED
    BY <2>2, <2>3
<1>2. CASE entry'[d][u] = entry[d][u]
  BY <1>2, SameQueue DEF EntryInv
<1>3. CASE entry'[d][u] # entry[d][u]
  <2>1. heard[d][u] = << >>
    BY <1>1, <1>3 DEF EntryInv, WireInv
  <2>2. /\ entry[d][u].queue \in Seq(Nat)
        /\ Len(entry[d][u].queue) \in Nat /\ entry'[d][u].capacity \in Nat \ {0}
        /\ Len(heard[d][u]) = 0
    BY <1>1, <2>1 DEF EntryType
  <2>3. Len(entry[d][u].queue) = 0
    BY <2>2 DEF EntryInv, QueueInv, QueueInOrder
  <2>4. QueueInOrder(d, u)'
    <3>1. 1..0 = {}
      OBVIOUS
    <3> QED
    BY <1>1, <2>1, <2>2, <2>3, <3>1
         DEF EntryInv, QueueInv, QueueInOrder, SameReturns
  <2> QED
    BY <1>1, <2>2, <2>3, <2>4 DEF QueueInv
<1> QED
  BY <1>2, <1>3

-----------------------------------------------------------------------------
(* send(): a new message, a new copy, and one more to deliver to entries     *)
(* that are open.                                                          *)

LEMMA SentGrows ==
    ASSUME CommTyped, NEW m, sent' = Append(sent, m)
    PROVE  /\ SomeSeq(sent)' /\ Grown /\ Len(sent) \in Nat
           /\ DOMAIN sent = 1..Len(sent) /\ DOMAIN sent' = 1..(Len(sent) + 1)
           /\ sent'[Len(sent) + 1] = m
BY SomeAppend DEF CommTyped, Grown

LEMMA SendWire ==
    ASSUME CommTyped, NEW d \in Communicators, NEW u \in Tables, WireInv(d, u),
           NEW w \in Writers, NEW m, WriterOf(m) = w,
           sent' = Append(sent, m), Communicators' = Communicators,
           heard'[d][u] = heard[d][u], entry'[d][u].open,
           pending'[d][u] = [pending[d][u] EXCEPT ![w] =
                                Append(@, Len(sent) + 1)]
    PROVE  WireInv(d, u)'
<1> DEFINE n == Len(sent) + 1
           p == pending[d][u]
           q == Append(p[w], n)
<1>1. /\ Grown /\ DOMAIN sent = 1..Len(sent) /\ Len(sent) \in Nat
      /\ DOMAIN sent' = 1..n /\ sent'[n] = m
  BY SentGrows
<1>2. p \in [Writers -> Seq(Nat)]
  BY DEF CommTyped
<1>3. /\ Len(p[w]) \in Nat /\ DOMAIN p[w] = 1..Len(p[w])
      /\ DOMAIN q = 1..(Len(p[w]) + 1)
      /\ \A i \in 1..Len(p[w]) : q[i] = p[w][i]
      /\ q[Len(p[w]) + 1] = n
  BY <1>1, <1>2, NatAppend
<1> HIDE DEF q
<1>4. n \notin DOMAIN sent /\ n \in DOMAIN sent'
  BY <1>1
<1>5. \A i \in DOMAIN q : \/ i = Len(p[w]) + 1 /\ q[i] = n
                          \/ i \in DOMAIN p[w] /\ q[i] = p[w][i]
  BY <1>3
<1> HIDE DEF n
<1>6. /\ pending'[d][u][w] = q
      /\ \A e \in Writers : e # w => pending'[d][u][e] = p[e]
  BY <1>2 DEF q, n
<1>7. /\ \A i \in DOMAIN p[w] : /\ p[w][i] \in DOMAIN sent
                                /\ WriterOf(sent[p[w][i]]) = w
                                /\ \A j \in DOMAIN heard[d][u] :
                                      heard[d][u][j] # p[w][i]
      /\ \A j \in DOMAIN heard[d][u] : heard[d][u][j] \in DOMAIN sent
      /\ Distinct(p[w])
  BY DEF WireInv
<1>8. Distinct(q)
  BY <1>4, <1>5, <1>7 DEF Distinct
<1>9. \A i \in DOMAIN q : /\ q[i] \in DOMAIN sent'
                          /\ WriterOf(sent'[q[i]]) = w
                          /\ \A j \in DOMAIN heard[d][u] :
                                heard[d][u][j] # q[i]
  BY <1>1, <1>4, <1>5, <1>7 DEF Grown, n
<1> DEFINE Fits(r, e) == /\ Distinct(r)
                         /\ \A i \in DOMAIN r :
                               /\ r[i] \in DOMAIN sent'
                               /\ WriterOf(sent'[r[i]]) = e
                               /\ \A j \in DOMAIN heard[d][u] :
                                     heard[d][u][j] # r[i]
<1>10. Fits(q, w)
  BY <1>8, <1>9
<1>11. ASSUME NEW e \in Writers PROVE Fits(p[e], e)
  <2>1. /\ Distinct(p[e])
        /\ \A i \in DOMAIN p[e] : /\ p[e][i] \in DOMAIN sent
                                  /\ WriterOf(sent[p[e][i]]) = e
                                  /\ \A j \in DOMAIN heard[d][u] :
                                        heard[d][u][j] # p[e][i]
    BY DEF WireInv
  <2>2. /\ DOMAIN sent \subseteq DOMAIN sent'
        /\ \A i \in DOMAIN sent : sent'[i] = sent[i]
    BY <1>1 DEF Grown
  <2> QED
    BY <2>1, <2>2
<1> HIDE DEF Fits
<1>12. \A e \in Writers : Fits(pending'[d][u][e], e)
  BY <1>6, <1>10, <1>11
<1>13. Distinct(heard[d][u]) /\ Distinct(heard'[d][u])
  BY DEF WireInv
<1>14. \A j \in DOMAIN heard'[d][u] : heard'[d][u][j] \in DOMAIN sent'
  BY <1>1, <1>7 DEF Grown
<1> QED
  BY <1>12, <1>13, <1>14, WritersStay DEF WireInv, Fits

LEMMA SendCopy ==
    ASSUME CommTyped, NEW c \in Communicators, NEW t \in Tables, CopyInv(c, t),
           NEW m, m.from = c, sent' = Append(sent, m),
           local'[c][t] = Len(sent) + 1, results'[c][t] = results[c][t]
    PROVE  CopyInv(c, t)'
<1>1. /\ Grown /\ DOMAIN sent = 1..Len(sent) /\ Len(sent) \in Nat
      /\ DOMAIN sent' = 1..(Len(sent) + 1) /\ sent'[Len(sent) + 1] = m
  BY SentGrows
<1>2. From(c, t, "local")' = From(c, t, "local")
  BY DEF From
<1>3. \A i \in From(c, t, "local") :
          /\ results[c][t][i].id \in DOMAIN sent
          /\ results[c][t][i].id < Len(sent) + 1
  BY <1>1 DEF CopyInv
<1>4. Len(sent) + 1 \in DOMAIN sent'
  BY <1>1
<1> QED
  BY <1>1, <1>2, <1>3, <1>4 DEF CopyInv, CopiesInOrder, Grown

LEMMA SendKeeps ==
    ASSUME CommInv, NEW c \in Communicators \ gone, NEW t \in Tables,
           NEW fields, send(c, t, fields)
    PROVE  CommInv'
<1> DEFINE n == Len(sent) + 1
<1>m. PICK m : m = Message(c, t, fields)
  OBVIOUS
<1>w. PICK w : w = WriterOf(m)
  OBVIOUS
<1>1. /\ m = Message(c, t, fields) /\ m.id = n /\ m.from = c
      /\ WriterOf(m) = w /\ w \in Writers
  BY <1>m, <1>w DEF Message, Writers, WriterOf
<1>2. /\ sent' = Append(sent, m)
      /\ local' = IF world.fallback[c] THEN [local EXCEPT ![c][t] = n]
                  ELSE local
      /\ UNCHANGED <<world, qos, heard, results, gone, typed>>
  BY <1>1 DEF send
<1>3. \/ /\ entry' = Opened(c, t)
         /\ pending' \in {pending, Published(m, Opened(c, t))}
      \/ entry' = entry /\ pending' = pending
  BY <1>1 DEF send
<1>4. CommTyped /\ Communicators' = Communicators
  BY <1>2 DEF CommInv, Communicators
<1>5. /\ SomeSeq(sent)' /\ Grown /\ Len(sent) \in Nat /\ n \in Nat
  BY <1>2, <1>4, SentGrows
<1>6. /\ local' \in [Communicators -> [Tables -> Nat]]
      /\ \A d \in Communicators, u \in Tables :
            \/ local'[d][u] = local[d][u]
            \/ d = c /\ u = t /\ local'[d][u] = n
  BY <1>2, <1>4, <1>5 DEF CommTyped
<1>7. /\ entry' \in [Communicators -> [Tables -> EntryType]]
      /\ \A d \in Communicators, u \in Tables :
            entry[d][u].open => entry'[d][u].open
  <2>1. CASE entry' = entry
    BY <1>4, <2>1 DEF CommTyped
  <2>2. CASE entry' = Opened(c, t)
    <3>1. /\ entry' \in [Communicators -> [Tables -> EntryType]]
          /\ \A d \in Communicators, u \in Tables :
                d # c \/ u # t => entry'[d][u] = entry[d][u]
          /\ entry'[c][t].open
      BY <1>4, <2>2, OpenedIs
    <3> QED
      BY <3>1
  <2> QED
    BY <1>3, <2>1, <2>2
<1>8. /\ pending' \in [Communicators -> [Tables -> [Writers -> Seq(Nat)]]]
      /\ \A d \in Communicators, u \in Tables :
            \/ pending'[d][u] = pending[d][u]
            \/ /\ entry'[d][u].open
               /\ pending'[d][u] = [pending[d][u] EXCEPT ![w] = Append(@, n)]
  <2>1. CASE pending' = pending
    BY <1>4, <2>1 DEF CommTyped
  <2>2. CASE pending' = Published(m, entry')
    <3>1. pending \in [Communicators -> [Tables -> [Writers -> Seq(Nat)]]]
      BY <1>4 DEF CommTyped
    <3>2. \A d \in Communicators, u \in Tables :
              [pending[d][u] EXCEPT ![w] = Append(@, n)]
                  \in [Writers -> Seq(Nat)]
      <4> SUFFICES ASSUME NEW d \in Communicators, NEW u \in Tables
                   PROVE  [pending[d][u] EXCEPT ![w] = Append(@, n)]
                              \in [Writers -> Seq(Nat)]
        OBVIOUS
      <4>1. PICK f : f = pending[d][u]
        OBVIOUS
      <4>2. f \in [Writers -> Seq(Nat)] /\ n \in Nat /\ w \in Writers
        BY <1>1, <1>5, <3>1, <4>1
      <4> HIDE DEF n
      <4>3. f[w] \in Seq(Nat)
        BY <4>2
      <4>4. Append(f[w], n) \in Seq(Nat)
        BY <4>2, <4>3
      <4> QED
        BY <4>1, <4>2, <4>4
    <3>3. pending' = [d \in Communicators |-> [u \in Tables |->
              IF entry'[d][u].open
              THEN [pending[d][u] EXCEPT ![w] = Append(@, n)]
              ELSE pending[d][u]]]
      BY <1>1, <2>2 DEF Published
    <3> HIDE DEF n
    <3> QED
      BY <3>1, <3>2, <3>3
  <2> QED
    BY <1>3, <2>1, <2>2
<1>9. CommTyped'
  BY <1>2, <1>4, <1>5, <1>6, <1>7, <1>8, WritersStay DEF CommTyped
<1>10. ASSUME NEW d \in Communicators \ gone, NEW u \in Tables
       PROVE  EntryInv(d, u)'
  <2>1. EntryInv(d, u)
    BY DEF CommInv
  <2>2. QueueInv(d, u)'
    BY <1>2, <1>3, <1>4, <2>1, NoReturn, SameQueue, OpenedQueue
       DEF EntryInv
  <2>3. CopyInv(d, u)'
    <3>1. CASE local'[d][u] = local[d][u]
      BY <1>2, <1>5, <2>1, <3>1, NoReturn, SameCopies DEF EntryInv
    <3>2. CASE d = c /\ u = t /\ local'[d][u] = n
      BY <1>1, <1>2, <1>4, <2>1, <3>2, SendCopy DEF EntryInv
    <3> QED
      BY <1>6, <3>1, <3>2
  <2>4. WireInv(d, u)'
    <3>1. CASE pending'[d][u] = pending[d][u]
      BY <1>2, <1>4, <1>5, <1>7, <2>1, <3>1, SameWire DEF EntryInv
    <3>2. CASE /\ entry'[d][u].open
               /\ pending'[d][u] = [pending[d][u] EXCEPT ![w] = Append(@, n)]
      BY <1>1, <1>2, <1>4, <2>1, <3>2, SendWire DEF EntryInv
    <3> QED
      BY <1>8, <3>1, <3>2
  <2> QED
    BY <2>2, <2>3, <2>4 DEF EntryInv
<1> QED
  BY <1>2, <1>4, <1>9, <1>10 DEF CommInv


-----------------------------------------------------------------------------
(* Deliver() and Lose(): the oldest of what a sender has on its way.         *)

LEMMA OldestIs ==
    ASSUME CommTyped, NEW c \in Communicators, NEW t \in Tables, WireInv(c, t),
           NEW d \in Writers, pending[c][t][d] # << >>,
           NEW id, id = Head(pending[c][t][d])
    PROVE  /\ id \in Nat /\ id \in DOMAIN sent /\ WriterOf(sent[id]) = d
           /\ \A j \in DOMAIN heard[c][t] : heard[c][t][j] # id
<1>1. PICK s : s = pending[c][t][d]
  OBVIOUS
<1>2. s \in Seq(Nat) /\ s # << >>
  BY <1>1 DEF CommTyped
<1>3. id \in Nat /\ id = s[1] /\ 1 \in DOMAIN s
  BY <1>1, <1>2, NatTail
<1>4. /\ s[1] \in DOMAIN sent /\ WriterOf(sent[s[1]]) = d
      /\ \A j \in DOMAIN heard[c][t] : heard[c][t][j] # s[1]
  BY <1>1, <1>3 DEF WireInv
<1> QED
  BY <1>3, <1>4

\* What is left of a sender's messages.
LEMMA TakenIs ==
    ASSUME CommTyped, NEW c \in Communicators, NEW t \in Tables, WireInv(c, t),
           NEW d \in Writers, pending[c][t][d] # << >>,
           NEW id, id = Head(pending[c][t][d]),
           NEW e \in Writers, NEW r,
           e = d => r = Tail(pending[c][t][d]),
           e # d => r = pending[c][t][e]
    PROVE  /\ Distinct(r)
           /\ \A i \in DOMAIN r :
                 /\ r[i] \in DOMAIN sent /\ WriterOf(sent[r[i]]) = e /\ r[i] # id
                 /\ \A j \in DOMAIN heard[c][t] : heard[c][t][j] # r[i]
<1> DEFINE Fits(s, x) ==
        Distinct(s) /\ \A i \in DOMAIN s :
            /\ s[i] \in DOMAIN sent /\ WriterOf(sent[s[i]]) = x
            /\ \A j \in DOMAIN heard[c][t] : heard[c][t][j] # s[i]
<1>1. PICK s : s = pending[c][t][d]
  OBVIOUS
<1>2. s \in Seq(Nat) /\ s # << >>
  BY <1>1 DEF CommTyped
<1>3. /\ id \in Nat /\ id = s[1] /\ 1 \in DOMAIN s
      /\ \A i \in DOMAIN Tail(s) : /\ i + 1 \in DOMAIN s /\ i + 1 # 1
                                   /\ Tail(s)[i] = s[i + 1]
      /\ DOMAIN Tail(s) \subseteq Nat
  BY <1>1, <1>2, NatTail
<1>4. Fits(s, d) /\ Fits(pending[c][t][e], e)
  BY <1>1 DEF WireInv
<1>5. /\ id \in DOMAIN sent /\ WriterOf(sent[id]) = d
      /\ \A j \in DOMAIN heard[c][t] : heard[c][t][j] # id
  BY OldestIs
<1>6. CASE e = d
  <2>1. r = Tail(s)
    BY <1>1, <1>6
  <2>2. \A i \in DOMAIN r : s[i + 1] # s[1]
    BY <1>3, <1>4, <2>1 DEF Distinct
  <2>3. Distinct(r)
    <3>1. ASSUME NEW i \in DOMAIN r, NEW j \in DOMAIN r, r[i] = r[j]
          PROVE  i = j
      <4>1. i + 1 = j + 1
        BY <1>3, <1>4, <2>1, <3>1 DEF Distinct
      <4> QED
        BY <1>3, <2>1, <4>1
    <3> QED
      BY <3>1 DEF Distinct
  <2> QED
    BY <1>3, <1>4, <1>5, <1>6, <2>1, <2>2, <2>3
<1>7. CASE e # d
  <2>1. r = pending[c][t][e]
    BY <1>7
  <2> QED
    BY <1>3, <1>4, <1>5, <1>7, <2>1
<1> QED
  BY <1>6, <1>7

Taken(c, t, d) == pending' = [pending EXCEPT ![c][t][d] = Tail(@)]

LEMMA TakenTyped ==
    ASSUME CommTyped, NEW c \in Communicators, NEW t \in Tables,
           NEW d \in Writers, pending[c][t][d] # << >>,
           Taken(c, t, d)
    PROVE  /\ pending' \in [Communicators ->
                              [Tables -> [Writers -> Seq(Nat)]]]
           /\ \A x \in Communicators, u \in Tables :
                 x # c \/ u # t => pending'[x][u] = pending[x][u]
           /\ pending'[c][t][d] = Tail(pending[c][t][d])
           /\ \A e \in Writers :
                 e # d => pending'[c][t][e] = pending[c][t][e]
<1>1. pending \in [Communicators -> [Tables -> [Writers -> Seq(Nat)]]]
  BY DEF CommTyped
<1>2. PICK s : s = Tail(pending[c][t][d])
  OBVIOUS
<1>3. s \in Seq(Nat)
  BY <1>1, <1>2, NatTail
<1>4. pending' = [pending EXCEPT ![c] = [pending[c] EXCEPT ![t] =
                     [pending[c][t] EXCEPT ![d] = s]]]
  BY <1>1, <1>2 DEF Taken
<1> QED
  BY <1>1, <1>2, <1>3, <1>4

\* What is heard may be the one that is taken.
LEMMA TakenWire ==
    ASSUME CommTyped, NEW c \in Communicators, NEW t \in Tables, WireInv(c, t),
           NEW d \in Writers, pending[c][t][d] # << >>,
           Taken(c, t, d),
           sent' = sent, Communicators' = Communicators,
           entry[c][t].open => entry'[c][t].open,
           \/ heard'[c][t] = heard[c][t]
           \/ heard'[c][t] = Append(heard[c][t], Head(pending[c][t][d]))
    PROVE  WireInv(c, t)'
<1>1. PICK id, h, p : /\ id = Head(pending[c][t][d]) /\ h = heard'[c][t]
                      /\ p = pending'[c][t]
  OBVIOUS
<1>2. /\ id \in Nat /\ id \in DOMAIN sent
      /\ \A j \in DOMAIN heard[c][t] : heard[c][t][j] # id
  BY <1>1, OldestIs
<1>3. heard[c][t] \in Seq(Nat)
  BY DEF CommTyped
<1>4. \A j \in DOMAIN h :
          \/ j \in DOMAIN heard[c][t] /\ h[j] = heard[c][t][j]
          \/ j = Len(heard[c][t]) + 1 /\ h[j] = id
  <2>1. PICK g : g = heard[c][t]
    OBVIOUS
  <2>2. g \in Seq(Nat) /\ (h = g \/ h = Append(g, id))
    BY <1>1, <1>3, <2>1
  <2>3. /\ DOMAIN g = 1..Len(g) /\ Len(g) \in Nat
        /\ DOMAIN Append(g, id) = 1..(Len(g) + 1)
        /\ \A i \in 1..Len(g) : Append(g, id)[i] = g[i]
        /\ Append(g, id)[Len(g) + 1] = id
    BY <1>2, <2>2, NatAppend
  <2>4. CASE h = g
    BY <2>1, <2>4
  <2>5. CASE h = Append(g, id)
    <3>1. \A j \in 1..(Len(g) + 1) : j \in 1..Len(g) \/ j = Len(g) + 1
      BY <2>3
    <3> QED
      BY <2>1, <2>3, <2>5, <3>1
  <2> QED
    BY <2>2, <2>4, <2>5
<1>5. /\ Distinct(heard[c][t])
      /\ \A j \in DOMAIN heard[c][t] : heard[c][t][j] \in DOMAIN sent
  BY DEF WireInv
<1>6. Distinct(h) /\ \A j \in DOMAIN h : h[j] \in DOMAIN sent
  BY <1>2, <1>4, <1>5 DEF Distinct
<1>7. ASSUME NEW e \in Writers
      PROVE  /\ Distinct(p[e])
             /\ \A i \in DOMAIN p[e] :
                   /\ p[e][i] \in DOMAIN sent /\ WriterOf(sent[p[e][i]]) = e
                   /\ \A j \in DOMAIN h : h[j] # p[e][i]
  <2>1. PICK r : r = p[e]
    OBVIOUS
  <2>2. /\ e = d => r = Tail(pending[c][t][d])
        /\ e # d => r = pending[c][t][e]
    <3>1. /\ pending'[c][t][d] = Tail(pending[c][t][d])
          /\ e # d => pending'[c][t][e] = pending[c][t][e]
      BY TakenTyped
    <3> QED
      BY <1>1, <2>1, <3>1
  <2>3. /\ Distinct(r)
        /\ \A i \in DOMAIN r :
              /\ r[i] \in DOMAIN sent /\ WriterOf(sent[r[i]]) = e /\ r[i] # id
              /\ \A j \in DOMAIN heard[c][t] : heard[c][t][j] # r[i]
    BY <1>1, <2>2, TakenIs
  <2>4. \A i \in DOMAIN r : \A j \in DOMAIN h : h[j] # r[i]
    BY <1>4, <2>3
  <2> QED
    BY <2>1, <2>3, <2>4
<1>8. entry'[c][t].open
  BY DEF WireInv
<1> QED
  BY <1>1, <1>6, <1>7, <1>8, WritersStay DEF WireInv, Distinct

LEMMA LoseKeeps ==
    ASSUME CommInv, NEW c \in Communicators \ gone, NEW t \in Tables,
           NEW d \in Writers, Lose(c, t, d)
    PROVE  CommInv'
<1>1. /\ pending[c][t][d] # << >> /\ Taken(c, t, d)
      /\ UNCHANGED <<world, sent, entry, local, qos, heard, results, gone>>
  BY DEF Lose, Taken
<1>2. CommTyped /\ Communicators' = Communicators /\ Grown
  BY <1>1 DEF CommInv, Communicators, Grown
<1>3. CommTyped'
  BY <1>1, <1>2, TakenTyped, WritersStay DEF CommTyped
<1>4. ASSUME NEW x \in Communicators \ gone, NEW u \in Tables
      PROVE  EntryInv(x, u)'
  <2>1. EntryInv(x, u)
    BY DEF CommInv
  <2>2. CASE x # c \/ u # t
    <3>1. pending'[x][u] = pending[x][u]
      BY <1>1, <1>2, <2>2, TakenTyped
    <3> QED
      BY <1>1, <1>2, <2>1, <3>1, SameEntry
  <2>3. CASE x = c /\ u = t
    <3>1. WireInv(x, u)'
      BY <1>1, <1>2, <2>1, <2>3, TakenWire DEF EntryInv
    <3> QED
      BY <1>1, <1>2, <2>1, <3>1, NoReturn, SameQueue, SameCopies DEF EntryInv
  <2> QED
    BY <2>2, <2>3
<1> QED
  BY <1>1, <1>2, <1>3, <1>4 DEF CommInv

\* A queue that takes what has been heard.
LEMMA DeliverQueue ==
    ASSUME CommTyped, NEW c \in Communicators, NEW t \in Tables,
           QueueInv(c, t), SameReturns(c, t, "queue"),
           NEW id \in Nat, \A j \in DOMAIN heard[c][t] : heard[c][t][j] # id,
           heard'[c][t] = Append(heard[c][t], id),
           entry'[c][t].capacity = entry[c][t].capacity,
           entry'[c][t].queue =
               Kept(entry[c][t].queue, id, entry[c][t].capacity)
    PROVE  QueueInv(c, t)'
<1>1. PICK q, k, h, g, cap :
          /\ q = entry[c][t].queue /\ k = Kept(q, id, cap)
          /\ h = heard[c][t] /\ g = Append(h, id)
          /\ cap = entry[c][t].capacity
  OBVIOUS
<1>2. q \in Seq(Nat) /\ cap \in Nat \ {0} /\ h \in Seq(Nat) /\ Len(q) <= cap
  <2>1. entry[c][t] \in EntryType /\ h \in Seq(Nat)
    BY <1>1 DEF CommTyped
  <2> QED
    BY <1>1, <2>1 DEF QueueInv, EntryType
<1>n. PICK n, a, b : n = Len(h) /\ a = Len(q) /\ b = Len(k)
  OBVIOUS
<1>k. /\ b \in Nat /\ b >= 1 /\ b <= cap /\ DOMAIN k = 1..b /\ k[b] = id
      /\ b = a + 1 \/ (b = a /\ a = cap)
      /\ \A i \in 1..b : i # b => k[i] = q[i + a + 1 - b]
  <2>1. k = Kept(q, id, cap) /\ a = Len(q) /\ b = Len(k)
    BY <1>1, <1>n
  <2>2. q \in Seq(Nat) /\ cap \in Nat \ {0} /\ Len(q) <= cap
    BY <1>2
  <2>k. Keeps(q, id, cap, k, a, b)
    BY <2>1, <2>2, KeptIs
  <2>3. /\ b \in Nat /\ b >= 1 /\ b <= cap /\ DOMAIN k = 1..b /\ k[b] = id
        /\ b = a + 1 \/ (b = a /\ a = cap)
    BY <2>k DEF Keeps
  <2>4. \A i \in 1..b : i # b => k[i] = q[i + a + 1 - b]
    BY <2>k DEF Keeps
  <2> QED
    BY <2>3, <2>4
<1>3. /\ n \in Nat /\ a \in Nat /\ b \in Nat /\ a <= cap
      /\ DOMAIN q = 1..a /\ DOMAIN h = 1..n
  BY <1>2, <1>n, <1>k
<1>4. /\ Len(g) = n + 1 /\ DOMAIN g = 1..(n + 1)
      /\ \A i \in 1..n : g[i] = h[i]
      /\ g[n + 1] = id
  BY <1>1, <1>2, <1>n, NatAppend
<1> DEFINE Q == From(c, t, "queue")
           out(i) == results[c][t][i].id
<1>5. /\ n - a >= 0 /\ \A i \in 1..a : q[i] = h[(n - a) + i]
      /\ \A i \in Q : \E m \in 1..(n - a) : h[m] = out(i)
      /\ \A i, j \in Q : \A x, y \in 1..n :
            i < j /\ h[x] = out(i) /\ h[y] = out(j) => x < y
      /\ \A m \in 1..(n - a) :
            (\A i \in Q : out(i) # h[m]) => n - m >= cap
  BY <1>1, <1>3, <1>n DEF QueueInv, QueueInOrder
<1>ab. b >= a /\ b <= a + 1 /\ b >= 1 /\ (b = a => a = cap) /\ b <= cap
  <2>1. b >= 1 /\ b <= cap /\ (b = a + 1 \/ (b = a /\ a = cap))
    BY <1>k, <1>n
  <2> QED
    BY <1>3, <2>1
<1>6. PICK p, r : p = n - a /\ r = (n + 1) - b /\ p \in Nat /\ r \in Nat
  <2>1. (n - a) \in Nat /\ ((n + 1) - b) \in Nat
    BY <1>3, <1>5, <1>ab
  <2> QED
    BY <2>1
<1>7. /\ r >= p /\ r <= p + 1 /\ p <= n
      /\ r = p + 1 => a = cap
      /\ p + a = n /\ r + b = n + 1 /\ p + a + 1 = r + b
      /\ b <= cap
  <2>1. n \in Nat /\ a \in Nat /\ b \in Nat /\ cap \in Nat
    BY <1>2, <1>3
  <2> QED
    BY <1>6, <1>ab, <2>1
<1> HIDE DEF Q, out
<1>8. \A i \in 1..b : k[i] = g[r + i]
  <2> SUFFICES ASSUME NEW i \in 1..b PROVE k[i] = g[r + i]
    OBVIOUS
  <2>1. CASE i = b
    BY <1>4, <1>7, <1>k, <1>n, <2>1
  <2>2. CASE i # b
    <3>1. PICK j : j = i + a + 1 - b
      OBVIOUS
    <3>2. n \in Nat /\ a \in Nat /\ b \in Nat /\ r + b = n + 1 /\ p + a = n
      BY <1>3, <1>7
    <3>3. j \in 1..a /\ p + j = r + i /\ r + i \in 1..n
      BY <1>6, <1>ab, <2>2, <3>1, <3>2
    <3>4. k[i] = q[j]
      BY <1>k, <1>n, <2>2, <3>1
    <3>5. q[j] = h[p + j]
      BY <1>5, <1>6, <3>3
    <3>6. g[r + i] = h[r + i]
      BY <1>4, <3>3
    <3> QED
      BY <3>3, <3>4, <3>5, <3>6
  <2> QED
    BY <2>1, <2>2
<1>9. \A i \in Q : \E m \in 1..p : m \in 1..r /\ m \in 1..n /\ h[m] = out(i)
                                   /\ g[m] = out(i)
  <2>1. \A m \in 1..p : m \in 1..r /\ m \in 1..n
    BY <1>3, <1>6, <1>7
  <2> QED
    BY <1>4, <1>5, <1>6, <2>1
<1>10. ASSUME NEW i \in Q, NEW x \in 1..(n + 1), g[x] = out(i)
       PROVE  x \in 1..n /\ h[x] = out(i)
  <2>1. out(i) # id
    BY <1>1, <1>3, <1>9
  <2>2. x # n + 1
    BY <1>4, <1>10, <2>1
  <2> QED
    BY <1>3, <1>4, <1>10, <2>2
<1>11. \A i, j \in Q : \A x, y \in 1..(n + 1) :
           i < j /\ g[x] = out(i) /\ g[y] = out(j) => x < y
  BY <1>5, <1>10
<1>12. ASSUME NEW m \in 1..r, \A i \in Q : out(i) # g[m]
       PROVE  (n + 1) - m >= cap
  <2>1. CASE m \in 1..p
    <3>1. m \in 1..n /\ g[m] = h[m]
      BY <1>3, <1>4, <1>6, <1>7, <2>1
    <3>2. n - m >= cap
      BY <1>5, <1>6, <1>12, <2>1, <3>1
    <3> QED
      BY <1>2, <1>3, <3>2
  <2>2. CASE m \notin 1..p
    <3>1. m = p + 1 /\ r = p + 1
      BY <1>6, <1>7, <2>2
    <3> QED
      BY <1>2, <1>3, <1>6, <1>7, <3>1
  <2> QED
    BY <2>1, <2>2
<1>13. /\ From(c, t, "queue")' = Q
       /\ \A i \in Q : results'[c][t][i].id = out(i)
  BY DEF SameReturns, Q, out
<1>14. /\ entry'[c][t].queue = k /\ entry'[c][t].capacity = cap
       /\ heard'[c][t] = g
  BY <1>1
<1>15. Len(g) - Len(k) = r /\ Len(k) <= cap /\ Len(g) = n + 1
       /\ DOMAIN k = 1..b /\ DOMAIN g = 1..(n + 1) /\ r >= 0
  <2>1. Len(g) = n + 1 /\ Len(k) = b /\ DOMAIN k = 1..b
    BY <1>4, <1>k, <1>n
  <2> QED
    BY <1>3, <1>4, <1>6, <1>7, <2>1
<1>16. QueueInOrder(c, t)'
  <2> DEFINE new(i) == results'[c][t][i].id
  <2>1. \A i \in DOMAIN k : k[i] = g[r + i]
    BY <1>8, <1>15
  <2>2. \A i \in Q : \E m \in 1..r : g[m] = new(i)
    BY <1>9, <1>13
  <2>3. \A i, j \in Q : \A x, y \in DOMAIN g :
            i < j /\ g[x] = new(i) /\ g[y] = new(j) => x < y
    BY <1>11, <1>13, <1>15
  <2>4. \A m \in 1..r :
            (\A i \in Q : new(i) # g[m]) => Len(g) - m >= cap
    BY <1>12, <1>13, <1>15
  <2>5. \A m \in 1..r : Len(g) - m >= cap => m # Len(g)
    BY <1>2, <1>3, <1>15
  <2> QED
    BY <1>13, <1>14, <1>15, <2>1, <2>2, <2>3, <2>4, <2>5
       DEF QueueInOrder
<1> QED
  BY <1>14, <1>15, <1>16 DEF QueueInv

LEMMA DeliverKeeps ==
    ASSUME CommInv, NEW c \in Communicators \ gone, NEW t \in Tables,
           NEW d \in Writers, Deliver(c, t, d)
    PROVE  CommInv'
<1>1. PICK id, k : /\ id = Head(pending[c][t][d])
                   /\ k = Kept(entry[c][t].queue, id, entry[c][t].capacity)
  OBVIOUS
<1>2. /\ pending[c][t][d] # << >> /\ Taken(c, t, d)
      /\ heard' = [heard EXCEPT ![c][t] = Append(@, id)]
      /\ entry' = [entry EXCEPT ![c][t].queue = k]
      /\ UNCHANGED <<world, sent, local, qos, results, gone>>
  BY <1>1 DEF Deliver, Taken
<1>3. CommTyped /\ Communicators' = Communicators /\ Grown /\ EntryInv(c, t)
  BY <1>2 DEF CommInv, Communicators, Grown
<1>4. /\ id \in Nat
      /\ \A j \in DOMAIN heard[c][t] : heard[c][t][j] # id
  BY <1>1, <1>2, <1>3, OldestIs DEF EntryInv
<1>5. PICK x, g : /\ x = [entry[c][t] EXCEPT !.queue = k]
                  /\ g = Append(heard[c][t], id)
  OBVIOUS
<1>6. /\ x \in EntryType /\ x.queue = k /\ x.open = entry[c][t].open
      /\ x.capacity = entry[c][t].capacity
  <2>1. /\ entry[c][t] \in EntryType
        /\ Len(entry[c][t].queue) <= entry[c][t].capacity
    BY <1>3 DEF CommTyped, EntryInv, QueueInv
  <2>2. k \in Seq(Nat)
    <3>1. PICK a, b : a = Len(entry[c][t].queue) /\ b = Len(k)
      OBVIOUS
    <3>2. entry[c][t].queue \in Seq(Nat) /\ entry[c][t].capacity \in Nat \ {0}
      BY <2>1 DEF EntryType
    <3> QED
      BY <1>1, <1>4, <2>1, <3>1, <3>2, KeptIs DEF Keeps
  <2> QED
    BY <1>5, <2>1, <2>2 DEF EntryType
<1>7. g \in Seq(Nat)
  BY <1>3, <1>4, <1>5, NatAppend DEF CommTyped
<1>8. /\ entry' = [entry EXCEPT ![c] = [entry[c] EXCEPT ![t] = x]]
      /\ heard' = [heard EXCEPT ![c] = [heard[c] EXCEPT ![t] = g]]
  BY <1>2, <1>3, <1>5 DEF CommTyped
<1>9. /\ entry' \in [Communicators -> [Tables -> EntryType]]
      /\ heard' \in [Communicators -> [Tables -> Seq(Nat)]]
      /\ entry'[c][t] = x /\ heard'[c][t] = g
      /\ \A y \in Communicators, u \in Tables :
            y # c \/ u # t => /\ entry'[y][u] = entry[y][u]
                              /\ heard'[y][u] = heard[y][u]
  BY <1>3, <1>6, <1>7, <1>8 DEF CommTyped
<1>10. CommTyped'
  BY <1>2, <1>3, <1>9, TakenTyped, WritersStay DEF CommTyped
<1>11. EntryInv(c, t)'
  <2>1. WireInv(c, t)'
    BY <1>1, <1>2, <1>3, <1>5, <1>6, <1>9, TakenWire DEF EntryInv
  <2>2. QueueInv(c, t)'
    <3>1. SameReturns(c, t, "queue") /\ QueueInv(c, t)
      BY <1>2, <1>3, NoReturn DEF EntryInv
    <3>2. /\ entry'[c][t].queue =
                 Kept(entry[c][t].queue, id, entry[c][t].capacity)
          /\ entry'[c][t].capacity = entry[c][t].capacity
          /\ heard'[c][t] = Append(heard[c][t], id)
      BY <1>1, <1>5, <1>6, <1>9
    <3> QED
      BY <1>3, <1>4, <3>1, <3>2, DeliverQueue
  <2>3. CopyInv(c, t)'
    BY <1>2, <1>3, NoReturn, SameCopies DEF EntryInv
  <2> QED
    BY <2>1, <2>2, <2>3 DEF EntryInv
<1>12. ASSUME NEW y \in Communicators \ gone, NEW u \in Tables,
              y # c \/ u # t
       PROVE  EntryInv(y, u)'
  <2>1. EntryInv(y, u)
    BY DEF CommInv
  <2>2. pending'[y][u] = pending[y][u]
    BY <1>2, <1>3, <1>12, TakenTyped
  <2> QED
    BY <1>2, <1>3, <1>9, <1>12, <2>1, <2>2, SameEntry
<1> QED
  BY <1>2, <1>3, <1>10, <1>11, <1>12 DEF CommInv

-----------------------------------------------------------------------------
(* receive(): from the queue, or else from the copy.                         *)

\* One more is returned: r, one way.
LEMMA OneReturned ==
    ASSUME CommTyped, NEW c \in Communicators, NEW t \in Tables, NEW r,
           Returns(c, t, r), Communicators' = Communicators
    PROVE  /\ results' = [x \in Communicators |->
                             [u \in Tables |-> results'[x][u]]]
           /\ \A x \in Communicators, u \in Tables :
                 /\ SomeSeq(results'[x][u])
                 /\ x # c \/ u # t => results'[x][u] = results[x][u]
           /\ Len(results[c][t]) \in Nat
           /\ results'[c][t][Len(results[c][t]) + 1] = r
           /\ \A way : \A i \in From(c, t, way)' :
                 \/ i = Len(results[c][t]) + 1 /\ r.by = way
                 \/ i \in From(c, t, way)
           /\ \A way : \A i \in From(c, t, way) :
                 /\ i \in From(c, t, way)' /\ i \in 1..Len(results[c][t])
                 /\ results'[c][t][i] = results[c][t][i]
           /\ Len(results[c][t]) + 1 \in From(c, t, r.by)'
<1>1. PICK s : s = results[c][t]
  OBVIOUS
<1>2. /\ SomeSeq(Append(s, r)) /\ Len(s) \in Nat /\ DOMAIN s = 1..Len(s)
      /\ DOMAIN Append(s, r) = 1..(Len(s) + 1)
      /\ \A i \in 1..Len(s) : Append(s, r)[i] = s[i]
      /\ Append(s, r)[Len(s) + 1] = r
  <2>1. SomeSeq(s)
    BY <1>1 DEF CommTyped
  <2> QED
    BY <2>1, SomeAppend
<1>3. PICK g : g = Append(s, r)
  OBVIOUS
<1>4. /\ results' = [results EXCEPT ![c] = [results[c] EXCEPT ![t] = g]]
      /\ results = [x \in Communicators |-> [u \in Tables |-> results[x][u]]]
      /\ \A x \in Communicators, u \in Tables : SomeSeq(results[x][u])
  BY <1>1, <1>3 DEF CommTyped, Returns
<1>5. /\ results' = [x \in Communicators |->
                       [u \in Tables |-> results'[x][u]]]
      /\ results'[c][t] = g
      /\ \A x \in Communicators, u \in Tables :
            x # c \/ u # t => results'[x][u] = results[x][u]
  BY <1>4
<1>6. \A way : From(c, t, way)' = {i \in DOMAIN g : g[i].by = way}
  BY <1>5 DEF From
<1>7. \A way : From(c, t, way) = {i \in DOMAIN s : s[i].by = way}
  BY <1>1 DEF From
<1>8. /\ DOMAIN g = 1..(Len(s) + 1) /\ g[Len(s) + 1] = r /\ SomeSeq(g)
      /\ \A i \in 1..Len(s) : g[i] = s[i]
  BY <1>2, <1>3
<1>9. \A i \in 1..(Len(s) + 1) : i = Len(s) + 1 \/ i \in 1..Len(s)
  BY <1>2
<1>10. /\ Len(s) + 1 \in 1..(Len(s) + 1)
       /\ \A i \in 1..Len(s) : i \in 1..(Len(s) + 1)
  BY <1>2
<1>11. \A way : \A i \in From(c, t, way)' :
           \/ i = Len(s) + 1 /\ r.by = way
           \/ i \in From(c, t, way)
  BY <1>2, <1>6, <1>7, <1>8, <1>9
<1>12. \A way : \A i \in From(c, t, way) :
           i \in From(c, t, way)' /\ i \in 1..Len(s) /\ g[i] = s[i]
  BY <1>2, <1>6, <1>7, <1>8, <1>10
<1>13. Len(s) + 1 \in From(c, t, r.by)'
  BY <1>6, <1>8, <1>10
<1>14. \A x \in Communicators, u \in Tables : SomeSeq(results'[x][u])
  BY <1>4, <1>5, <1>8
<1> QED
  BY <1>1, <1>2, <1>5, <1>8, <1>11, <1>12, <1>13, <1>14

LEMMA OtherWay ==
    ASSUME CommTyped, NEW c \in Communicators, NEW t \in Tables, NEW r,
           Returns(c, t, r), Communicators' = Communicators,
           NEW way, r.by # way
    PROVE  SameReturns(c, t, way)
<1>1. /\ \A i \in From(c, t, way)' : i \in From(c, t, way)
      /\ \A i \in From(c, t, way) : /\ i \in From(c, t, way)'
                                    /\ results'[c][t][i] = results[c][t][i]
  BY OneReturned
<1> QED
  BY <1>1 DEF SameReturns

\* What is taken off the queue leaves it from the front.
LEMMA TakeQueue ==
    ASSUME CommTyped, NEW c \in Communicators, NEW t \in Tables,
           EntryInv(c, t), Communicators' = Communicators,
           entry[c][t].queue # << >>,
           NEW ok, Returns(c, t, Result(Head(entry[c][t].queue), ok, "queue")),
           heard'[c][t] = heard[c][t],
           entry'[c][t].capacity = entry[c][t].capacity,
           entry'[c][t].queue = Tail(entry[c][t].queue)
    PROVE  QueueInv(c, t)'
<1>1. PICK q, k, h, cap, id, res :
          /\ q = entry[c][t].queue /\ k = Tail(q) /\ h = heard[c][t]
          /\ cap = entry[c][t].capacity /\ id = Head(q)
          /\ res = Result(id, ok, "queue")
  OBVIOUS
<1>2. q \in Seq(Nat) /\ cap \in Nat \ {0} /\ h \in Seq(Nat) /\ q # << >>
      /\ Len(q) <= cap
  <2>1. entry[c][t] \in EntryType /\ h \in Seq(Nat)
    BY <1>1 DEF CommTyped
  <2> QED
    BY <1>1, <2>1 DEF EntryInv, QueueInv, EntryType
<1>3. PICK n, a : n = Len(h) /\ a = Len(q)
  OBVIOUS
<1>4. /\ n \in Nat /\ a \in Nat \ {0} /\ DOMAIN h = 1..n /\ DOMAIN q = 1..a
      /\ Len(k) = a - 1 /\ DOMAIN k = 1..(a - 1) /\ id = q[1] /\ a <= cap
      /\ \A i \in 1..(a - 1) : k[i] = q[i + 1]
  BY <1>1, <1>2, <1>3, NatTail
<1> DEFINE Q == From(c, t, "queue")
           out(i) == results[c][t][i].id
           R == From(c, t, "queue")'
           new(i) == results'[c][t][i].id
<1>5. /\ n - a >= 0 /\ \A i \in 1..a : q[i] = h[(n - a) + i]
      /\ \A i \in Q : \E m \in 1..(n - a) : h[m] = out(i)
      /\ \A i, j \in Q : \A x, y \in 1..n :
            i < j /\ h[x] = out(i) /\ h[y] = out(j) => x < y
      /\ \A m \in 1..(n - a) :
            (\A i \in Q : out(i) # h[m]) => n - m >= cap
  BY <1>1, <1>3, <1>4 DEF EntryInv, QueueInv, QueueInOrder
<1>6. PICK p, l : p = n - a /\ l = Len(results[c][t]) + 1
  OBVIOUS
<1>7. /\ p \in Nat /\ p + a = n /\ p + 1 \in 1..n /\ n - (a - 1) = p + 1
      /\ p + 1 >= 0
  BY <1>4, <1>5, <1>6
<1>8. /\ res.by = "queue" /\ res.id = id
      /\ Returns(c, t, res)
  BY <1>1 DEF Result
<1>9. /\ l \in R /\ new(l) = id
      /\ \A i \in R : i = l \/ (i \in Q /\ new(i) = out(i))
      /\ \A i \in Q : i \in R /\ i < l /\ ~(l < i) /\ new(i) = out(i)
  <2>1. PICK w : w = res.by
    OBVIOUS
  <2>2. /\ Len(results[c][t]) \in Nat
        /\ results'[c][t][Len(results[c][t]) + 1] = res
        /\ \A i \in From(c, t, w)' :
              i = Len(results[c][t]) + 1 \/ i \in From(c, t, w)
        /\ \A i \in From(c, t, w) :
              /\ i \in From(c, t, w)' /\ i \in 1..Len(results[c][t])
              /\ results'[c][t][i] = results[c][t][i]
        /\ Len(results[c][t]) + 1 \in From(c, t, w)'
    BY <1>8, <2>1, OneReturned
  <2>3. \A i \in 1..Len(results[c][t]) : i < l /\ ~(l < i)
    BY <1>6, <2>2
  <2> QED
    BY <1>6, <1>8, <2>1, <2>2, <2>3
<1> HIDE DEF Q, R, out, new
<1>10. Distinct(h)
  BY <1>1 DEF EntryInv, WireInv
<1>11. id = h[p + 1]
  BY <1>4, <1>5, <1>6
<1>12. \A i \in 1..(a - 1) : k[i] = h[(p + 1) + i]
  <2> SUFFICES ASSUME NEW i \in 1..(a - 1) PROVE k[i] = h[(p + 1) + i]
    OBVIOUS
  <2>1. i + 1 \in 1..a /\ p + (i + 1) = (p + 1) + i
    BY <1>4, <1>7
  <2> QED
    BY <1>4, <1>5, <1>6, <2>1
<1>13. \A m \in 1..p : m \in 1..(p + 1) /\ m \in 1..n /\ m < p + 1
  BY <1>4, <1>7
<1>14. \A i \in R : \E m \in 1..(p + 1) : h[m] = new(i)
  <2>1. p + 1 \in 1..(p + 1)
    BY <1>7
  <2> QED
    BY <1>5, <1>6, <1>9, <1>11, <1>13, <2>1
<1>15. ASSUME NEW i \in R, NEW j \in R, NEW x \in 1..n, NEW y \in 1..n,
              i < j, h[x] = new(i), h[y] = new(j)
       PROVE  x < y
  <2>1. CASE i \in Q /\ new(i) = out(i) /\ j \in Q /\ new(j) = out(j)
    BY <1>5, <1>15, <2>1
  <2>2. CASE i \in Q /\ new(i) = out(i) /\ j = l
    <3>1. PICK m \in 1..p : h[m] = out(i)
      BY <1>5, <1>6, <2>2
    <3>2. x = m
      BY <1>4, <1>10, <1>13, <1>15, <2>2, <3>1 DEF Distinct
    <3>3. y = p + 1
      BY <1>4, <1>7, <1>9, <1>10, <1>11, <1>15, <2>2 DEF Distinct
    <3> QED
      BY <1>13, <3>1, <3>2, <3>3
  <2>3. CASE i = l
    <3>1. j = l \/ j \in Q
      BY <1>9
    <3>2. l \in Nat
      <4>1. Len(results[c][t]) \in Nat
        BY <1>8, OneReturned
      <4> QED
        BY <1>6, <4>1
    <3> QED
      BY <1>9, <1>15, <2>3, <3>1, <3>2
  <2> QED
    BY <1>9, <2>1, <2>2, <2>3
<1>16. ASSUME NEW m \in 1..(p + 1), \A i \in R : new(i) # h[m]
       PROVE  n - m >= cap
  <2>1. m # p + 1
    BY <1>9, <1>11, <1>16
  <2>2. m \in 1..p
    BY <1>7, <2>1
  <2>3. \A i \in Q : out(i) # h[m]
    BY <1>9, <1>16
  <2> QED
    BY <1>5, <1>6, <2>2, <2>3
<1>17. /\ entry'[c][t].queue = k /\ entry'[c][t].capacity = cap
       /\ heard'[c][t] = h
  BY <1>1
<1>18. /\ Len(h) - Len(k) = p + 1 /\ Len(k) <= cap
       /\ DOMAIN k = 1..(a - 1)
  BY <1>2, <1>3, <1>4, <1>7
<1>19. QueueInOrder(c, t)'
  <2>1. \A i \in DOMAIN k : k[i] = h[(p + 1) + i]
    BY <1>12, <1>18
  <2>2. \A i, j \in R : \A x, y \in DOMAIN h :
            i < j /\ h[x] = new(i) /\ h[y] = new(j) => x < y
    BY <1>4, <1>15
  <2>3. \A m \in 1..(p + 1) :
            (\A i \in R : new(i) # h[m]) => Len(h) - m >= cap
    BY <1>3, <1>16
  <2>4. \A m \in 1..(p + 1) : Len(h) - m >= cap => m # Len(h)
    BY <1>2, <1>3, <1>4
  <2> QED
    BY <1>7, <1>14, <1>17, <1>18, <2>1, <2>2, <2>3, <2>4
       DEF QueueInOrder, R, new
<1> QED
  BY <1>17, <1>18, <1>19 DEF QueueInv

\* What is taken from the copy is newer than what was taken before.
LEMMA TakeCopy ==
    ASSUME CommTyped, NEW c \in Communicators, NEW t \in Tables,
           CopyInv(c, t), Communicators' = Communicators,
           local[c][t] # Nothing, sent' = sent,
           NEW ok, Returns(c, t, Result(local[c][t], ok, "local")),
           local'[c][t] = Nothing
    PROVE  CopyInv(c, t)'
<1>1. PICK id, res, l : /\ id = local[c][t] /\ res = Result(id, ok, "local")
                        /\ l = Len(results[c][t]) + 1
  OBVIOUS
<1>2. res.by = "local" /\ res.id = id /\ Returns(c, t, res)
  BY <1>1 DEF Result
<1> DEFINE Q == From(c, t, "local")
           out(i) == results[c][t][i].id
           R == From(c, t, "local")'
           new(i) == results'[c][t][i].id
<1>3. /\ l \in Nat /\ l \in R /\ new(l) = id
      /\ \A i \in R : i = l \/ (i \in Q /\ new(i) = out(i))
      /\ \A i \in Q : i \in R /\ i < l /\ ~(l < i) /\ new(i) = out(i)
  <2>1. PICK w : w = res.by
    OBVIOUS
  <2>2. /\ Len(results[c][t]) \in Nat
        /\ results'[c][t][Len(results[c][t]) + 1] = res
        /\ \A i \in From(c, t, w)' :
              i = Len(results[c][t]) + 1 \/ i \in From(c, t, w)
        /\ \A i \in From(c, t, w) :
              /\ i \in From(c, t, w)' /\ i \in 1..Len(results[c][t])
              /\ results'[c][t][i] = results[c][t][i]
        /\ Len(results[c][t]) + 1 \in From(c, t, w)'
    BY <1>2, <2>1, OneReturned
  <2>3. \A i \in 1..Len(results[c][t]) : i < l /\ ~(l < i)
    BY <1>1, <2>2
  <2> QED
    BY <1>1, <1>2, <2>1, <2>2, <2>3
<1>4. /\ id \in DOMAIN sent /\ sent[id].from = c
      /\ \A i \in Q : /\ out(i) \in DOMAIN sent /\ out(i) < id
                      /\ sent[out(i)].from = c
      /\ \A i, j \in Q : i < j => out(i) < out(j)
  BY <1>1 DEF CopyInv, CopiesInOrder
<1> HIDE DEF Q, R, out, new
<1>5. \A i \in R : new(i) \in DOMAIN sent /\ sent[new(i)].from = c
  BY <1>3, <1>4
<1>6. \A i, j \in R : i < j => new(i) < new(j)
  <2> SUFFICES ASSUME NEW i \in R, NEW j \in R, i < j PROVE new(i) < new(j)
    OBVIOUS
  <2>1. ASSUME i = l PROVE FALSE
    <3>1. l < j /\ l \in Nat
      BY <1>3, <2>1
    <3>2. j = l \/ j \in Q
      BY <1>3
    <3> QED
      BY <1>3, <3>1, <3>2
  <2>2. i \in Q /\ new(i) = out(i)
    BY <1>3, <2>1
  <2> QED
    BY <1>3, <1>4, <2>2
<1> QED
  BY <1>5, <1>6 DEF CopyInv, CopiesInOrder, R, new

LEMMA ReceiveKeeps ==
    ASSUME CommInv, NEW c \in Communicators \ gone, NEW t \in Tables,
           receive(c, t)
    PROVE  CommInv'
<1>1. /\ FromQueue(c, t) \/ FromLocal(c, t)
      /\ UNCHANGED <<world, sent, qos, pending, heard, gone>>
  BY DEF receive
<1>2. CommTyped /\ Communicators' = Communicators /\ Grown /\ EntryInv(c, t)
  BY <1>1 DEF CommInv, Communicators, Grown
<1>3. CASE FromQueue(c, t)
  <2>1. PICK id, ok, x :
            /\ id = Head(entry[c][t].queue)
            /\ ok = Understood(t, sent[id])
            /\ x = [entry[c][t] EXCEPT !.queue = Tail(@)]
    OBVIOUS
  <2>2. /\ entry[c][t].queue # << >>
        /\ entry' = [entry EXCEPT ![c] = [entry[c] EXCEPT ![t] = x]]
        /\ Returns(c, t, Result(id, ok, "queue"))
        /\ local' = local
    BY <1>2, <1>3, <2>1 DEF FromQueue, CommTyped
  <2>3. /\ x \in EntryType /\ x.queue = Tail(entry[c][t].queue)
        /\ x.open = entry[c][t].open /\ x.capacity = entry[c][t].capacity
    <3>1. entry[c][t] \in EntryType
      BY <1>2 DEF CommTyped
    <3>2. Tail(entry[c][t].queue) \in Seq(Nat)
      BY <2>2, <3>1, NatTail DEF EntryType
    <3> QED
      BY <2>1, <3>1, <3>2 DEF EntryType
  <2>4. /\ entry' \in [Communicators -> [Tables -> EntryType]]
        /\ entry'[c][t] = x
        /\ \A y \in Communicators, u \in Tables :
              y # c \/ u # t => entry'[y][u] = entry[y][u]
    BY <1>2, <2>2, <2>3 DEF CommTyped
  <2>5. /\ results' = [y \in Communicators |->
                          [u \in Tables |-> results'[y][u]]]
        /\ \A y \in Communicators, u \in Tables :
              /\ SomeSeq(results'[y][u])
              /\ y # c \/ u # t => results'[y][u] = results[y][u]
    BY <1>2, <2>2, OneReturned
  <2>6. CommTyped'
    BY <1>1, <1>2, <2>2, <2>4, <2>5, WritersStay DEF CommTyped
  <2>7. EntryInv(c, t)'
    <3>1. WireInv(c, t)'
      BY <1>1, <1>2, <2>3, <2>4, SameWire DEF EntryInv
    <3>2. QueueInv(c, t)'
      BY <1>1, <1>2, <2>1, <2>2, <2>3, <2>4, TakeQueue
    <3>3. CopyInv(c, t)'
      <4>1. Result(id, ok, "queue").by # "local"
        BY DEF Result
      <4>2. SameReturns(c, t, "local")
        BY <1>2, <2>2, <4>1, OtherWay
      <4> QED
        BY <1>1, <1>2, <2>2, <4>2, SameCopies DEF EntryInv
    <3> QED
      BY <3>1, <3>2, <3>3 DEF EntryInv
  <2>8. ASSUME NEW y \in Communicators \ gone, NEW u \in Tables,
               y # c \/ u # t
        PROVE  EntryInv(y, u)'
    BY <1>1, <1>2, <2>2, <2>4, <2>5, <2>8, SameEntry DEF CommInv
  <2> QED
    BY <1>1, <1>2, <2>6, <2>7, <2>8 DEF CommInv
<1>4. CASE FromLocal(c, t)
  <2>1. /\ entry' = Opened(c, t) \/ entry' = entry
        /\ \/ /\ local[c][t] # Nothing
              /\ Returns(c, t, Result(local[c][t], TRUE, "local"))
              /\ local' = [local EXCEPT ![c][t] = Nothing]
           \/ results' = results /\ local' = local
    BY <1>4 DEF FromLocal
  <2>2. /\ entry' \in [Communicators -> [Tables -> EntryType]]
        /\ \A y \in Communicators, u \in Tables :
              entry[y][u].open => entry'[y][u].open
    <3>1. CASE entry' = entry
      BY <1>2, <3>1 DEF CommTyped
    <3>2. CASE entry' = Opened(c, t)
      <4>1. /\ entry' \in [Communicators -> [Tables -> EntryType]]
            /\ \A d \in Communicators, u \in Tables :
                  d # c \/ u # t => entry'[d][u] = entry[d][u]
            /\ entry'[c][t].open
        BY <1>2, <3>2, OpenedIs
      <4> QED
        BY <4>1
    <3> QED
      BY <2>1, <3>1, <3>2
  <2>3. /\ results' = [y \in Communicators |->
                          [u \in Tables |-> results'[y][u]]]
        /\ \A y \in Communicators, u \in Tables :
              SomeSeq(results'[y][u]) /\ SameReturns(y, u, "queue")
        /\ \A y \in Communicators, u \in Tables :
              y # c \/ u # t => results'[y][u] = results[y][u]
    <3>1. CASE results' = results
      BY <1>2, <3>1, NoReturn DEF CommTyped
    <3>2. CASE Returns(c, t, Result(local[c][t], TRUE, "local"))
      <4>1. PICK r : r = Result(local[c][t], TRUE, "local")
        OBVIOUS
      <4>2. r.by # "queue" /\ Returns(c, t, r)
        BY <3>2, <4>1 DEF Result
      <4>3. /\ results' = [y \in Communicators |->
                              [u \in Tables |-> results'[y][u]]]
            /\ \A y \in Communicators, u \in Tables :
                  /\ SomeSeq(results'[y][u])
                  /\ y # c \/ u # t => results'[y][u] = results[y][u]
        BY <1>2, <4>2, OneReturned
      <4>4. SameReturns(c, t, "queue")
        BY <1>2, <4>2, OtherWay
      <4>5. \A y \in Communicators, u \in Tables : SameReturns(y, u, "queue")
        BY <4>3, <4>4, NoReturn
      <4> QED
        BY <4>3, <4>5
    <3> QED
      BY <2>1, <3>1, <3>2
  <2>4. /\ local' \in [Communicators -> [Tables -> Nat]]
        /\ \A y \in Communicators, u \in Tables :
              y # c \/ u # t => local'[y][u] = local[y][u]
    <3>1. local \in [Communicators -> [Tables -> Nat]]
      BY <1>2 DEF CommTyped
    <3>2. \/ local' = local
          \/ local' = [local EXCEPT ![c] = [local[c] EXCEPT ![t] = 0]]
      BY <2>1, <3>1 DEF Nothing
    <3>3. [local[c] EXCEPT ![t] = 0] \in [Tables -> Nat]
      BY <3>1
    <3>4. CASE local' = local
      BY <3>1, <3>4
    <3>5. CASE local' = [local EXCEPT ![c] = [local[c] EXCEPT ![t] = 0]]
      BY <3>1, <3>3, <3>5
    <3> QED
      BY <3>2, <3>4, <3>5
  <2>5. CommTyped'
    BY <1>1, <1>2, <2>2, <2>3, <2>4, WritersStay DEF CommTyped
  <2>6. ASSUME NEW y \in Communicators \ gone, NEW u \in Tables
        PROVE  EntryInv(y, u)'
    <3>1. EntryInv(y, u)
      BY DEF CommInv
    <3>2. WireInv(y, u)'
      BY <1>1, <1>2, <2>2, <3>1, SameWire DEF EntryInv
    <3>3. SameReturns(y, u, "queue") /\ heard'[y][u] = heard[y][u]
      BY <1>1, <2>3
    <3>4. QueueInv(y, u)'
      <4>1. CASE entry' = entry
        BY <3>1, <3>3, <4>1, SameQueue DEF EntryInv
      <4>2. CASE entry' = Opened(c, t)
        BY <1>2, <3>1, <3>3, <4>2, OpenedQueue
      <4> QED
        BY <2>1, <4>1, <4>2
    <3>5. CopyInv(y, u)'
      <4>1. CASE results' = results /\ local' = local
        BY <1>1, <1>2, <3>1, <4>1, NoReturn, SameCopies DEF EntryInv
      <4>2. CASE y # c \/ u # t
        BY <1>1, <1>2, <2>3, <2>4, <3>1, <4>2, NoReturn, SameCopies
           DEF EntryInv
      <4>3. CASE /\ y = c /\ u = t /\ local[c][t] # Nothing
                 /\ Returns(c, t, Result(local[c][t], TRUE, "local"))
                 /\ local' = [local EXCEPT ![c][t] = Nothing]
        <5>1. local'[c][t] = Nothing
          BY <1>2, <4>3 DEF CommTyped
        <5> QED
          BY <1>1, <1>2, <3>1, <4>3, <5>1, TakeCopy DEF EntryInv
      <4> QED
        BY <2>1, <4>1, <4>2, <4>3
    <3> QED
      BY <3>2, <3>4, <3>5 DEF EntryInv
  <2> QED
    BY <1>1, <1>2, <2>5, <2>6 DEF CommInv
<1> QED
  BY <1>1, <1>3, <1>4

-----------------------------------------------------------------------------
(* The rest, and the theorem.                                                *)

LEMMA OthersKeep ==
    ASSUME CommInv,
           UNCHANGED <<world, sent, entry, local, pending, heard, results,
                       gone>>,
           qos' = [c \in Communicators |-> qos'[c]],
           \A c \in Communicators : qos'[c].depth \in Int
    PROVE  CommInv'
<1>1. CommTyped /\ Communicators' = Communicators /\ Grown
  BY DEF CommInv, Communicators, Grown
<1>2. CommTyped'
  BY <1>1, WritersStay DEF CommTyped
<1>3. ASSUME NEW c \in Communicators \ gone, NEW t \in Tables
      PROVE  EntryInv(c, t)'
  BY <1>1, SameEntry DEF CommInv
<1> QED
  BY <1>1, <1>2, <1>3 DEF CommInv

LEMMA DestroyKeeps ==
    ASSUME CommInv, NEW c \in Communicators \ gone, Destroy(c)
    PROVE  CommInv'
<1>1. /\ gone' = gone \cup {c}
      /\ entry' = [entry EXCEPT ![c] = [t \in Tables |-> NoEntry]]
      /\ pending' = [pending EXCEPT ![c] =
                        [t \in Tables |-> [d \in Writers |-> << >>]]]
      /\ UNCHANGED <<world, sent, local, qos, heard, results>>
  BY DEF Destroy
<1>2. CommTyped /\ Communicators' = Communicators /\ Grown
  BY <1>1 DEF CommInv, Communicators, Grown
<1>3. NoEntry \in EntryType /\ << >> \in Seq(Nat)
  BY DEF NoEntry, EntryType
<1>4. /\ entry' \in [Communicators -> [Tables -> EntryType]]
      /\ pending' \in [Communicators ->
                         [Tables -> [Writers -> Seq(Nat)]]]
      /\ \A x \in Communicators : x # c => /\ entry'[x] = entry[x]
                                           /\ pending'[x] = pending[x]
  <2>1. [t \in Tables |-> NoEntry] \in [Tables -> EntryType]
    BY <1>3
  <2>2. [t \in Tables |-> [d \in Writers |-> << >>]]
            \in [Tables -> [Writers -> Seq(Nat)]]
    BY <1>3
  <2> QED
    BY <1>1, <1>2, <2>1, <2>2 DEF CommTyped
<1>5. CommTyped'
  BY <1>1, <1>2, <1>4, WritersStay DEF CommTyped
<1>6. ASSUME NEW x \in Communicators \ gone', NEW t \in Tables
      PROVE  EntryInv(x, t)'
  <2>1. x # c /\ x \in Communicators \ gone
    BY <1>1
  <2> QED
    BY <1>1, <1>2, <1>4, <2>1, SameEntry DEF CommInv
<1> QED
  BY <1>2, <1>5, <1>6 DEF CommInv

LEMMA CommInitially == CommunicatorInit => CommInv
<1> SUFFICES ASSUME CommunicatorInit PROVE CommInv
  OBVIOUS
<1>1. /\ world \in Worlds /\ sent = << >>
      /\ entry = [c \in Communicators |-> [t \in Tables |-> NoEntry]]
      /\ local = [c \in Communicators |-> [t \in Tables |-> 0]]
      /\ qos = [c \in Communicators |-> world.qos[c]]
      /\ pending = [c \in Communicators |-> [t \in Tables |->
                       [d \in Writers |-> << >>]]]
      /\ heard = [c \in Communicators |-> [t \in Tables |-> << >>]]
      /\ results = [c \in Communicators |-> [t \in Tables |-> << >>]]
  BY DEF CommunicatorInit, PerTable, Nothing
<1>2. NoEntry \in EntryType /\ << >> \in Seq(Nat) /\ SomeSeq(<< >>)
      /\ DOMAIN << >> = {} /\ Len(<< >>) = 0
  BY DEF NoEntry, EntryType, SomeSeq
<1>3. \A c \in Communicators : qos[c].depth \in Int
  BY <1>1, CommunicatorAssumption DEF Communicators, WorldIsFit
<1>4. CommTyped
  <2>1. /\ entry \in [Communicators -> [Tables -> EntryType]]
        /\ local \in [Communicators -> [Tables -> Nat]]
        /\ heard \in [Communicators -> [Tables -> Seq(Nat)]]
    BY <1>1, <1>2
  <2>2. pending \in [Communicators -> [Tables -> [Writers -> Seq(Nat)]]]
    BY <1>1, <1>2
  <2>3. /\ results = [c \in Communicators |->
                         [t \in Tables |-> results[c][t]]]
        /\ \A c \in Communicators, t \in Tables : SomeSeq(results[c][t])
        /\ qos = [c \in Communicators |-> qos[c]]
    BY <1>1, <1>2
  <2> QED
    BY <1>1, <1>2, <1>3, <2>1, <2>2, <2>3 DEF CommTyped
<1>5. ASSUME NEW c \in Communicators, NEW t \in Tables
      PROVE  EntryInv(c, t)
  <2>1. /\ heard[c][t] = << >> /\ results[c][t] = << >>
        /\ local[c][t] = Nothing /\ entry[c][t] = NoEntry
        /\ \A d \in Writers : pending[c][t][d] = << >>
    BY <1>1 DEF Nothing
  <2>2. \A way : From(c, t, way) = {}
    BY <1>2, <2>1 DEF From
  <2>3. WireInv(c, t)
    BY <1>2, <2>1 DEF WireInv, Distinct
  <2>4. CopyInv(c, t)
    BY <2>1, <2>2 DEF CopyInv, CopiesInOrder
  <2>5. entry[c][t].queue = << >> /\ entry[c][t].capacity = 32
    BY <2>1 DEF NoEntry
  <2>6. QueueInv(c, t)
    <3>1. 1..(0 - 0) = {} /\ 0 - 0 >= 0
      OBVIOUS
    <3> QED
      BY <1>2, <2>1, <2>2, <2>5, <3>1 DEF QueueInv, QueueInOrder
  <2> QED
    BY <2>3, <2>4, <2>6 DEF EntryInv
<1> QED
  BY <1>4, <1>5 DEF CommInv

LEMMA CommStep ==
    ASSUME CommInv, [CommunicatorNext]_commVars
    PROVE  CommInv'
<1>1. /\ CommTyped /\ world.uses \subseteq Tables
      /\ \A p \in world.profiles : p.depth \in Int
      /\ qos = [c \in Communicators |-> qos[c]]
      /\ \A c \in Communicators : qos[c].depth \in Int
  BY CommunicatorAssumption DEF CommInv, CommTyped, WorldIsFit
<1>2. CASE qos' = qos /\ UNCHANGED <<world, sent, entry, local, pending,
                                     heard, results, gone>>
  BY <1>1, <1>2, OthersKeep
<1>3. ASSUME NEW c \in Communicators \ gone, setTopicQos(c)
      PROVE  CommInv'
  <2>1. PICK p \in world.profiles : qos' = [qos EXCEPT ![c] = p]
    BY <1>3 DEF setTopicQos
  <2>2. UNCHANGED <<world, sent, entry, local, pending, heard, results, gone>>
    BY <1>3 DEF setTopicQos
  <2>3. /\ qos' = [d \in Communicators |-> qos'[d]]
        /\ \A d \in Communicators : qos'[d].depth \in Int
    BY <1>1, <2>1
  <2> QED
    BY <2>2, <2>3, OthersKeep
<1>4. ASSUME NEW c \in Communicators \ gone, NEW t \in world.uses,
             \/ \E fields \in world.says[t] : send(c, t, fields)
             \/ receive(c, t)
             \/ \E d \in Writers : Deliver(c, t, d) \/ Lose(c, t, d)
      PROVE  CommInv'
  BY <1>1, <1>4, SendKeeps, ReceiveKeeps, DeliverKeeps, LoseKeeps
<1>5. CASE publish \/ decode
  <2>1. qos' = qos /\ UNCHANGED <<world, sent, entry, local, pending, heard,
                                  results, gone>>
    BY <1>5 DEF publish, decode
  <2> QED
    BY <1>2, <2>1
<1>6. CASE UNCHANGED commVars
  BY <1>2, <1>6 DEF commVars
<1> QED
  BY <1>3, <1>4, <1>5, <1>6, DestroyKeeps DEF CommunicatorNext

(* What receive() and receiveDTO() hand out of a topic's queue was heard,    *)
(* comes once and in the order in which it was heard, and only what as many  *)
(* newer messages as the queue holds have displaced is missing; what they    *)
(* hand out of the copy is the communicator's own, newer each time           *)
(* (communication.cpp).                                                      *)
THEOREM NewestInOrderTheorem == CommunicatorSpec => []NewestInOrder
<1>1. CommInv => NewestInOrder
  BY DEF CommInv, EntryInv, QueueInv, CopyInv, NewestInOrder
<1> QED
  BY <1>1, CommInitially, CommStep, PTL DEF CommunicatorSpec

-----------------------------------------------------------------------------
(* The types: what is left of a communicator that has been destroyed, and    *)
(* that whatever was returned came one of the two ways.                     *)

\* What has been heard, copied and returned was sent.
WasSent(c, t) ==
    /\ \A i \in DOMAIN heard[c][t] : heard[c][t][i] \in DOMAIN sent
    /\ local[c][t] \in {Nothing} \cup DOMAIN sent
    /\ \A i \in DOMAIN results[c][t] : results[c][t][i].id \in DOMAIN sent

GoneInv ==
    /\ gone \subseteq Communicators
    /\ typed.at \in {"idle", "wire", "done"}
    /\ \A c \in Communicators, t \in Tables :
          \A i \in DOMAIN results[c][t] :
             results[c][t][i].by \in {"queue", "local"}
    /\ \A c \in gone, t \in Tables :
          /\ entry[c][t] = NoEntry /\ WasSent(c, t)
          /\ \A d \in Writers : pending[c][t][d] = << >>

\* A step of c leaves the others alone, but for what is on its way to them.
LeavesOthers(c) ==
    /\ Communicators' = Communicators /\ gone' = gone /\ typed' = typed /\ Grown
    /\ \A x \in Communicators, u \in Tables : x # c =>
          /\ entry'[x][u] = entry[x][u] /\ heard'[x][u] = heard[x][u]
          /\ local'[x][u] = local[x][u] /\ results'[x][u] = results[x][u]
          /\ ~entry[x][u].open => pending'[x][u] = pending[x][u]

LEMMA PresentWasSent ==
    ASSUME CommInv, GoneInv, NEW c \in Communicators \ gone, NEW t \in Tables
    PROVE  WasSent(c, t)
<1>1. EntryInv(c, t)
  BY DEF CommInv
<1>2. /\ \A i \in DOMAIN heard[c][t] : heard[c][t][i] \in DOMAIN sent
      /\ local[c][t] \in {Nothing} \cup DOMAIN sent
  BY <1>1 DEF EntryInv, WireInv, CopyInv
<1>3. \A i \in From(c, t, "local") : results[c][t][i].id \in DOMAIN sent
  BY <1>1 DEF EntryInv, CopyInv
<1>4. ASSUME NEW i \in From(c, t, "queue")
      PROVE  results[c][t][i].id \in DOMAIN sent
  <2>1. PICK h, q, p : /\ h = heard[c][t] /\ q = entry[c][t].queue
                       /\ p = Len(h) - Len(q)
    OBVIOUS
  <2>2. h \in Seq(Nat) /\ q \in Seq(Nat)
    <3>1. entry[c][t] \in EntryType /\ h \in Seq(Nat)
      BY <2>1 DEF CommInv, CommTyped
    <3> QED
      BY <2>1, <3>1 DEF EntryType
  <2>3. Len(h) \in Nat /\ Len(q) \in Nat /\ DOMAIN h = 1..Len(h)
    BY <2>2
  <2>4. \E m \in 1..p : h[m] = results[c][t][i].id
    BY <1>1, <2>1 DEF EntryInv, QueueInv, QueueInOrder
  <2>5. \A m \in 1..p : m \in DOMAIN h
    <3>1. PICK n, a : n = Len(h) /\ a = Len(q)
      OBVIOUS
    <3>2. n \in Nat /\ a \in Nat /\ p = n - a /\ DOMAIN h = 1..n
      BY <2>1, <2>3, <3>1
    <3> QED
      BY <3>2
  <2> QED
    BY <1>2, <2>1, <2>4, <2>5
<1>5. \A i \in DOMAIN results[c][t] :
          i \in From(c, t, "queue") \/ i \in From(c, t, "local")
  BY DEF GoneInv, From
<1> QED
  BY <1>2, <1>3, <1>4, <1>5 DEF WasSent

LEMMA SendLeaves ==
    ASSUME CommInv, NEW c \in Communicators \ gone, NEW t \in Tables,
           NEW fields, send(c, t, fields)
    PROVE  LeavesOthers(c) /\ results' = results
<1>1. PICK m, e : m = Message(c, t, fields) /\ e = Opened(c, t)
  OBVIOUS
<1>2. /\ sent' = Append(sent, m)
      /\ local' = IF world.fallback[c] THEN [local EXCEPT ![c][t] = m.id]
                  ELSE local
      /\ entry' \in {entry, e}
      /\ pending' \in {pending, Published(m, e)}
      /\ UNCHANGED <<world, heard, results, gone, typed>>
  BY <1>1 DEF send
<1>3. CommTyped /\ Communicators' = Communicators
  BY <1>2 DEF CommInv, Communicators
<1>4. Grown
  BY <1>2, <1>3, SentGrows
<1>5. \A x \in Communicators, u \in Tables : x # c => e[x][u] = entry[x][u]
  BY <1>1, <1>3, OpenedIs
<1>6. \A x \in Communicators, u \in Tables : x # c =>
          local'[x][u] = local[x][u]
  BY <1>2, <1>3 DEF CommTyped
<1>7. ASSUME NEW x \in Communicators, NEW u \in Tables, x # c,
             ~entry[x][u].open
      PROVE  pending'[x][u] = pending[x][u]
  <2>1. ~e[x][u].open
    BY <1>5, <1>7
  <2>2. CASE pending' = Published(m, e)
    BY <2>1, <2>2 DEF Published
  <2> QED
    BY <1>2, <2>2
<1> QED
  BY <1>2, <1>3, <1>4, <1>5, <1>6, <1>7 DEF LeavesOthers

LEMMA WireLeaves ==
    ASSUME CommInv, NEW c \in Communicators \ gone, NEW t \in Tables,
           NEW d \in Writers, Deliver(c, t, d) \/ Lose(c, t, d)
    PROVE  LeavesOthers(c) /\ results' = results
<1>1. PICK q, h : /\ q = Kept(entry[c][t].queue, Head(pending[c][t][d]),
                               entry[c][t].capacity)
                  /\ h = Append(heard[c][t], Head(pending[c][t][d]))
  OBVIOUS
<1>2. /\ pending[c][t][d] # << >> /\ Taken(c, t, d)
      /\ \/ entry' = [entry EXCEPT ![c][t].queue = q]
         \/ entry' = entry
      /\ \/ heard' = [heard EXCEPT ![c][t] = h]
         \/ heard' = heard
      /\ UNCHANGED <<world, sent, local, results, gone, typed>>
  BY <1>1 DEF Deliver, Lose, Taken
<1>3. CommTyped /\ Communicators' = Communicators /\ Grown
  BY <1>2 DEF CommInv, Communicators, Grown
<1>4. \A x \in Communicators, u \in Tables : x # c =>
          pending'[x][u] = pending[x][u]
  BY <1>2, <1>3, TakenTyped
<1>5. \A x \in Communicators, u \in Tables : x # c =>
          entry'[x][u] = entry[x][u] /\ heard'[x][u] = heard[x][u]
  BY <1>2, <1>3 DEF CommTyped
<1> QED
  BY <1>2, <1>3, <1>4, <1>5 DEF LeavesOthers

LEMMA ReceiveLeaves ==
    ASSUME CommInv, NEW c \in Communicators \ gone, NEW t \in Tables,
           receive(c, t)
    PROVE  /\ LeavesOthers(c)
           /\ \/ results' = results
              \/ \E id, ok, way : /\ way \in {"queue", "local"}
                                  /\ Returns(c, t, Result(id, ok, way))
<1>1. /\ FromQueue(c, t) \/ FromLocal(c, t)
      /\ UNCHANGED <<world, sent, pending, heard, gone, typed>>
  BY DEF receive
<1>2. CommTyped /\ Communicators' = Communicators /\ Grown
  BY <1>1 DEF CommInv, Communicators, Grown
<1>3. \/ results' = results
      \/ \E id, ok, way : /\ way \in {"queue", "local"}
                          /\ Returns(c, t, Result(id, ok, way))
  BY <1>1 DEF FromQueue, FromLocal
<1>4. \A x \in Communicators, u \in Tables : x # c =>
          results'[x][u] = results[x][u]
  BY <1>2, <1>3, OneReturned
<1>5. \A x \in Communicators, u \in Tables : x # c =>
          entry'[x][u] = entry[x][u]
  <2>1. PICK q : q = Tail(entry[c][t].queue)
    OBVIOUS
  <2>2. \/ entry' = [entry EXCEPT ![c][t].queue = q]
        \/ entry' = Opened(c, t)
        \/ entry' = entry
    BY <1>1, <2>1 DEF FromQueue, FromLocal
  <2>3. CASE entry' = [entry EXCEPT ![c][t].queue = q]
    BY <1>2, <2>3 DEF CommTyped
  <2>4. CASE entry' = Opened(c, t)
    BY <1>2, <2>4, OpenedIs
  <2> QED
    BY <2>2, <2>3, <2>4
<1>6. \A x \in Communicators, u \in Tables : x # c =>
          local'[x][u] = local[x][u]
  <2>1. local' = local \/ local' = [local EXCEPT ![c][t] = Nothing]
    BY <1>1 DEF FromQueue, FromLocal
  <2> QED
    BY <1>2, <2>1 DEF CommTyped
<1> QED
  BY <1>1, <1>2, <1>3, <1>4, <1>5, <1>6 DEF LeavesOthers

LEMMA LeftAlone ==
    ASSUME GoneInv, NEW c \in Communicators \ gone, LeavesOthers(c),
           \A x \in Communicators, u \in Tables :
              \A i \in DOMAIN results'[x][u] :
                 results'[x][u][i].by \in {"queue", "local"}
    PROVE  GoneInv'
<1>1. ASSUME NEW x \in gone, NEW u \in Tables
      PROVE  /\ entry'[x][u] = NoEntry /\ WasSent(x, u)'
             /\ \A d \in Writers : pending'[x][u][d] = << >>
  <2>1. /\ x \in Communicators /\ x # c /\ entry[x][u] = NoEntry
        /\ WasSent(x, u)
        /\ \A d \in Writers : pending[x][u][d] = << >>
    BY DEF GoneInv
  <2>2. ~entry[x][u].open
    BY <2>1 DEF NoEntry
  <2>3. /\ entry'[x][u] = entry[x][u] /\ heard'[x][u] = heard[x][u]
        /\ local'[x][u] = local[x][u] /\ results'[x][u] = results[x][u]
        /\ pending'[x][u] = pending[x][u]
        /\ DOMAIN sent \subseteq DOMAIN sent'
    BY <2>1, <2>2 DEF LeavesOthers, Grown
  <2>4. WasSent(x, u)'
    BY <2>1, <2>3 DEF WasSent
  <2> QED
    BY <2>1, <2>3, <2>4
<1>2. Communicators' = Communicators /\ gone' = gone /\ typed' = typed
  BY DEF LeavesOthers
<1> QED
  BY <1>1, <1>2, WritersStay DEF GoneInv

LEMMA GoneStep ==
    ASSUME CommInv, GoneInv, [CommunicatorNext]_commVars
    PROVE  GoneInv'
<1>1. /\ world.uses \subseteq Tables /\ CommTyped
      /\ \A x \in Communicators, u \in Tables :
            \A i \in DOMAIN results[x][u] :
               results[x][u][i].by \in {"queue", "local"}
  BY CommunicatorAssumption DEF CommInv, CommTyped, WorldIsFit, GoneInv
<1>2. ASSUME NEW c \in Communicators \ gone, LeavesOthers(c),
             results' = results
      PROVE  GoneInv'
  BY <1>1, <1>2, LeftAlone
<1>3. ASSUME NEW c \in Communicators \ gone, NEW t \in Tables, receive(c, t)
      PROVE  GoneInv'
  <2>1. LeavesOthers(c)
    BY <1>3, ReceiveLeaves
  <2>2. ASSUME NEW id, NEW ok, NEW way \in {"queue", "local"},
               Returns(c, t, Result(id, ok, way))
        PROVE  GoneInv'
    <3>1. PICK r, s : r = Result(id, ok, way) /\ s = results[c][t]
      OBVIOUS
    <3>2. r.by = way
      BY <3>1 DEF Result
    <3>3. /\ Returns(c, t, r) /\ Communicators' = Communicators
      BY <2>1, <2>2, <3>1 DEF LeavesOthers
    <3>4. /\ results' = [results EXCEPT ![c] = [results[c] EXCEPT ![t] =
                            Append(s, r)]]
          /\ results = [x \in Communicators |->
                           [u \in Tables |-> results[x][u]]]
          /\ SomeSeq(s)
      BY <1>1, <3>1, <3>3 DEF Returns, CommTyped
    <3>5. \A i \in DOMAIN Append(s, r) :
              Append(s, r)[i].by \in {"queue", "local"}
      <4>1. /\ Len(s) \in Nat /\ DOMAIN s = 1..Len(s)
            /\ DOMAIN Append(s, r) = 1..(Len(s) + 1)
            /\ \A i \in 1..Len(s) : Append(s, r)[i] = s[i]
            /\ Append(s, r)[Len(s) + 1] = r
        BY <3>4, SomeAppend
      <4>2. \A i \in 1..(Len(s) + 1) : i \in 1..Len(s) \/ i = Len(s) + 1
        BY <4>1
      <4>3. \A i \in 1..Len(s) : s[i].by \in {"queue", "local"}
        BY <1>1, <3>1, <4>1
      <4> QED
        BY <3>2, <4>1, <4>2, <4>3
    <3>6. PICK g : g = Append(s, r)
      OBVIOUS
    <3>7. \A x \in Communicators, u \in Tables :
              \/ results'[x][u] = g
              \/ results'[x][u] = results[x][u]
      BY <3>4, <3>6
    <3>8. \A x \in Communicators, u \in Tables :
              \A i \in DOMAIN results'[x][u] :
                 results'[x][u][i].by \in {"queue", "local"}
      BY <1>1, <3>5, <3>6, <3>7
    <3> QED
      BY <2>1, <3>8, LeftAlone
  <2> QED
    BY <1>2, <1>3, <2>1, <2>2, ReceiveLeaves
<1>4. ASSUME NEW c \in Communicators \ gone, NEW t \in world.uses,
             \/ \E fields \in world.says[t] : send(c, t, fields)
             \/ receive(c, t)
             \/ \E d \in Writers : Deliver(c, t, d) \/ Lose(c, t, d)
      PROVE  GoneInv'
  BY <1>1, <1>2, <1>3, <1>4, SendLeaves, WireLeaves
<1>5. ASSUME NEW c \in Communicators \ gone, setTopicQos(c)
      PROVE  GoneInv'
  <2>1. LeavesOthers(c) /\ results' = results
    BY <1>5 DEF setTopicQos, LeavesOthers, Grown, Communicators
  <2> QED
    BY <1>2, <2>1
<1>6. ASSUME NEW c \in Communicators \ gone, Destroy(c)
      PROVE  GoneInv'
  <2>1. /\ gone' = gone \cup {c} /\ Communicators' = Communicators
        /\ entry' = [entry EXCEPT ![c] = [t \in Tables |-> NoEntry]]
        /\ pending' = [pending EXCEPT ![c] =
                          [t \in Tables |-> [d \in Writers |-> << >>]]]
        /\ UNCHANGED <<sent, local, heard, results, typed>>
    BY <1>6 DEF Destroy, Communicators
  <2>2. ASSUME NEW x \in gone', NEW t \in Tables
        PROVE  /\ entry'[x][t] = NoEntry /\ WasSent(x, t)'
               /\ \A d \in Writers : pending'[x][t][d] = << >>
    <3>1. WasSent(x, t)
      BY <2>1, PresentWasSent DEF GoneInv
    <3>2. WasSent(x, t)'
      BY <2>1, <3>1 DEF WasSent
    <3>3. CASE x = c
      BY <1>1, <2>1, <3>2, <3>3 DEF CommTyped
    <3>4. CASE x # c
      <4>1. x \in gone /\ x \in Communicators
        BY <2>1, <3>4 DEF GoneInv
      <4>2. entry'[x] = entry[x] /\ pending'[x] = pending[x]
        BY <1>1, <2>1, <3>4, <4>1 DEF CommTyped
      <4> QED
        BY <3>2, <4>1, <4>2 DEF GoneInv
    <3> QED
      BY <3>3, <3>4
  <2> QED
    BY <2>1, <2>2, WritersStay DEF GoneInv
<1>7. CASE publish \/ decode \/ UNCHANGED commVars
  <2>1. /\ UNCHANGED <<world, sent, entry, local, pending, heard, results,
                       gone>>
        /\ typed'.at \in {"idle", "wire", "done"}
    BY <1>7 DEF publish, decode, commVars, GoneInv
  <2>2. Communicators' = Communicators
    BY <2>1 DEF Communicators
  <2> QED
    BY <2>1, <2>2, WritersStay DEF GoneInv, WasSent
<1> QED
  BY <1>4, <1>5, <1>6, <1>7 DEF CommunicatorNext

LEMMA GoneTypes == CommInv /\ GoneInv => CommunicatorTypeOK
<1> SUFFICES ASSUME CommInv, GoneInv PROVE CommunicatorTypeOK
  OBVIOUS
<1>1. ASSUME NEW c \in Communicators, NEW t \in Tables
      PROVE  /\ entry[c][t].open \in BOOLEAN
             /\ entry[c][t].queue \in Seq(DOMAIN sent)
             /\ Len(entry[c][t].queue) <= entry[c][t].capacity
             /\ entry[c][t].queue # << >> => entry[c][t].open
             /\ local[c][t] \in {Nothing} \cup DOMAIN sent
             /\ heard[c][t] \in Seq(DOMAIN sent)
             /\ pending[c][t] \in [Writers -> Seq(DOMAIN sent)]
             /\ \A i \in DOMAIN results[c][t] :
                   results[c][t][i].id \in DOMAIN sent
  <2>1. /\ entry[c][t] \in EntryType /\ heard[c][t] \in Seq(Nat)
        /\ pending[c][t] \in [Writers -> Seq(Nat)]
    BY DEF CommInv, CommTyped
  <2>2. WasSent(c, t)
    BY PresentWasSent DEF GoneInv
  <2>3. ASSUME NEW s \in Seq(Nat), \A i \in DOMAIN s : s[i] \in DOMAIN sent
        PROVE  s \in Seq(DOMAIN sent)
    <3>1. s \in [1..Len(s) -> DOMAIN sent] /\ Len(s) \in Nat
      BY <2>3
    <3> QED
      BY <3>1, SeqDef
  <2>4. heard[c][t] \in Seq(DOMAIN sent)
    BY <2>1, <2>2, <2>3 DEF WasSent
  <2>5. CASE c \in gone
    <3>1. /\ entry[c][t].queue = << >> /\ entry[c][t].capacity = 32
          /\ \A d \in Writers : pending[c][t][d] = << >>
      BY <2>5 DEF GoneInv, NoEntry
    <3>2. << >> \in Seq(DOMAIN sent) /\ Len(<< >>) = 0
      OBVIOUS
    <3> QED
      BY <2>1, <2>2, <2>4, <3>1, <3>2 DEF WasSent, EntryType
  <2>6. CASE c \notin gone
    <3>1. EntryInv(c, t)
      BY <2>6 DEF CommInv
    <3>2. PICK h, q, p : /\ h = heard[c][t] /\ q = entry[c][t].queue
                         /\ p = Len(h) - Len(q)
      OBVIOUS
    <3>3. /\ q \in Seq(Nat) /\ Len(q) \in Nat /\ DOMAIN q = 1..Len(q)
          /\ Len(h) \in Nat /\ DOMAIN h = 1..Len(h)
      BY <2>1, <3>2 DEF EntryType
    <3>4. p >= 0 /\ \A i \in DOMAIN q : q[i] = h[p + i]
      BY <3>1, <3>2 DEF EntryInv, QueueInv, QueueInOrder
    <3>5. \A i \in DOMAIN q : p + i \in DOMAIN h
      <4>1. PICK n, a : n = Len(h) /\ a = Len(q)
        OBVIOUS
      <4>2. /\ n \in Nat /\ a \in Nat /\ p = n - a /\ p >= 0
            /\ DOMAIN h = 1..n /\ DOMAIN q = 1..a
        BY <3>2, <3>3, <3>4, <4>1
      <4> QED
        BY <4>2
    <3>6. q \in Seq(DOMAIN sent)
      BY <2>2, <2>3, <3>2, <3>3, <3>4, <3>5 DEF WasSent
    <3>7. ~entry[c][t].open => q = << >>
      <4>1. ~entry[c][t].open => h = << >>
        BY <3>1, <3>2 DEF EntryInv, WireInv
      <4>2. h = << >> => Len(q) = 0
        BY <3>2, <3>3, <3>4
      <4>3. Len(q) = 0 => q = << >>
        BY <3>3
      <4> QED
        BY <4>1, <4>2, <4>3
    <3>8. pending[c][t] \in [Writers -> Seq(DOMAIN sent)]
      <4>1. ASSUME NEW d \in Writers
            PROVE  pending[c][t][d] \in Seq(DOMAIN sent)
        <5>1. \A i \in DOMAIN pending[c][t][d] :
                  pending[c][t][d][i] \in DOMAIN sent
          BY <3>1 DEF EntryInv, WireInv
        <5> QED
          BY <2>1, <2>3, <5>1
      <4> QED
        BY <2>1, <4>1
    <3>9. Len(q) <= entry[c][t].capacity
      BY <3>1, <3>2 DEF EntryInv, QueueInv
    <3> QED
      BY <2>1, <2>2, <2>4, <3>2, <3>6, <3>7, <3>8, <3>9
         DEF WasSent, EntryType
  <2> QED
    BY <2>5, <2>6
<1> QED
  BY <1>1 DEF CommunicatorTypeOK, GoneInv

(* Types: queues within their capacities, and whatever they, the copies and  *)
(* the results hold was sent (communication.cpp).                           *)
THEOREM CommunicatorTypes == CommunicatorSpec => []CommunicatorTypeOK
<1>1. CommunicatorInit => GoneInv
  <2> SUFFICES ASSUME CommunicatorInit PROVE GoneInv
    OBVIOUS
  <2>1. /\ results = [c \in Communicators |-> [t \in Tables |-> << >>]]
        /\ gone = {} /\ typed.at = "idle"
    BY DEF CommunicatorInit, PerTable
  <2> QED
    BY <2>1 DEF GoneInv
<1> QED
  BY <1>1, CommInitially, CommStep, GoneStep, GoneTypes, PTL
     DEF CommunicatorSpec
=============================================================================
