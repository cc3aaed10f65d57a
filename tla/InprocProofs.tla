---------------------------- MODULE InprocProofs ----------------------------
(***************************************************************************)
(* What InprocChannel keeps while one thread allocates, proved for any      *)
(* capacity, publishers, subscriptions and size of a batch.                *)
(***************************************************************************)
EXTENDS InprocChannel, Integers, SequenceTheorems, FiniteSetTheorems, TLAPS

(* Without this a buffer can be lost (the run of two allocators shows it).  *)
OneAllocator == \A a, b \in Allocators : a = b

-----------------------------------------------------------------------------
(* The inductive invariant. *)

Acquiring == {"acquire_next", "acquire_cas"}
Positioned == {"enqueue_seq", "enqueue_cas"}
Claiming == {"enqueue_data", "enqueue_store"}
Releasing == {"release_load", "release_store", "release_cas"}
Taking == {"dequeue_store", "drain_store"}
Draining == {"drain_seq", "drain_store"}

\* Where the publishers and the worker may be.
RoleInv ==
    /\ \A t \in Publishers :
           /\ pc[t] \in {"idle", "held", "enqueue_load"} \cup Positioned
                        \cup Acquiring \cup Claiming \cup Releasing
           /\ pc[t] \in Acquiring => t \in Allocators /\ allocs < MaxAllocs
           /\ pc[t] \in Positioned => pos[t] <= enqueue_pos
    /\ pc[W] \in {"off", "check", "dequeue_seq", "drain_seq", "deliver"}
                 \cup Taking \cup Releasing

\* What the worker knows where it is, and that it ends before it is started.
WorkerInv ==
    /\ pc[W] \in {"dequeue_seq", "drain_seq"} => pos[W] = dequeue_pos
    /\ pc[W] \in Taking => dequeue_pos = pos[W] + 1
    /\ pc[W] \in {"off", "check"} \cup Draining => batch = <<>>
    /\ pc[W] \in {"off", "dequeue_seq", "dequeue_store"} \cup Draining
           => copied = {}
    /\ pc[W] = "deliver" => batch # <<>>
    /\ pc[W] = "dequeue_store" => Len(batch) < kBatch
    /\ pc[W] \in Draining \/ ctl = "join" => ~running
    /\ ctl # "join" /\ ~running => pc[W] = "off"

\* The positions whose cells the worker has given back.
Freed == IF pc[W] \in Taking THEN pos[W] ELSE dequeue_pos

Claims(t, p) == t \in Publishers /\ pc[t] \in Claiming /\ pos[t] = p

\* Each of the Capacity positions from Freed on has a cell, which is free,
\* filled, or claimed by one publisher that is about to fill it.
CellInv ==
    /\ enqueue_pos <= Freed + Capacity
    /\ \A p \in Freed..(Freed + Capacity - 1) :
           \/ p >= enqueue_pos /\ seq[Cell(p)] = p
           \/ p < enqueue_pos /\ seq[Cell(p)] = p + 1
           \/ p < enqueue_pos /\ seq[Cell(p)] = p /\ \E t : Claims(t, p)
    /\ \A t, p : Claims(t, p) =>
           /\ p \in dequeue_pos..(enqueue_pos - 1)
           /\ seq[Cell(p)] = p
           /\ pc[t] = "enqueue_store" => data[Cell(p)] = buf[t]
           /\ \A u : Claims(u, p) => u = t

\* The payload of a buffer that was claimed a position is the one at that
\* position in the order; the batch has the payloads that follow one another.
PayInv ==
    /\ Len(order) = enqueue_pos
    /\ \A t \in Publishers : buf[t] # None => filled[buf[t]] # 0
    /\ \A t, p : Claims(t, p) => filled[buf[t]] = order[p + 1]
    /\ \A p \in Stored : /\ data[Cell(p)] \in Nodes
                         /\ filled[data[Cell(p)]] = order[p + 1]
    /\ pc[W] \in Taking => filled[buf[W]] = order[pos[W] + 1]
    /\ Len(batch) <= Freed
    /\ \A k \in DOMAIN batch :
           filled[batch[k]] = order[Freed - Len(batch) + k]

Ones(list) == {list[k] : k \in DOMAIN list}
Hands == {buf[t] : t \in Threads} \ {None}
Queued == {data[Cell(p)] : p \in Stored}

Distinct(list) == \A j, k \in DOMAIN list : list[j] = list[k] => j = k

Partition(F, H, Q, B) ==
    /\ F \cap H = {} /\ F \cap Q = {} /\ F \cap B = {}
    /\ H \cap Q = {} /\ H \cap B = {} /\ Q \cap B = {}
    /\ Nodes = F \cup H \cup Q \cup B

\* No two threads, positions or places in the batch have the same buffer.
HoldInv ==
    /\ \A t, u \in Threads : buf[t] = buf[u] /\ buf[t] # None => t = u
    /\ \A p, q \in Stored : data[Cell(p)] = data[Cell(q)] => p = q
    /\ Distinct(batch)

\* The free list has the other buffers, with the one acquire() has read.
Listed(list) ==
    /\ Linked(list) /\ Distinct(list)
    /\ Partition(Ones(list), Hands, Queued, Ones(batch))
    /\ \A t \in Publishers : pc[t] \in Acquiring => head[t] \in Ones(list)

ListInv == \E list \in Lists : Listed(list)

\* What acquire() and release() know when they compare and swap.
LinkInv ==
    /\ \A t \in Publishers : pc[t] = "acquire_cas" => link[t] = next[head[t]]
    /\ \A t \in Threads : pc[t] = "release_cas" => next[buf[t]] = head[t]

\* What a handler was called with is what follows the first from messages,
\* and for the handlers that are called it reaches to what was delivered.
Follows(g, from) == /\ from + Len(g) <= Len(order)
                    /\ \A k \in DOMAIN g : g[k] = order[from + k]

Done == Freed - Len(batch)

UpTo(s) == \/ got[s] = <<>>
           \/ /\ Len(got[s]) <= Done
              /\ Follows(got[s], Done - Len(got[s]))

GotInv ==
    /\ \A s \in Subs : s \notin subscribed => got[s] = <<>>
    /\ \A s \in Subs : \E from \in Nat : Follows(got[s], from)
    /\ \A s \in copied : UpTo(s)
    /\ running \/ pc[W] \in {"dequeue_seq", "dequeue_store"} =>
           \A s \in handlers : UpTo(s)
    /\ ctl # "join" /\ ~running => \A s \in handlers : got[s] = <<>>
    /\ pc[W] \in {"deliver"} \cup Releasing /\ running =>
           \A s \in handlers \ copied : got[s] = <<>>

IInv == /\ TypeOK /\ RoleInv /\ WorkerInv /\ CellInv /\ PayInv
        /\ HoldInv /\ ListInv /\ LinkInv /\ GotInv

-----------------------------------------------------------------------------
(* Cells *)

\* The quotient and the remainder.
LEMMA Divided ==
    ASSUME NEW a \in Nat, NEW d \in Nat \ {0}
    PROVE  /\ a % d \in 0..(d - 1) /\ a \div d \in Nat
           /\ a = d * (a \div d) + (a % d)
OBVIOUS

\* A smaller multiple is smaller by the divisor at least.
LEMMA Multiples ==
    ASSUME NEW d \in Nat \ {0}, NEW q \in Nat, NEW p \in Nat, q < p
    PROVE  d * q + d <= d * p
<1>1. PICK e \in Nat : p = q + 1 + e
  <2>1. p - q - 1 \in Nat /\ p = q + 1 + (p - q - 1)
    OBVIOUS
  <2> QED BY <2>1
<1>2. d * p = d * q + d + d * e
  BY <1>1
<1>3. d * e \in Nat
  OBVIOUS
<1>4. d * q \in Nat
 OBVIOUS
<1> QED BY <1>2, <1>3, <1>4

\* There is one quotient and one remainder.
LEMMA Unique ==
    ASSUME NEW d \in Nat \ {0}, NEW q \in Nat, NEW p \in Nat,
           NEW r \in 0..(d - 1), NEW s \in 0..(d - 1), d * q + r = d * p + s
    PROVE  q = p /\ r = s
<1>0. d * q \in Nat /\ d * p \in Nat
  OBVIOUS
<1>1. ~(q < p)
  <2> SUFFICES ASSUME q < p PROVE FALSE
    OBVIOUS
  <2>1. d * q + d <= d * p
    BY Multiples
  <2> QED BY <2>1, <1>0
<1>2. ~(p < q)
  <2> SUFFICES ASSUME p < q PROVE FALSE
    OBVIOUS
  <2>1. d * p + d <= d * q
    BY Multiples
  <2> QED BY <2>1, <1>0
<1>3. q = p
 BY <1>1, <1>2
<1> QED BY <1>3, <1>0

LEMMA Rem ==
    ASSUME NEW d \in Nat \ {0}, NEW q \in Nat, NEW r \in 0..(d - 1),
           NEW a \in Nat, a = d * q + r
    PROVE  a % d = r /\ a \div d = q
<1>1. /\ a % d \in 0..(d - 1) /\ a \div d \in Nat
      /\ a = d * (a \div d) + (a % d)
  BY Divided
<1> QED BY <1>1, Unique

LEMMA CellIsNode == ASSUME NEW p \in Nat  PROVE Cell(p) \in Nodes
BY ChannelAssumption, Divided DEF Cell, Nodes

\* A cell comes round again after Capacity positions.
LEMMA SameCell == ASSUME NEW p \in Nat  PROVE Cell(p + Capacity) = Cell(p)
<1>1. /\ p % Capacity \in 0..(Capacity - 1) /\ p \div Capacity \in Nat
      /\ p = Capacity * (p \div Capacity) + (p % Capacity)
  BY ChannelAssumption, Divided
<1>2. PICK q, r : q = p \div Capacity /\ r = p % Capacity
  OBVIOUS
<1>3. /\ q + 1 \in Nat /\ r \in 0..(Capacity - 1) /\ p + Capacity \in Nat
      /\ p + Capacity = Capacity * (q + 1) + r
  BY <1>1, <1>2, ChannelAssumption
<1>4. (p + Capacity) % Capacity = r
  BY <1>3, Rem, ChannelAssumption
<1> QED  BY <1>2, <1>4 DEF Cell

\* Fewer than Capacity positions in a row have cells of their own.
LEMMA CellsApart ==
    ASSUME NEW p \in Nat, NEW q \in Nat, Cell(p) = Cell(q),
           p - q < Capacity, q - p < Capacity
    PROVE  p = q
<1>1. ASSUME NEW a \in Nat, NEW b \in Nat, a < b, b - a < Capacity,
             a % Capacity = b % Capacity
      PROVE  FALSE
  <2>1. /\ a % Capacity \in 0..(Capacity - 1) /\ a \div Capacity \in Nat
        /\ a = Capacity * (a \div Capacity) + (a % Capacity)
        /\ b % Capacity \in 0..(Capacity - 1) /\ b \div Capacity \in Nat
        /\ b = Capacity * (b \div Capacity) + (b % Capacity)
    BY ChannelAssumption, Divided
  <2>2. PICK c, d, r : c = a \div Capacity /\ d = b \div Capacity
                       /\ r = a % Capacity
    OBVIOUS
  <2>3. /\ c \in Nat /\ d \in Nat /\ r \in Nat
        /\ a = Capacity * c + r /\ b = Capacity * d + r
        /\ Capacity * c \in Nat /\ Capacity * d \in Nat
    BY <1>1, <2>1, <2>2, ChannelAssumption
  <2>4. ~(c < d)
    <3> SUFFICES ASSUME c < d PROVE FALSE
      OBVIOUS
    <3>1. Capacity * c + Capacity <= Capacity * d
      BY <2>3, Multiples, ChannelAssumption
    <3> QED  BY <3>1, <2>3, <1>1, ChannelAssumption
  <2>5. ~(d < c)
    <3> SUFFICES ASSUME d < c PROVE FALSE
      OBVIOUS
    <3>1. Capacity * d + Capacity <= Capacity * c
      BY <2>3, Multiples, ChannelAssumption
    <3> QED  BY <3>1, <2>3, <1>1, ChannelAssumption
  <2>6. c = d
    BY <2>3, <2>4, <2>5
  <2> QED  BY <2>3, <2>6, <1>1
<1>2. p % Capacity = q % Capacity
  BY DEF Cell
<1>3. ~(p < q)
  <2> SUFFICES ASSUME p < q PROVE FALSE
    OBVIOUS
  <2> QED  BY <1>1, <1>2
<1>4. ~(q < p)
  <2> SUFFICES ASSUME q < p PROVE FALSE
    OBVIOUS
  <2> QED  BY <1>1, <1>2
<1> QED  BY <1>3, <1>4

-----------------------------------------------------------------------------
(* Sequences and counting *)

\* What taking the first element of a sequence leaves.
LEMMA Beheaded ==
    ASSUME NEW S, NEW s \in Seq(S), s # <<>>
    PROVE  /\ Head(s) \in S /\ Tail(s) \in Seq(S)
           /\ Head(s) = s[1] /\ 1 \in DOMAIN s
           /\ Len(s) \in Nat \ {0} /\ Len(Tail(s)) = Len(s) - 1
           /\ DOMAIN s = 1..Len(s) /\ DOMAIN Tail(s) = 1..(Len(s) - 1)
           /\ \A i \in 1..(Len(s) - 1) : Tail(s)[i] = s[i + 1]
           /\ Ones(s) = Ones(Tail(s)) \cup {s[1]}
           /\ Distinct(s) => Distinct(Tail(s)) /\ s[1] \notin Ones(Tail(s))
<1> DEFINE r == Tail(s)
<1>1. /\ Head(s) \in S /\ r \in Seq(S)
      /\ Len(s) \in Nat \ {0} /\ Len(r) = Len(s) - 1
      /\ DOMAIN s = 1..Len(s) /\ DOMAIN r = 1..(Len(s) - 1)
      /\ Head(s) = s[1]
      /\ \A i \in 1..(Len(s) - 1) : r[i] = s[i + 1]
  OBVIOUS
<1> HIDE DEF r
<1>2. \A i \in DOMAIN r : i \in Nat /\ i + 1 \in DOMAIN s /\ r[i] = s[i + 1]
  BY <1>1
<1>3. \A i \in DOMAIN s : i = 1 \/ \E j \in DOMAIN r : s[i] = r[j]
  <2> SUFFICES ASSUME NEW i \in DOMAIN s, i # 1
               PROVE  i - 1 \in DOMAIN r /\ s[i] = r[i - 1]
    OBVIOUS
  <2> QED  BY <1>1
<1>4. Ones(s) = Ones(r) \cup {s[1]}
  <2>1. \A i \in DOMAIN s : s[i] \in Ones(r) \cup {s[1]}
    BY <1>1, <1>3 DEF Ones
  <2>2. \A i \in DOMAIN r : r[i] \in Ones(s)
    BY <1>2 DEF Ones
  <2>3. s[1] \in Ones(s)
    BY <1>1 DEF Ones
  <2> QED  BY <2>1, <2>2, <2>3 DEF Ones
<1>5. ASSUME Distinct(s)
      PROVE  Distinct(r) /\ s[1] \notin Ones(r)
  <2>1. Distinct(r)
    BY <1>1, <1>2, <1>5 DEF Distinct
  <2>2. \A i \in DOMAIN r : r[i] # s[1]
    BY <1>1, <1>2, <1>5 DEF Distinct
  <2> QED  BY <2>1, <2>2 DEF Ones
<1> QED  BY <1>1, <1>4, <1>5 DEF r

LEMMA Appended ==
    ASSUME NEW S, NEW s \in Seq(S), NEW x \in S
    PROVE  /\ Append(s, x) \in Seq(S) /\ Append(s, x) # <<>>
           /\ Len(Append(s, x)) = Len(s) + 1 /\ Len(s) \in Nat
           /\ DOMAIN s = 1..Len(s) /\ DOMAIN Append(s, x) = 1..(Len(s) + 1)
           /\ \A i \in 1..Len(s) : Append(s, x)[i] = s[i]
           /\ Append(s, x)[Len(s) + 1] = x
           /\ Ones(Append(s, x)) = Ones(s) \cup {x}
           /\ Distinct(s) /\ x \notin Ones(s) => Distinct(Append(s, x))
<1> DEFINE r == Append(s, x)
<1>1. /\ r \in Seq(S) /\ Len(r) = Len(s) + 1 /\ Len(s) \in Nat
      /\ DOMAIN s = 1..Len(s) /\ DOMAIN r = 1..(Len(s) + 1)
      /\ \A i \in 1..Len(s) : r[i] = s[i]
      /\ r[Len(s) + 1] = x /\ r # <<>>
  OBVIOUS
<1> HIDE DEF r
<1>2. \A i \in DOMAIN r : i = Len(s) + 1 \/ (i \in DOMAIN s /\ r[i] = s[i])
  BY <1>1
<1>3. Ones(r) = Ones(s) \cup {x}
  BY <1>1, <1>2 DEF Ones
<1>4. Distinct(s) /\ x \notin Ones(s) => Distinct(r)
  BY <1>1, <1>2 DEF Distinct, Ones
<1> QED  BY <1>1, <1>3, <1>4 DEF r

LEMMA Pushed ==
    ASSUME NEW S, NEW s \in Seq(S), NEW x \in S
    PROVE  LET r == <<x>> \o s IN
           /\ r \in Seq(S) /\ Len(r) = Len(s) + 1 /\ Len(s) \in Nat
           /\ DOMAIN s = 1..Len(s) /\ DOMAIN r = 1..(Len(s) + 1)
           /\ r[1] = x /\ r # <<>>
           /\ \A i \in 1..Len(s) : r[i + 1] = s[i]
           /\ Ones(r) = Ones(s) \cup {x}
           /\ Distinct(s) /\ x \notin Ones(s) => Distinct(r)
<1> DEFINE r == <<x>> \o s
<1>1. /\ r \in Seq(S) /\ Len(r) = Len(s) + 1 /\ Len(s) \in Nat
      /\ DOMAIN s = 1..Len(s) /\ DOMAIN r = 1..(Len(s) + 1)
      /\ r[1] = x /\ r # <<>>
      /\ \A i \in 1..Len(s) : r[i + 1] = s[i]
  OBVIOUS
<1> HIDE DEF r
<1>2. \A i \in DOMAIN r :
         i = 1 \/ (i - 1 \in DOMAIN s /\ r[i] = s[i - 1])
  <2> SUFFICES ASSUME NEW i \in DOMAIN r, i # 1
               PROVE  i - 1 \in DOMAIN s /\ r[i] = s[i - 1]
    OBVIOUS
  <2>1. i - 1 \in 1..Len(s) /\ (i - 1) + 1 = i
    BY <1>1
  <2> QED  BY <1>1, <2>1
<1>3. Ones(r) = Ones(s) \cup {x}
  <2>1. \A i \in DOMAIN r : r[i] \in Ones(s) \cup {x}
    BY <1>1, <1>2 DEF Ones
  <2>2. \A i \in DOMAIN s : i + 1 \in DOMAIN r /\ r[i + 1] = s[i]
    BY <1>1
  <2>3. \A i \in DOMAIN s : s[i] \in Ones(r)
    BY <2>2 DEF Ones
  <2>4. x \in Ones(r)
    BY <1>1 DEF Ones
  <2> QED  BY <2>1, <2>3, <2>4 DEF Ones
<1>4. ASSUME Distinct(s), x \notin Ones(s)
      PROVE  Distinct(r)
  <2> SUFFICES ASSUME NEW j \in DOMAIN r, NEW k \in DOMAIN r, r[j] = r[k]
               PROVE  j = k
    BY DEF Distinct
  <2>1. j = 1 => k = 1
    BY <1>1, <1>2, <1>4 DEF Ones
  <2>2. k = 1 => j = 1
    BY <1>1, <1>2, <1>4 DEF Ones
  <2>3. CASE j # 1 /\ k # 1
    <3>1. j - 1 = k - 1
      BY <1>2, <1>4, <2>3 DEF Distinct
    <3> QED  BY <1>1, <3>1
  <2> QED  BY <2>1, <2>2, <2>3
<1> QED  BY <1>1, <1>3, <1>4 DEF r

LEMMA NodesFinite == IsFiniteSet(Nodes) /\ Cardinality(Nodes) = Capacity
<1>1. Capacity \in Int /\ Capacity - 1 \in Int /\ 0 \in Int /\ Capacity > 0
  BY ChannelAssumption
<1>2. /\ IsFiniteSet(0..(Capacity - 1))
      /\ Cardinality(0..(Capacity - 1))
            = IF 0 > Capacity - 1 THEN 0 ELSE Capacity - 1 - 0 + 1
  BY <1>1, FS_Interval
<1> QED  BY <1>1, <1>2 DEF Nodes

\* A list of different nodes is no longer than the pool.
LEMMA ShortList ==
    ASSUME NEW list \in Seq(Nodes), Distinct(list)
    PROVE  list \in Lists /\ Len(list) \in 0..Capacity
<1>1. list \in [1..Len(list) -> Nodes] /\ Len(list) \in Nat
  OBVIOUS
<1>2. list \in Injection(1..Len(list), Nodes)
  BY <1>1 DEF Distinct, Injection, IsInjective
<1>3. Cardinality(1..Len(list)) <= Capacity
  BY <1>2, NodesFinite, FS_Injection
<1>4. Cardinality(1..Len(list)) = Len(list)
  <2>1. 1 \in Int /\ Len(list) \in Int
    BY <1>1
  <2>2. Cardinality(1..Len(list))
           = IF 1 > Len(list) THEN 0 ELSE Len(list) - 1 + 1
    BY <2>1, FS_Interval
  <2> QED  BY <1>1, <2>2
<1>5. Len(list) \in 0..Capacity
  BY <1>1, <1>3, <1>4, ChannelAssumption
<1> QED  BY <1>1, <1>5 DEF Lists

LEMMA ListIsSeq ==
    ASSUME NEW list \in Lists
    PROVE  /\ list \in Seq(Nodes) /\ Len(list) \in Nat
           /\ DOMAIN list = 1..Len(list)
<1>1. PICK n \in 0..Capacity : list \in [1..n -> Nodes]
  BY DEF Lists
<1>2. n \in Nat
  BY <1>1, ChannelAssumption
<1>3. list \in Seq(Nodes)
  BY <1>1, <1>2
<1> QED  BY <1>3

-----------------------------------------------------------------------------
(* What the invariant says of positions and buffers *)

LEMMA FreedType ==
    ASSUME TypeOK, WorkerInv
    PROVE  /\ Freed \in Nat /\ dequeue_pos \in Nat /\ enqueue_pos \in Nat
           /\ Freed <= dequeue_pos /\ dequeue_pos <= Freed + 1
           /\ dequeue_pos <= enqueue_pos
           /\ pc[W] \in Taking => Freed = pos[W] /\ dequeue_pos = Freed + 1
           /\ pc[W] \notin Taking => Freed = dequeue_pos
           /\ Capacity \in Nat \ {0}
<1>1. pos[W] \in Nat /\ dequeue_pos \in 0..enqueue_pos /\ enqueue_pos \in Nat
  BY DEF TypeOK, Threads, W
<1> QED  BY <1>1, ChannelAssumption DEF WorkerInv, Freed

LEMMA ClaimType ==
    ASSUME TypeOK, NEW t, NEW p, Claims(t, p)
    PROVE  /\ p \in Nat /\ t \in Threads /\ t # W /\ t \in Publishers
           /\ buf[t] \in Nodes /\ buf[t] # None
<1>1. t \in Threads /\ t # W /\ p = pos[t] /\ pc[t] \in Claiming
  BY ChannelAssumption DEF Claims, Threads, W
<1>2. pc[t] \notin EmptyHanded
  BY <1>1 DEF Claiming, EmptyHanded
<1> QED  BY <1>1, <1>2 DEF TypeOK, Index, Claims

\* The four places have different buffers.
LEMMA Apart ==
    ASSUME ListInv
    PROVE  /\ Hands \cap Queued = {} /\ Hands \cap Ones(batch) = {}
           /\ Queued \cap Ones(batch) = {}
           /\ Hands \subseteq Nodes /\ Queued \subseteq Nodes
           /\ Ones(batch) \subseteq Nodes
BY DEF ListInv, Listed, Partition

LEMMA InHands ==
    ASSUME NEW t \in Threads, buf[t] # None
    PROVE  buf[t] \in Hands
BY DEF Hands

\* Every position from Freed on that was claimed has a buffer of its own, so
\* a publisher with a buffer that has no position yet finds a free cell.
LEMMA Room ==
    ASSUME TypeOK, WorkerInv, CellInv, HoldInv, ListInv,
           NEW t \in Publishers, buf[t] # None, pc[t] \notin Claiming
    PROVE  enqueue_pos < Freed + Capacity
<1> DEFINE Has(p, i) == \/ p \in Stored /\ i = data[Cell(p)]
                        \/ \E u : Claims(u, p) /\ i = buf[u]
                        \/ pc[W] \in Taking /\ p = pos[W] /\ i = buf[W]
           S == Freed..(enqueue_pos - 1)
           T == Nodes \ {buf[t]}
<1>0. /\ Freed \in Nat /\ dequeue_pos \in Nat /\ enqueue_pos \in Nat
      /\ Freed <= dequeue_pos /\ dequeue_pos <= Freed + 1
      /\ dequeue_pos <= enqueue_pos
      /\ pc[W] \in Taking => Freed = pos[W] /\ dequeue_pos = Freed + 1
      /\ pc[W] \notin Taking => Freed = dequeue_pos
      /\ Capacity \in Nat \ {0}
  BY FreedType
<1>1. t \in Threads /\ t # W /\ W \in Threads /\ buf[t] \in Hands
  BY InHands, ChannelAssumption DEF Threads, W
<1>2. pc[W] \in Taking => buf[W] \in Hands /\ buf[W] # None
  <2>1. Taking \cap EmptyHanded = {}
    BY DEF Taking, EmptyHanded
  <2> QED  BY <1>1, <2>1, InHands DEF TypeOK
<1>3. \A p \in Stored : data[Cell(p)] \in Queued
  BY DEF Queued
<1>4. \A u, p : Claims(u, p) => buf[u] \in Hands /\ u \in Threads /\ u # W
                                /\ u # t /\ buf[u] # None /\ p = pos[u]
  BY ClaimType, InHands DEF Claims
<1>5. \A p \in S : \E i \in T : Has(p, i)
  <2> SUFFICES ASSUME NEW p \in S  PROVE \E i \in T : Has(p, i)
    OBVIOUS
  <2>1. /\ p \in Freed..(Freed + Capacity - 1) /\ p < enqueue_pos
        /\ p \in Nat
    BY <1>0 DEF CellInv
  <2>2. \/ seq[Cell(p)] = p + 1
        \/ \E u : Claims(u, p)
    BY <1>0, <2>1 DEF CellInv
  <2>3. CASE \E u : Claims(u, p)
    <3>1. PICK u : Claims(u, p)
      BY <2>3
    <3>2. buf[u] \in T
      BY <1>1, <1>4, <3>1, Apart DEF HoldInv
    <3> QED  BY <3>1, <3>2
  <2>4. CASE seq[Cell(p)] = p + 1 /\ p \in Stored
    <3>1. data[Cell(p)] \in T
      BY <1>1, <1>3, <2>4, Apart
    <3> QED  BY <2>4, <3>1
  <2>5. CASE seq[Cell(p)] = p + 1 /\ p \notin Stored
    <3>1. ~(dequeue_pos <= p)
      BY <1>0, <2>1, <2>5 DEF Stored
    <3>2. pc[W] \in Taking /\ p = pos[W]
      BY <1>0, <2>1, <3>1
    <3>3. buf[W] \in T
      BY <1>1, <1>2, <3>2, Apart DEF HoldInv
    <3> QED  BY <3>2, <3>3
  <2> QED  BY <2>2, <2>3, <2>4, <2>5
<1>6. \A p, q : \A i \in T : Has(p, i) /\ Has(q, i) => p = q
  <2> SUFFICES ASSUME NEW p, NEW q, NEW i \in T, Has(p, i), Has(q, i)
               PROVE  p = q
    OBVIOUS
  <2>1. CASE i \in Queued
    <3>1. p \in Stored /\ q \in Stored
      BY <1>2, <1>4, <2>1, Apart
    <3>2. i = data[Cell(p)] /\ i = data[Cell(q)]
      BY <1>2, <1>4, <2>1, Apart
    <3> QED  BY <3>1, <3>2 DEF HoldInv
  <2>2. CASE i \notin Queued
    <3>1. \A r : Has(r, i) => \/ \E u : Claims(u, r) /\ i = buf[u]
                              \/ pc[W] \in Taking /\ r = pos[W] /\ i = buf[W]
      BY <1>3, <2>2
    <3>2. \A r : Has(r, i) => \E u \in Threads : /\ i = buf[u] /\ r = pos[u]
                                                 /\ i # None
      BY <1>1, <1>2, <1>4, <3>1
    <3> QED  BY <3>2 DEF HoldInv
  <2> QED  BY <2>1, <2>2
<1> DEFINE f == [p \in S |-> CHOOSE i \in T : Has(p, i)]
<1>7. \A p \in S : f[p] \in T /\ Has(p, f[p])
  <2> SUFFICES ASSUME NEW p \in S  PROVE f[p] \in T /\ Has(p, f[p])
    OBVIOUS
  <2>1. f[p] = CHOOSE i \in T : Has(p, i)
    OBVIOUS
  <2>2. \E i \in T : Has(p, i)
    BY <1>5
  <2> HIDE DEF Has, T, f
  <2> QED  BY <2>1, <2>2
<1>8. f \in Injection(S, T)
  <2>1. f \in [S -> T]
    BY <1>7
  <2>2. \A p, q \in S : f[p] = f[q] => p = q
    <3> SUFFICES ASSUME NEW p \in S, NEW q \in S, f[p] = f[q]
                 PROVE  p = q
      OBVIOUS
    <3>1. Has(p, f[p]) /\ Has(q, f[p]) /\ f[p] \in T
      BY <1>7
    <3> HIDE DEF Has, T, f
    <3> QED  BY <1>6, <3>1
  <2> HIDE DEF f, S, T
  <2> QED  BY <2>1, <2>2 DEF Injection, IsInjective
<1>9. IsFiniteSet(T) /\ Cardinality(T) = Capacity - 1
  <2>1. buf[t] \in Nodes
    BY <1>1, Apart
  <2> QED  BY <2>1, NodesFinite, FS_RemoveElement
<1>10. Cardinality(S) <= Capacity - 1
  <2> HIDE DEF f, S, T
  <2> QED  BY <1>8, <1>9, FS_Injection
<1>11. CASE enqueue_pos <= Freed
  BY <1>0, <1>11
<1>12. CASE ~(enqueue_pos <= Freed)
  <2>1. Freed \in Int /\ enqueue_pos - 1 \in Int /\ ~(Freed > enqueue_pos - 1)
    BY <1>0, <1>12
  <2>2. Cardinality(S) = enqueue_pos - 1 - Freed + 1
    BY <2>1, FS_Interval
  <2> HIDE DEF S
  <2> QED  BY <1>0, <1>10, <2>2
<1> QED  BY <1>11, <1>12

\* The cell of the next position is free when a publisher claims it.
LEMMA NextCellFree ==
    ASSUME TypeOK, WorkerInv, CellInv, HoldInv, ListInv,
           NEW t \in Publishers, buf[t] # None, pc[t] \notin Claiming
    PROVE  seq[Cell(enqueue_pos)] = enqueue_pos
<1>1. enqueue_pos \in Freed..(Freed + Capacity - 1)
  BY Room, FreedType
<1> QED  BY <1>1, FreedType DEF CellInv

\* What dequeue() finds is a position that was claimed and filled.
LEMMA ReadyIsStored ==
    ASSUME TypeOK, WorkerInv, CellInv, Ready,
           pc[W] \in {"dequeue_seq", "drain_seq"}
    PROVE  /\ pos[W] = dequeue_pos /\ Freed = dequeue_pos
           /\ dequeue_pos < enqueue_pos /\ dequeue_pos \in Stored
<1>1. pos[W] = dequeue_pos /\ Freed = dequeue_pos
  BY FreedType DEF WorkerInv, Taking
<1>2. dequeue_pos \in Freed..(Freed + Capacity - 1)
  BY <1>1, FreedType
<1>3. seq[Cell(dequeue_pos)] = dequeue_pos + 1
  BY <1>1 DEF Ready
<1>4. dequeue_pos < enqueue_pos
  BY <1>2, <1>3, FreedType DEF CellInv
<1> QED  BY <1>1, <1>3, <1>4, FreedType DEF Stored

\* The buffers in the batch, and at the positions claimed, have a payload.
LEMMA BatchFilled ==
    ASSUME TypeOK, WorkerInv, PayInv, NEW k \in DOMAIN batch
    PROVE  filled[batch[k]] \in 1..MaxAllocs
<1>1. /\ Len(batch) \in Nat /\ k \in 1..Len(batch)
      /\ order \in Seq(1..MaxAllocs)
  BY DEF TypeOK
<1>2. Freed - Len(batch) + k \in 1..Len(order)
  BY <1>1, FreedType DEF PayInv
<1>3. order[Freed - Len(batch) + k] \in 1..MaxAllocs
  BY <1>1, <1>2, ElementOfSeq
<1> QED  BY <1>3 DEF PayInv

LEMMA AcquiringHasHead ==
    ASSUME ListInv, NEW t \in Publishers, pc[t] \in Acquiring
    PROVE  head[t] \in Nodes
BY DEF ListInv, Listed, Partition

-----------------------------------------------------------------------------
(* Types *)

LEMMA AcquireType ==
    ASSUME TypeOK, RoleInv, ListInv, NEW t \in Publishers,
           \/ AcquireLoad(t) \/ AcquireNext(t) \/ AcquireCas(t)
           \/ AcquireRetry(t)
    PROVE  TypeOK'
<1>0. t \in Threads
  BY DEF Threads
<1>1. CASE AcquireLoad(t)
  BY <1>0, <1>1 DEF AcquireLoad, Goto, TypeOK, PCs, EmptyHanded, poolVars,
                    queueVars, ownerVars, workerVars
<1>2. CASE AcquireNext(t)
  <2>1. head[t] \in Nodes
    BY <1>2, AcquiringHasHead DEF AcquireNext, Goto, Acquiring
  <2> QED  BY <1>0, <1>2, <2>1 DEF AcquireNext, Goto, TypeOK, PCs, EmptyHanded,
                    poolVars, queueVars, ownerVars, workerVars
<1>3. CASE AcquireCas(t)
  <2>1. head[t] \in Nodes /\ allocs < MaxAllocs
    BY <1>3, AcquiringHasHead DEF AcquireCas, Goto, Acquiring, RoleInv
  <2>2. allocs + 1 \in 0..MaxAllocs /\ head[t] # None /\ head[t] \in Index
    BY <2>1, ChannelAssumption DEF TypeOK, Index
  <2> QED  BY <1>0, <1>3, <2>1, <2>2 DEF AcquireCas, Goto, TypeOK, PCs,
                    EmptyHanded, queueVars, ownerVars, workerVars, Index
<1>4. CASE AcquireRetry(t)
  BY <1>0, <1>4 DEF AcquireRetry, Goto, TypeOK, PCs, EmptyHanded, poolVars,
                    queueVars, ownerVars, workerVars, Index
<1> QED  BY <1>1, <1>2, <1>3, <1>4

LEMMA HandType ==
    ASSUME TypeOK, NEW t \in Publishers, NEW u \in Publishers,
           Give(t, u) \/ Drop(t) \/ PublishHandle(t)
    PROVE  TypeOK'
<1>0. t \in Threads /\ u \in Threads
  BY DEF Threads
<1>1. CASE Give(t, u)
  BY <1>0, <1>1 DEF Give, TypeOK, PCs, EmptyHanded, poolVars,
                    queueVars, ownerVars, workerVars, Index
<1>2. CASE Drop(t)
  BY <1>0, <1>2 DEF Drop, Goto, Release, TypeOK, PCs, EmptyHanded, poolVars,
                    queueVars, ownerVars, workerVars
<1>3. CASE PublishHandle(t)
  BY <1>0, <1>3 DEF PublishHandle, PosLoad, Goto, TypeOK, PCs, EmptyHanded,
                    poolVars, queueVars, ownerVars, workerVars
<1> QED  BY <1>1, <1>2, <1>3

LEMMA ReleaseType ==
    ASSUME TypeOK, NEW t \in Threads, ReleaseSteps(t)
    PROVE  TypeOK'
<1>1. CASE ReleaseLoad(t)
  BY <1>1 DEF ReleaseLoad, Goto, Release, TypeOK, PCs, EmptyHanded, poolVars,
              queueVars, ownerVars, workerVars
<1>2. CASE ReleaseStore(t)
  BY <1>2 DEF ReleaseStore, Goto, TypeOK, PCs, EmptyHanded, queueVars,
              ownerVars, workerVars
<1>3. CASE ReleaseCas(t)
  BY <1>3 DEF ReleaseCas, Goto, Released, TypeOK, PCs, EmptyHanded, queueVars,
              ownerVars, workerVars, Index
<1>4. CASE ReleaseRetry(t)
  BY <1>4 DEF ReleaseRetry, Goto, TypeOK, PCs, EmptyHanded, poolVars,
              queueVars, ownerVars, workerVars
<1> QED  BY <1>1, <1>2, <1>3, <1>4 DEF ReleaseSteps

LEMMA EnqueueType ==
    ASSUME TypeOK, PayInv, NEW t \in Publishers,
           \/ EnqueueReload(t) \/ EnqueueSeq(t) \/ EnqueueCas(t)
           \/ EnqueueRetry(t) \/ EnqueueData(t) \/ EnqueueStore(t)
    PROVE  TypeOK'
<1>0. t \in Threads /\ pos[t] \in Nat
  BY DEF Threads, TypeOK
<1>1. CASE EnqueueReload(t)
  BY <1>0, <1>1 DEF EnqueueReload, PosLoad, Goto, TypeOK, PCs, EmptyHanded,
                    poolVars, queueVars, ownerVars, workerVars
<1>2. CASE EnqueueSeq(t)
  BY <1>0, <1>2 DEF EnqueueSeq, Goto, Release, TypeOK, PCs, EmptyHanded,
                    poolVars, queueVars, ownerVars, workerVars
<1>3. CASE EnqueueCas(t)
  <2>1. buf[t] # None /\ buf[t] \in Nodes
    BY <1>0, <1>3 DEF EnqueueCas, Goto, TypeOK, EmptyHanded, Index
  <2>2. filled[buf[t]] \in 1..MaxAllocs
    BY <2>1, ChannelAssumption DEF TypeOK, PayInv
  <2>3. order' \in Seq(1..MaxAllocs)
    BY <1>3, <2>2 DEF EnqueueCas, TypeOK
  <2>4. enqueue_pos' \in Nat /\ dequeue_pos' \in 0..enqueue_pos'
    BY <1>0, <1>3 DEF EnqueueCas, TypeOK
  <2> QED  BY <1>0, <1>3, <2>3, <2>4 DEF EnqueueCas, Goto, TypeOK, PCs,
                    EmptyHanded, poolVars, ownerVars, workerVars
<1>4. CASE EnqueueRetry(t)
  BY <1>0, <1>4 DEF EnqueueRetry, Goto, TypeOK, PCs, EmptyHanded, poolVars,
                    queueVars, ownerVars, workerVars
<1>5. CASE EnqueueData(t)
  BY <1>0, <1>5 DEF EnqueueData, Goto, TypeOK, PCs, EmptyHanded, poolVars,
                    ownerVars, workerVars
<1>6. CASE EnqueueStore(t)
  <2>1. pos[t] + 1 \in Nat
    BY <1>0
  <2>2. seq' \in [Nodes -> Nat]
    BY <1>6, <2>1 DEF EnqueueStore, TypeOK
  <2> QED  BY <1>0, <1>6, <2>2 DEF EnqueueStore, Goto, TypeOK, PCs,
                    EmptyHanded, poolVars, ownerVars, workerVars, Index
<1> QED  BY <1>1, <1>2, <1>3, <1>4, <1>5, <1>6

LEMMA WorkerType ==
    ASSUME TypeOK, WorkerInv, CellInv, PayInv,
           \/ Check \/ Dequeue \/ DequeueStore \/ DrainStore \/ Idle
           \/ Drained \/ CopyHandlers \/ Deliver
    PROVE  TypeOK'
<1>0. /\ W \in Threads /\ pos[W] \in Nat /\ dequeue_pos \in Nat
      /\ Capacity \in Nat
  BY ChannelAssumption DEF Threads, TypeOK, W
<1>1. CASE Check
  BY <1>0, <1>1 DEF Check, Goto, TypeOK, PCs, EmptyHanded,
                    poolVars, queueVars, ownerVars
<1>2. CASE Dequeue
  <2>1. /\ pos[W] = dequeue_pos /\ dequeue_pos < enqueue_pos
        /\ dequeue_pos \in Stored
    BY <1>2, ReadyIsStored DEF Dequeue, Goto
  <2>2. data[Cell(pos[W])] \in Nodes
    BY <2>1 DEF PayInv
  <2>3. dequeue_pos' \in 0..enqueue_pos /\ data[Cell(pos[W])] # None
    BY <1>0, <1>2, <2>1, <2>2, ChannelAssumption DEF Dequeue, TypeOK
  <2> QED  BY <1>0, <1>2, <2>2, <2>3 DEF Dequeue, Goto, TypeOK, PCs,
                    EmptyHanded, poolVars, ownerVars, workerVars, Index
<1>3. CASE DequeueStore
  <2>1. buf[W] \in Nodes
    BY <1>0, <1>3 DEF DequeueStore, Goto, TypeOK, EmptyHanded, Index
  <2>2. Len(batch) < kBatch
    BY <1>3 DEF DequeueStore, Goto, WorkerInv
  <2>3. batch' \in Seq(Nodes) /\ Len(batch') <= kBatch
    BY <1>3, <2>1, <2>2, ChannelAssumption DEF DequeueStore, TypeOK
  <2>4. pos[W] + Capacity \in Nat
    BY <1>0
  <2>5. seq' \in [Nodes -> Nat]
    BY <1>3, <2>4 DEF DequeueStore, TypeOK
  <2> QED  BY <1>0, <1>3, <2>3, <2>5 DEF DequeueStore, Goto, TypeOK, PCs,
                    EmptyHanded, poolVars, ownerVars, Index
<1>4. CASE DrainStore
  <2>1. pos[W] + Capacity \in Nat
    BY <1>0
  <2>2. seq' \in [Nodes -> Nat]
    BY <1>4, <2>1 DEF DrainStore, TypeOK
  <2> QED  BY <1>0, <1>4, <2>2 DEF DrainStore, Goto, Release, TypeOK, PCs,
                    EmptyHanded, poolVars, ownerVars, workerVars
<1>5. CASE Idle
  BY <1>0, <1>5 DEF Idle, Goto, TypeOK, PCs, EmptyHanded, poolVars,
                    queueVars, ownerVars, workerVars
<1>8. CASE Drained
  BY <1>0, <1>8 DEF Drained, Goto, TypeOK, PCs, EmptyHanded, poolVars,
                    queueVars, ownerVars, workerVars
<1>6. CASE CopyHandlers
  BY <1>0, <1>6 DEF CopyHandlers, Goto, TypeOK, PCs, EmptyHanded, poolVars,
                    queueVars, ownerVars
<1>7. CASE Deliver
  <2>1. batch \in Seq(Nodes) /\ batch # <<>>
    BY <1>7 DEF Deliver, Goto, WorkerInv, TypeOK
  <2>2. /\ Head(batch) \in Nodes /\ 1 \in DOMAIN batch /\ Head(batch) = batch[1]
        /\ Tail(batch) \in Seq(Nodes) /\ Len(Tail(batch)) = Len(batch) - 1
        /\ Len(batch) \in Nat
    BY <2>1, Beheaded
  <2>3. filled[Head(batch)] \in 1..MaxAllocs
    BY <2>2, BatchFilled
  <2>a. PICK x \in 1..MaxAllocs : x = filled[Head(batch)]
    BY <2>3
  <2>b. \A s \in Subs : /\ got[s] \in Seq(1..MaxAllocs)
                        /\ Append(got[s], x) \in Seq(1..MaxAllocs)
    BY Appended DEF TypeOK
  <2>c. got' = [s \in Subs |-> IF s \in copied THEN Append(got[s], x)
                               ELSE got[s]]
    BY <1>7, <2>a DEF Deliver
  <2>4. got' \in [Subs -> Seq(1..MaxAllocs)]
    BY <2>b, <2>c
  <2>5. batch' \in Seq(Nodes) /\ Len(batch') <= kBatch
    BY <1>7, <2>2, ChannelAssumption DEF Deliver, TypeOK
  <2>6. Head(batch) # None /\ Head(batch) \in Index
    BY <2>2, ChannelAssumption DEF Index
  <2> QED  BY <1>0, <1>7, <2>4, <2>5, <2>6 DEF Deliver, Goto, Release,
                    TypeOK, PCs, EmptyHanded, poolVars, queueVars, ownerVars
<1> QED  BY <1>1, <1>2, <1>3, <1>4, <1>5, <1>6, <1>7, <1>8

LEMMA OwnerType ==
    ASSUME TypeOK, WorkerInv,
           \/ \E s \in Subs : Subscribe(s) \/ Reset(s)
           \/ Start \/ StopFlag \/ StopJoin
    PROVE  TypeOK'
<1>1. CASE \E s \in Subs : Subscribe(s) \/ Reset(s)
  BY <1>1 DEF Subscribe, Reset, TypeOK, poolVars, queueVars, localVars,
              workerVars
<1>2. CASE Start
  <2>1. W \in Threads /\ (~running => pc[W] = "off")
    BY <1>2 DEF Threads, W, Start, WorkerInv
  <2> QED  BY <1>2, <2>1 DEF Start, TypeOK, PCs, EmptyHanded, poolVars,
                    queueVars, workerVars
<1>3. CASE StopFlag \/ StopJoin
  BY <1>3 DEF StopFlag, StopJoin, TypeOK, poolVars, queueVars, localVars,
              workerVars
<1> QED  BY <1>1, <1>2, <1>3

LEMMA NextType == IInv /\ Next => TypeOK'
BY AcquireType, HandType, ReleaseType, EnqueueType, WorkerType, OwnerType
   DEF IInv, Next, PublishSteps, WorkerSteps, Threads

-----------------------------------------------------------------------------
(* Where the threads are *)

LEMMA PublishRole ==
    ASSUME TypeOK, RoleInv, OneAllocator, NEW t \in Publishers,
           \/ AcquireLoad(t) \/ Drop(t) \/ PublishHandle(t) \/ PublishSteps(t)
    PROVE  RoleInv'
<1>0. /\ t \in Threads /\ t # W /\ \A u \in Publishers : u \in Threads
      /\ Releasing = {"release_load", "release_store", "release_cas"}
      /\ enqueue_pos \in Nat /\ pos[t] \in Nat
  BY ChannelAssumption DEF Threads, W, Releasing, TypeOK
<1> DEFINE Alone == /\ pc' = [pc EXCEPT ![t] = pc'[t]]
                    /\ pos' = [pos EXCEPT ![t] = pos'[t]]
                    /\ allocs' = allocs /\ enqueue_pos' = enqueue_pos
           Here == /\ pc'[t] \in {"idle", "held", "enqueue_load"}
                                 \cup Positioned \cup Acquiring \cup Claiming
                                 \cup Releasing
                   /\ pc'[t] \in Acquiring =>
                          t \in Allocators /\ allocs < MaxAllocs
                   /\ pc'[t] \in Positioned => pos'[t] <= enqueue_pos
<1>a. ASSUME Alone, Here  PROVE RoleInv'
  <2>0. pc'[W] = pc[W]
    BY <1>0, <1>a DEF TypeOK, Threads, W
  <2> SUFFICES ASSUME NEW u \in Publishers
               PROVE  /\ pc'[u] \in {"idle", "held", "enqueue_load"}
                                 \cup Positioned \cup Acquiring \cup Claiming
                                 \cup Releasing
                      /\ pc'[u] \in Acquiring =>
                             u \in Allocators /\ allocs' < MaxAllocs
                      /\ pc'[u] \in Positioned => pos'[u] <= enqueue_pos'
    BY <2>0 DEF RoleInv
  <2>1. CASE u = t
    BY <1>a, <2>1
  <2>2. CASE u # t
    <3>1. pc'[u] = pc[u] /\ pos'[u] = pos[u]
      BY <1>0, <1>a, <2>2 DEF TypeOK
    <3> HIDE DEF Here
    <3> QED  BY <1>a, <3>1 DEF RoleInv
  <2> QED  BY <2>1, <2>2
<1>1. CASE AcquireLoad(t) \/ AcquireNext(t) \/ AcquireRetry(t)
  <2>1. Alone
    BY <1>0, <1>1 DEF AcquireLoad, AcquireNext, AcquireRetry, Goto, TypeOK,
          poolVars, queueVars
  <2>2. Here
    BY <1>0, <1>1 DEF AcquireLoad, AcquireNext, AcquireRetry, Goto, TypeOK,
          RoleInv, Acquiring, Claiming, Positioned
  <2> QED  BY <1>a, <2>1, <2>2
<1>2. CASE AcquireCas(t)
  <2>1. t \in Allocators
    BY <1>2 DEF AcquireCas, Goto, RoleInv, Acquiring
  <2>2. \A u \in Publishers : u # t => pc[u] \notin Acquiring
    BY <2>1 DEF RoleInv, OneAllocator
  <2> QED  BY <1>0, <1>2, <2>2 DEF AcquireCas, Goto, TypeOK, RoleInv,
        Acquiring, Claiming, Positioned, queueVars, ownerVars
<1>3. CASE Drop(t) \/ PublishHandle(t) \/ EnqueueReload(t)
  <2>1. Alone
    BY <1>0, <1>3 DEF Drop, PublishHandle, EnqueueReload, PosLoad, Goto,
          TypeOK, poolVars, queueVars
  <2>2. Here
    BY <1>0, <1>3 DEF Drop, PublishHandle, EnqueueReload, PosLoad, Goto,
          Release, TypeOK, Acquiring, Claiming, Positioned
  <2> QED  BY <1>a, <2>1, <2>2
<1>4. CASE EnqueueSeq(t) \/ EnqueueRetry(t)
  <2>1. Alone
    BY <1>0, <1>4 DEF EnqueueSeq, EnqueueRetry, Goto, TypeOK, poolVars,
          queueVars
  <2>2. Here
    BY <1>0, <1>4 DEF EnqueueSeq, EnqueueRetry, Goto, Release, TypeOK,
          RoleInv, Acquiring, Claiming, Positioned
  <2> QED  BY <1>a, <2>1, <2>2
<1>5. CASE EnqueueCas(t)
  <2>1. enqueue_pos' = enqueue_pos + 1 /\ pos' = pos /\ allocs' = allocs
        /\ pc' = [pc EXCEPT ![t] = "enqueue_data"]
    BY <1>5 DEF EnqueueCas, Goto, poolVars
  <2>2. \A u \in Publishers : pos[u] \in Nat
    BY <1>0 DEF TypeOK
  <2> QED  BY <1>0, <2>1, <2>2 DEF TypeOK, RoleInv, Acquiring, Claiming,
        Positioned
<1>6. CASE EnqueueData(t) \/ EnqueueStore(t)
  <2>1. Alone
    BY <1>0, <1>6 DEF EnqueueData, EnqueueStore, Goto, TypeOK, poolVars
  <2>2. Here
    BY <1>0, <1>6 DEF EnqueueData, EnqueueStore, Goto, TypeOK, Acquiring,
          Claiming, Positioned
  <2> QED  BY <1>a, <2>1, <2>2
<1>7. CASE ReleaseSteps(t)
  <2>1. Alone
    BY <1>0, <1>7 DEF ReleaseSteps, ReleaseLoad, ReleaseStore, ReleaseCas,
          ReleaseRetry, Goto, TypeOK, poolVars, queueVars
  <2>2. pc'[t] \in Releasing \cup {"idle"}
    BY <1>0, <1>7 DEF ReleaseSteps, ReleaseLoad, ReleaseStore, ReleaseCas,
          ReleaseRetry, Released, Release, Goto, TypeOK, W
  <2>3. Here
    BY <1>0, <2>2 DEF Acquiring, Claiming, Positioned
  <2> QED  BY <1>a, <2>1, <2>3
<1> QED  BY <1>1, <1>2, <1>3, <1>4, <1>5, <1>6, <1>7 DEF PublishSteps

LEMMA ElseRole ==
    ASSUME TypeOK, RoleInv,
           \/ \E t, u \in Publishers : Give(t, u)
           \/ WorkerSteps \/ \E s \in Subs : Subscribe(s) \/ Reset(s)
           \/ Start \/ StopFlag \/ StopJoin
    PROVE  RoleInv'
<1>0. /\ \A u \in Publishers : u \in Threads /\ u # W
      /\ W \in Threads /\ W \notin Publishers
      /\ Releasing = {"release_load", "release_store", "release_cas"}
  BY ChannelAssumption DEF Threads, W, Releasing
<1>1. ASSUME NEW t \in Publishers, NEW u \in Publishers, Give(t, u)
      PROVE  RoleInv'
  BY <1>0, <1>1 DEF Give, TypeOK, RoleInv, Acquiring, Claiming, Positioned,
        poolVars, queueVars, ownerVars
<1>2. CASE WorkerSteps
  <2>1. /\ pc' = [pc EXCEPT ![W] = pc'[W]]
        /\ \A u \in Publishers : pos'[u] = pos[u]
        /\ allocs' = allocs /\ enqueue_pos' = enqueue_pos
        /\ pc'[W] \in {"off", "check", "dequeue_seq", "drain_seq", "deliver"}
                 \cup Taking \cup Releasing
    <3>1. CASE Check \/ Dequeue \/ DequeueStore \/ DrainStore
      BY <1>0, <3>1 DEF Check, Dequeue, DequeueStore, DrainStore, Goto, TypeOK,
         Release, Taking, poolVars, queueVars
    <3>2. CASE Idle \/ Drained \/ CopyHandlers \/ Deliver
      BY <1>0, <3>2 DEF Idle, Drained, CopyHandlers, Deliver, Goto, TypeOK,
         Release, poolVars, queueVars
    <3>3. CASE ReleaseSteps(W)
      <4>1. CASE ReleaseLoad(W) \/ ReleaseStore(W) \/ ReleaseRetry(W)
        BY <1>0, <4>1 DEF ReleaseLoad, ReleaseStore, ReleaseRetry, Goto,
           TypeOK, Release, poolVars, queueVars
      <4>2. CASE ReleaseCas(W)
        BY <1>0, <4>2 DEF ReleaseCas, Released, Goto, TypeOK, queueVars, W
      <4> QED  BY <3>3, <4>1, <4>2 DEF ReleaseSteps
    <3> QED  BY <1>2, <3>1, <3>2, <3>3 DEF WorkerSteps, W
  <2> QED  BY <1>0, <2>1 DEF TypeOK, RoleInv
<1>3. CASE \E s \in Subs : Subscribe(s) \/ Reset(s)
  BY <1>3 DEF Subscribe, Reset, RoleInv, localVars, poolVars, queueVars
<1>4. CASE Start \/ StopFlag \/ StopJoin
  BY <1>0, <1>4 DEF Start, StopFlag, StopJoin, RoleInv, TypeOK, localVars,
        poolVars, queueVars, Taking
<1> QED  BY <1>1, <1>2, <1>3, <1>4

\* A publisher's step leaves the worker and the owner where they are.
LEMMA PublishLeavesWorker ==
    ASSUME TypeOK, NEW t \in Publishers,
           \/ AcquireLoad(t) \/ Drop(t) \/ PublishHandle(t) \/ PublishSteps(t)
           \/ \E u \in Publishers : Give(t, u)
    PROVE  /\ pc'[W] = pc[W] /\ pos'[W] = pos[W] /\ buf'[W] = buf[W]
           /\ Freed' = Freed
           /\ UNCHANGED <<dequeue_pos, handlers, running, ctl, subscribed,
                          batch, copied, got>>
<1>0. t # W /\ t \in Threads /\ W \in Threads
      /\ \A u \in Publishers : u \in Threads /\ u # W
  BY ChannelAssumption DEF W, Threads
<1>a. /\ pc'[W] = pc[W] /\ pos'[W] = pos[W] /\ buf'[W] = buf[W]
      /\ UNCHANGED <<dequeue_pos, handlers, running, ctl, subscribed,
                     batch, copied, got>>
  <2>1. CASE \/ AcquireLoad(t) \/ AcquireNext(t) \/ AcquireCas(t)
             \/ AcquireRetry(t)
    BY <1>0, <2>1 DEF AcquireLoad, AcquireNext, AcquireCas, AcquireRetry, Goto,
          TypeOK, poolVars, queueVars, ownerVars, workerVars
  <2>2. CASE \/ Drop(t) \/ PublishHandle(t) \/ EnqueueReload(t)
             \/ \E u \in Publishers : Give(t, u)
    BY <1>0, <2>2 DEF Drop, PublishHandle, EnqueueReload, PosLoad, Give, Goto,
          TypeOK, poolVars, queueVars, ownerVars, workerVars
  <2>3. CASE EnqueueSeq(t) \/ EnqueueRetry(t) \/ EnqueueCas(t)
    BY <1>0, <2>3 DEF EnqueueSeq, EnqueueRetry, EnqueueCas, Goto,
          TypeOK, poolVars, queueVars, ownerVars, workerVars
  <2>4. CASE EnqueueData(t) \/ EnqueueStore(t)
    BY <1>0, <2>4 DEF EnqueueData, EnqueueStore, Goto,
          TypeOK, poolVars, queueVars, ownerVars, workerVars
  <2>5. CASE ReleaseSteps(t)
    BY <1>0, <2>5 DEF ReleaseSteps, ReleaseLoad, ReleaseStore, ReleaseCas,
          ReleaseRetry, Goto, TypeOK, poolVars, queueVars, ownerVars, workerVars
  <2> QED  BY <2>1, <2>2, <2>3, <2>4, <2>5 DEF PublishSteps
<1> QED  BY <1>a DEF Freed

LEMMA WorkerKeepsControl ==
    ASSUME TypeOK, WorkerInv, WorkerSteps
    PROVE  WorkerInv'
<1>0. W \in Threads /\ pos[W] \in Nat /\ dequeue_pos \in Nat
  BY DEF Threads, W, TypeOK
<1>1. CASE Check
  BY <1>0, <1>1 DEF Check, Goto, TypeOK, WorkerInv, Taking, Draining,
                    poolVars, queueVars, ownerVars
<1>2. CASE Dequeue
  <2>1. pos' = pos /\ dequeue_pos' = pos[W] + 1 /\ batch' = batch
        /\ copied' = copied /\ running' = running /\ ctl' = ctl
    BY <1>2 DEF Dequeue, ownerVars, workerVars
  <2>2. \/ pc[W] = "dequeue_seq" /\ pc'[W] = "dequeue_store"
        \/ pc[W] = "drain_seq" /\ pc'[W] = "drain_store"
    BY <1>0, <1>2 DEF Dequeue, Goto, TypeOK
  <2>3. Len(batch) < kBatch
    BY <1>2 DEF Dequeue
  <2> QED  BY <2>1, <2>2, <2>3 DEF WorkerInv, Taking, Draining
<1>3. CASE DequeueStore \/ DrainStore
  <2>1. /\ dequeue_pos' = dequeue_pos
        /\ copied' = copied /\ running' = running /\ ctl' = ctl
    BY <1>3 DEF DequeueStore, DrainStore, ownerVars, workerVars
  <2>2. \/ /\ pc[W] = "dequeue_store" /\ pc'[W] = "dequeue_seq"
           /\ pos'[W] = dequeue_pos
        \/ /\ pc[W] = "drain_store" /\ pc'[W] = "release_load"
           /\ batch' = batch
    BY <1>0, <1>3 DEF DequeueStore, DrainStore, Goto, TypeOK, Release,
                      workerVars
  <2> QED  BY <2>1, <2>2 DEF WorkerInv, Taking, Draining
<1>4. CASE Idle \/ Drained
  <2>1. UNCHANGED <<dequeue_pos, batch, copied, running, ctl>>
    BY <1>4 DEF Idle, Drained, queueVars, ownerVars, workerVars
  <2>2. \/ pc[W] = "dequeue_seq" /\ pc'[W] = "check" /\ batch = <<>>
        \/ pc[W] = "drain_seq" /\ pc'[W] = "off"
    BY <1>0, <1>4 DEF Idle, Drained, Goto, TypeOK
  <2> QED  BY <2>1, <2>2 DEF WorkerInv, Taking, Draining
<1>5. CASE CopyHandlers
  BY <1>0, <1>5 DEF CopyHandlers, Goto, TypeOK, WorkerInv, Taking, Draining,
                    poolVars, queueVars, ownerVars
<1>6. CASE Deliver
  <2>1. UNCHANGED <<dequeue_pos, copied, running, ctl>>
    BY <1>6 DEF Deliver, queueVars, ownerVars
  <2>2. pc[W] = "deliver" /\ pc'[W] = "release_load"
    BY <1>0, <1>6 DEF Deliver, Goto, TypeOK, Release
  <2> QED  BY <2>1, <2>2 DEF WorkerInv, Taking, Draining
<1>7. CASE ReleaseSteps(Worker)
  <2>1. UNCHANGED <<dequeue_pos, batch, copied, running, ctl>>
    BY <1>7 DEF ReleaseSteps, ReleaseLoad, ReleaseStore, ReleaseCas,
                ReleaseRetry, queueVars, ownerVars, workerVars
  <2>2. /\ pc[W] \in Releasing
        /\ \/ pc'[W] \in Releasing
           \/ pc'[W] = "deliver" /\ batch # <<>>
           \/ pc'[W] = "check" /\ batch = <<>>
    BY <1>0, <1>7 DEF ReleaseSteps, ReleaseLoad, ReleaseStore, ReleaseCas,
                ReleaseRetry, Released, Releasing, Release, Goto, TypeOK, W
  <2> QED  BY <2>1, <2>2 DEF WorkerInv, Taking, Draining, Releasing
<1> QED  BY <1>1, <1>2, <1>3, <1>4, <1>5, <1>6, <1>7 DEF WorkerSteps

LEMMA NextControl ==
    ASSUME IInv, OneAllocator, Next
    PROVE  RoleInv' /\ WorkerInv'
<1>1. RoleInv'
  BY PublishRole, ElseRole DEF IInv, Next
<1>2. WorkerInv'
  <2>1. ASSUME NEW t \in Publishers,
             \/ AcquireLoad(t) \/ Drop(t) \/ PublishHandle(t) \/ PublishSteps(t)
             \/ \E u \in Publishers : Give(t, u)
        PROVE  WorkerInv'
    BY <2>1, PublishLeavesWorker DEF IInv, WorkerInv
  <2>2. CASE WorkerSteps
    BY <2>2, WorkerKeepsControl DEF IInv
  <2>3. CASE \E s \in Subs : Subscribe(s) \/ Reset(s)
    BY <2>3 DEF Subscribe, Reset, IInv, WorkerInv, poolVars, queueVars,
                localVars, workerVars
  <2>4. CASE Start
    <3>1. /\ UNCHANGED <<dequeue_pos, batch, copied, pos>>
          /\ running' /\ ctl' = "idle"
          /\ pc'[W] = IF running THEN pc[W] ELSE "check"
          /\ ctl = "start"
      BY <2>4 DEF Start, queueVars, workerVars, IInv, TypeOK, Threads, W
    <3> QED  BY <3>1 DEF IInv, WorkerInv, Taking, Draining
  <2>5. CASE StopFlag \/ StopJoin
    BY <2>5 DEF StopFlag, StopJoin, IInv, WorkerInv, poolVars, queueVars,
                localVars, workerVars
  <2> QED  BY <2>1, <2>2, <2>3, <2>4, <2>5 DEF Next
<1> QED  BY <1>1, <1>2

-----------------------------------------------------------------------------
(* Cells: most steps leave the queue as it is. *)

SameQueue ==
    /\ UNCHANGED <<seq, data, enqueue_pos, dequeue_pos, order>>
    /\ Freed' = Freed
    /\ \A t, p : Claims(t, p)' <=> Claims(t, p)
    /\ \A t, p : Claims(t, p) => pc'[t] = pc[t] /\ buf'[t] = buf[t]
    /\ pc'[W] \in Taking <=> pc[W] \in Taking
    /\ pc[W] \in Taking => pos'[W] = pos[W] /\ buf'[W] = buf[W]

LEMMA ThreadLeavesQueue ==
    ASSUME TypeOK, NEW t \in Threads, UNCHANGED queueVars,
           pc' = [pc EXCEPT ![t] = pc'[t]], pos' = [pos EXCEPT ![t] = pos'[t]],
           buf' = [buf EXCEPT ![t] = buf'[t]],
           pc[t] \notin Claiming \cup Taking,
           pc'[t] \notin Claiming \cup Taking
    PROVE  SameQueue
<1>1. \A u \in Threads : u # t => /\ pc'[u] = pc[u] /\ pos'[u] = pos[u]
                                  /\ buf'[u] = buf[u]
  BY DEF TypeOK
<1>2. W \in Threads /\ \A u \in Publishers : u \in Threads
  BY DEF Threads, W
<1>3. \A u, p : Claims(u, p)' <=> Claims(u, p)
  BY <1>1, <1>2 DEF Claims
<1>4. \A u, p : Claims(u, p) => pc'[u] = pc[u] /\ buf'[u] = buf[u]
  BY <1>1, <1>2 DEF Claims
<1>5. /\ pc'[W] \in Taking <=> pc[W] \in Taking
      /\ pc[W] \in Taking => pos'[W] = pos[W] /\ buf'[W] = buf[W]
  BY <1>1, <1>2
<1>6. dequeue_pos' = dequeue_pos
  BY DEF queueVars
<1>7. Freed' = Freed
  BY <1>5, <1>6 DEF Freed
<1> QED  BY <1>3, <1>4, <1>5, <1>7 DEF SameQueue, queueVars

LEMMA PublishLeavesQueue ==
    ASSUME TypeOK, NEW t \in Publishers,
           \/ AcquireLoad(t) \/ Drop(t) \/ PublishHandle(t)
           \/ AcquireNext(t) \/ AcquireCas(t) \/ AcquireRetry(t)
           \/ EnqueueReload(t) \/ EnqueueSeq(t) \/ EnqueueRetry(t)
    PROVE  SameQueue
<1>0. t \in Threads
  BY DEF Threads
<1>1. CASE \/ AcquireLoad(t) \/ AcquireNext(t) \/ AcquireCas(t)
           \/ AcquireRetry(t)
  <2>1. UNCHANGED queueVars
    BY <1>1 DEF AcquireLoad, AcquireNext, AcquireCas, AcquireRetry
  <2>2. /\ pc' = [pc EXCEPT ![t] = pc'[t]] /\ pos' = [pos EXCEPT ![t] = pos'[t]]
        /\ buf' = [buf EXCEPT ![t] = buf'[t]]
    BY <1>0, <1>1 DEF AcquireLoad, AcquireNext, AcquireCas, AcquireRetry, Goto,
                      TypeOK
  <2>3. /\ pc[t] \notin Claiming \cup Taking
        /\ pc'[t] \notin Claiming \cup Taking
    BY <1>0, <1>1 DEF AcquireLoad, AcquireNext, AcquireCas, AcquireRetry, Goto,
                      TypeOK, Claiming, Taking
  <2> QED  BY <1>0, <2>1, <2>2, <2>3, ThreadLeavesQueue
<1>2. CASE \/ Drop(t) \/ PublishHandle(t) \/ EnqueueReload(t) \/ EnqueueSeq(t)
           \/ EnqueueRetry(t)
  <2>1. UNCHANGED queueVars
    BY <1>2 DEF Drop, PublishHandle, EnqueueReload, PosLoad, EnqueueSeq,
                EnqueueRetry
  <2>2. /\ pc' = [pc EXCEPT ![t] = pc'[t]] /\ pos' = [pos EXCEPT ![t] = pos'[t]]
        /\ buf' = [buf EXCEPT ![t] = buf'[t]]
    BY <1>0, <1>2 DEF Drop, PublishHandle, EnqueueReload, PosLoad, EnqueueSeq,
                EnqueueRetry, Goto, TypeOK
  <2>3. /\ pc[t] \notin Claiming \cup Taking
        /\ pc'[t] \notin Claiming \cup Taking
    BY <1>0, <1>2 DEF Drop, PublishHandle, EnqueueReload, PosLoad, EnqueueSeq,
                EnqueueRetry, Goto, TypeOK, Claiming, Taking, Release
  <2> QED  BY <1>0, <2>1, <2>2, <2>3, ThreadLeavesQueue
<1> QED  BY <1>1, <1>2

LEMMA ReleaseLeavesQueue ==
    ASSUME TypeOK, NEW t \in Threads, ReleaseSteps(t)
    PROVE  SameQueue
<1>1. UNCHANGED queueVars
  BY DEF ReleaseSteps, ReleaseLoad, ReleaseStore, ReleaseCas, ReleaseRetry
<1>2. /\ pc' = [pc EXCEPT ![t] = pc'[t]] /\ pos' = [pos EXCEPT ![t] = pos'[t]]
      /\ buf' = [buf EXCEPT ![t] = buf'[t]]
  BY DEF ReleaseSteps, ReleaseLoad, ReleaseStore, ReleaseCas, ReleaseRetry,
         Goto, TypeOK
<1>3. pc[t] \notin Claiming \cup Taking /\ pc'[t] \notin Claiming \cup Taking
  BY DEF ReleaseSteps, ReleaseLoad, ReleaseStore, ReleaseCas, ReleaseRetry,
         Released, Release, Goto, TypeOK, Claiming, Taking
<1> QED  BY <1>1, <1>2, <1>3, ThreadLeavesQueue

LEMMA WorkerLeavesQueue ==
    ASSUME TypeOK, Check \/ Idle \/ Drained \/ CopyHandlers \/ Deliver
    PROVE  SameQueue
<1>0. W \in Threads
  BY DEF Threads, W
<1>1. UNCHANGED queueVars
  BY DEF Check, Idle, Drained, CopyHandlers, Deliver
<1>2. /\ pc' = [pc EXCEPT ![W] = pc'[W]] /\ pos' = [pos EXCEPT ![W] = pos'[W]]
      /\ buf' = [buf EXCEPT ![W] = buf'[W]]
  BY <1>0 DEF Check, Idle, Drained, CopyHandlers, Deliver, Goto, TypeOK
<1>3. pc[W] \notin Claiming \cup Taking /\ pc'[W] \notin Claiming \cup Taking
  BY <1>0 DEF Check, Idle, Drained, CopyHandlers, Deliver, Release, Goto,
              TypeOK, Claiming, Taking
<1> QED  BY <1>0, <1>1, <1>2, <1>3, ThreadLeavesQueue

LEMMA ElseLeavesQueue ==
    ASSUME TypeOK, WorkerInv,
           \/ \E t, u \in Publishers : Give(t, u)
           \/ \E s \in Subs : Subscribe(s) \/ Reset(s)
           \/ Start \/ StopFlag \/ StopJoin
    PROVE  SameQueue
<1>0. /\ W \in Threads /\ \A u \in Publishers : u \in Threads /\ u # W
      /\ W \notin Publishers
  BY ChannelAssumption DEF Threads, W
<1>1. ASSUME NEW t \in Publishers, NEW u \in Publishers, Give(t, u)
      PROVE  SameQueue
  <2>1. UNCHANGED queueVars /\ pos' = pos
    BY <1>1 DEF Give
  <2>2. \A v \in Threads : \/ pc'[v] = pc[v] /\ buf'[v] = buf[v]
                           \/ /\ pc[v] \in {"held", "idle"}
                              /\ pc'[v] \in {"held", "idle"}
    BY <1>0, <1>1 DEF Give, TypeOK
  <2>3. \A v, p : Claims(v, p)' <=> Claims(v, p)
    BY <1>0, <2>1, <2>2 DEF Claims, Claiming
  <2>4. \A v, p : Claims(v, p) => pc'[v] = pc[v] /\ buf'[v] = buf[v]
    BY <1>0, <2>1, <2>2 DEF Claims, Claiming
  <2>5. pc'[W] = pc[W] /\ buf'[W] = buf[W]
    BY <1>0, <1>1 DEF Give, TypeOK
  <2>6. Freed' = Freed
    BY <2>1, <2>5 DEF Freed, queueVars
  <2> QED  BY <2>1, <2>3, <2>4, <2>5, <2>6 DEF SameQueue, queueVars
<1>2. CASE \/ \E s \in Subs : Subscribe(s) \/ Reset(s)
           \/ StopFlag \/ StopJoin
  <2>1. UNCHANGED <<queueVars, pc, pos, buf>>
    BY <1>2 DEF Subscribe, Reset, StopFlag, StopJoin, localVars
  <2> QED  BY <2>1 DEF SameQueue, queueVars, Claims, Freed
<1>3. CASE Start
  <2>1. UNCHANGED queueVars /\ pos' = pos /\ buf' = buf
    BY <1>3 DEF Start
  <2>2. pc' = [pc EXCEPT ![W] = pc'[W]]
    BY <1>0, <1>3 DEF Start, TypeOK
  <2>3. pc' = pc \/ (pc[W] \in {"off"} /\ pc'[W] = "check")
    BY <1>0, <1>3 DEF Start, TypeOK, WorkerInv
  <2>4. CASE pc' = pc
    BY <2>1, <2>4 DEF SameQueue, queueVars, Claims, Freed
  <2>5. CASE pc[W] \in {"off"} /\ pc'[W] = "check"
    <3>1. /\ pc[W] \notin Claiming \cup Taking
          /\ pc'[W] \notin Claiming \cup Taking
      BY <2>5 DEF Claiming, Taking
    <3>2. /\ pos' = [pos EXCEPT ![W] = pos'[W]]
          /\ buf' = [buf EXCEPT ![W] = buf'[W]]
      BY <1>0, <2>1 DEF TypeOK
    <3> QED  BY <1>0, <2>1, <2>2, <3>1, <3>2, ThreadLeavesQueue
  <2> QED  BY <2>3, <2>4, <2>5
<1> QED  BY <1>1, <1>2, <1>3

\* The steps that do not.
LEMMA QueueSteps ==
    ASSUME TypeOK, WorkerInv, Next
    PROVE  \/ SameQueue
           \/ \E t \in Publishers : \/ EnqueueCas(t) \/ EnqueueData(t)
                                    \/ EnqueueStore(t)
           \/ Dequeue \/ DequeueStore \/ DrainStore
<1>1. Worker \in Threads /\ \A t \in Publishers : t \in Threads
  BY DEF Threads
<1>2. ASSUME NEW t \in Publishers,
             AcquireLoad(t) \/ Drop(t) \/ PublishHandle(t) \/ PublishSteps(t)
      PROVE  SameQueue \/ EnqueueCas(t) \/ EnqueueData(t) \/ EnqueueStore(t)
  BY <1>1, <1>2, PublishLeavesQueue, ReleaseLeavesQueue DEF PublishSteps
<1>3. CASE WorkerSteps
  BY <1>1, <1>3, WorkerLeavesQueue, ReleaseLeavesQueue DEF WorkerSteps
<1> QED  BY <1>2, <1>3, ElseLeavesQueue DEF Next

-----------------------------------------------------------------------------
(* Cells: the steps that claim, fill and give back. *)

LEMMA SameQueueKeepsCells ==
    ASSUME CellInv, SameQueue
    PROVE  CellInv'
BY DEF CellInv, SameQueue

\* What each of the three steps of enqueue() on a cell changes.
LEMMA EnqueueEffect ==
    ASSUME TypeOK, NEW t \in Publishers,
           EnqueueCas(t) \/ EnqueueData(t) \/ EnqueueStore(t)
    PROVE  /\ dequeue_pos' = dequeue_pos /\ Freed' = Freed
           /\ \A u, p : u # t => (Claims(u, p)' <=> Claims(u, p))
           /\ \A u \in Threads : u # t => /\ pc'[u] = pc[u] /\ buf'[u] = buf[u]
                                          /\ pos'[u] = pos[u]
           /\ t \in Threads /\ W \in Threads /\ t # W /\ pos[t] \in Nat
<1>0. t \in Threads /\ W \in Threads /\ t # W /\ pos[t] \in Nat
      /\ \A u \in Publishers : u \in Threads
  BY ChannelAssumption DEF Threads, W, TypeOK
<1>1. dequeue_pos' = dequeue_pos
  BY DEF EnqueueCas, EnqueueData, EnqueueStore
<1>2. \A u \in Threads : u # t => /\ pc'[u] = pc[u] /\ buf'[u] = buf[u]
                                  /\ pos'[u] = pos[u]
  BY <1>0 DEF EnqueueCas, EnqueueData, EnqueueStore, Goto, TypeOK
<1>3. \A u, p : u # t => (Claims(u, p)' <=> Claims(u, p))
  BY <1>0, <1>2 DEF Claims
<1>4. Freed' = Freed
  BY <1>0, <1>1, <1>2 DEF Freed
<1> QED  BY <1>0, <1>1, <1>2, <1>3, <1>4

\* Within the window the cells are apart.
LEMMA WindowApart ==
    ASSUME TypeOK, WorkerInv,
           NEW p \in Freed..(Freed + Capacity - 1),
           NEW q \in Freed..(Freed + Capacity - 1), p # q
    PROVE  /\ Cell(p) # Cell(q) /\ p \in Nat /\ q \in Nat
           /\ Cell(p) \in Nodes /\ Cell(q) \in Nodes
<1>1. p \in Nat /\ q \in Nat /\ p - q < Capacity /\ q - p < Capacity
  BY FreedType
<1> QED  BY <1>1, CellsApart, CellIsNode

LEMMA ClaimInWindow ==
    ASSUME TypeOK, WorkerInv, CellInv, NEW t, NEW p, Claims(t, p)
    PROVE  /\ p \in Freed..(Freed + Capacity - 1) /\ p < enqueue_pos
           /\ dequeue_pos <= p /\ p \in Nat /\ seq[Cell(p)] = p
           /\ Cell(p) \in Nodes
<1>1. p \in dequeue_pos..(enqueue_pos - 1) /\ seq[Cell(p)] = p /\ p \in Nat
  BY ClaimType DEF CellInv
<1>2. Freed <= dequeue_pos /\ enqueue_pos <= Freed + Capacity
  BY FreedType DEF CellInv
<1> QED  BY <1>1, <1>2, FreedType, CellIsNode

LEMMA StoredInWindow ==
    ASSUME TypeOK, WorkerInv, CellInv, NEW p \in Stored
    PROVE  /\ p \in Freed..(Freed + Capacity - 1) /\ p < enqueue_pos
           /\ dequeue_pos <= p /\ p \in Nat /\ seq[Cell(p)] = p + 1
           /\ Cell(p) \in Nodes
<1>1. /\ p \in dequeue_pos..(enqueue_pos - 1) /\ seq[Cell(p)] = p + 1
      /\ p \in Nat
  BY FreedType DEF Stored
<1>2. Freed <= dequeue_pos /\ enqueue_pos <= Freed + Capacity
  BY FreedType DEF CellInv
<1> QED  BY <1>1, <1>2, FreedType, CellIsNode

LEMMA CasKeepsCells ==
    ASSUME TypeOK, WorkerInv, CellInv, HoldInv, ListInv, NEW t \in Publishers,
           EnqueueCas(t)
    PROVE  /\ CellInv'
           /\ \A p : Claims(t, p)' <=> p = enqueue_pos
           /\ enqueue_pos' = enqueue_pos + 1 /\ buf' = buf
           /\ UNCHANGED <<seq, data>>
           /\ \A p : ~Claims(t, p)
           /\ order' = Append(order, filled[buf[t]])
           /\ buf[t] # None
           /\ enqueue_pos \in Nat /\ seq[Cell(enqueue_pos)] = enqueue_pos
<1>0. /\ pos[t] = enqueue_pos /\ enqueue_pos' = enqueue_pos + 1
      /\ pc[t] = "enqueue_cas" /\ pc'[t] = "enqueue_data"
      /\ pos' = pos /\ buf' = buf /\ UNCHANGED <<seq, data>>
      /\ order' = Append(order, filled[buf[t]])
  BY DEF EnqueueCas, Goto, TypeOK, Threads
<1>1. buf[t] # None /\ pc[t] \notin Claiming
  BY <1>0 DEF TypeOK, Threads, EmptyHanded, Claiming
<1>2. seq[Cell(enqueue_pos)] = enqueue_pos
  BY <1>1, NextCellFree
<1>3. enqueue_pos < Freed + Capacity
  BY <1>1, Room
<1>4. /\ dequeue_pos' = dequeue_pos /\ Freed' = Freed
      /\ \A u, p : u # t => (Claims(u, p)' <=> Claims(u, p))
  BY EnqueueEffect
<1>5. \A p : Claims(t, p)' <=> p = enqueue_pos
  BY <1>0 DEF Claims, Claiming
<1>6. \A p : ~Claims(t, p)
  BY <1>1 DEF Claims
<1>7. /\ Freed \in Nat /\ dequeue_pos \in Nat /\ enqueue_pos \in Nat
      /\ Freed <= dequeue_pos /\ dequeue_pos <= enqueue_pos
      /\ Capacity \in Nat \ {0}
  BY FreedType
<1>8. enqueue_pos' <= Freed' + Capacity
  BY <1>0, <1>3, <1>4, <1>7
<1>9. ASSUME NEW p \in Freed..(Freed + Capacity - 1)
      PROVE  \/ p >= enqueue_pos' /\ seq'[Cell(p)] = p
             \/ p < enqueue_pos' /\ seq'[Cell(p)] = p + 1
             \/ /\ p < enqueue_pos' /\ seq'[Cell(p)] = p
                /\ \E u : Claims(u, p)'
  <2>1. CASE p = enqueue_pos
    <3>1. Claims(t, p)'
      BY <1>5, <2>1
    <3>2. p < enqueue_pos' /\ seq'[Cell(p)] = p
      BY <1>0, <1>2, <1>7, <2>1
    <3> QED  BY <3>1, <3>2
  <2>2. CASE p # enqueue_pos
    <3>1. \/ p >= enqueue_pos /\ seq[Cell(p)] = p
          \/ p < enqueue_pos /\ seq[Cell(p)] = p + 1
          \/ /\ p < enqueue_pos /\ seq[Cell(p)] = p
             /\ \E u : Claims(u, p)
      BY DEF CellInv
    <3>2. (\E u : Claims(u, p)) => \E u : Claims(u, p)'
      BY <1>4, <1>6
    <3>3. /\ p >= enqueue_pos => p >= enqueue_pos'
          /\ p < enqueue_pos => p < enqueue_pos'
      BY <1>0, <1>7, <2>2
    <3> QED  BY <1>0, <3>1, <3>2, <3>3
  <2> QED  BY <2>1, <2>2
<1>10. ASSUME NEW u, NEW p, Claims(u, p)'
       PROVE  /\ p \in dequeue_pos'..(enqueue_pos' - 1)
              /\ seq'[Cell(p)] = p
              /\ pc'[u] = "enqueue_store" => data'[Cell(p)] = buf'[u]
              /\ \A v : Claims(v, p)' => v = u
  <2>1. CASE u = t
    <3>1. p = enqueue_pos
      BY <1>5, <1>10, <2>1
    <3>2. \A v : v # t => ~Claims(v, p)
      BY <1>7, <3>1 DEF CellInv
    <3> QED  BY <1>0, <1>2, <1>4, <1>7, <2>1, <3>1, <3>2
  <2>2. CASE u # t
    <3>1. Claims(u, p)
      BY <1>4, <1>10, <2>2
    <3>2. /\ p \in dequeue_pos..(enqueue_pos - 1)
          /\ seq[Cell(p)] = p
          /\ pc[u] = "enqueue_store" => data[Cell(p)] = buf[u]
          /\ \A v : Claims(v, p) => v = u
      BY <3>1 DEF CellInv
    <3>3. pc'[u] = pc[u]
      BY <2>2, <3>1, ClaimType, EnqueueEffect
    <3>4. ~Claims(t, p)'
      BY <1>5, <1>7, <3>2
    <3>5. p \in dequeue_pos'..(enqueue_pos' - 1)
      BY <1>0, <1>4, <1>7, <3>2
    <3> QED  BY <1>0, <1>4, <3>2, <3>3, <3>4, <3>5
  <2> QED  BY <2>1, <2>2
<1>11. CellInv'
  <2> HIDE DEF Freed
  <2> QED  BY <1>4, <1>8, <1>9, <1>10 DEF CellInv
<1> QED  BY <1>0, <1>1, <1>2, <1>5, <1>6, <1>7, <1>11

LEMMA DataKeepsCells ==
    ASSUME TypeOK, WorkerInv, CellInv, NEW t \in Publishers, EnqueueData(t)
    PROVE  /\ CellInv'
           /\ \A u, p : Claims(u, p)' <=> Claims(u, p)
           /\ Claims(t, pos[t]) /\ buf' = buf
           /\ UNCHANGED <<seq, enqueue_pos, order>>
           /\ \A c \in Nodes : c # Cell(pos[t]) => data'[c] = data[c]
<1>0. /\ pc[t] = "enqueue_data" /\ pc'[t] = "enqueue_store"
      /\ pos' = pos /\ buf' = buf /\ UNCHANGED <<seq, enqueue_pos, order>>
      /\ data' = [data EXCEPT ![Cell(pos[t])] = buf[t]]
  BY DEF EnqueueData, Goto, TypeOK, Threads
<1>1. /\ dequeue_pos' = dequeue_pos /\ Freed' = Freed
      /\ \A u, p : u # t => (Claims(u, p)' <=> Claims(u, p))
  BY EnqueueEffect
<1>2. \A u, p : Claims(u, p)' <=> Claims(u, p)
  BY <1>0, <1>1 DEF Claims, Claiming
<1>3. Claims(t, pos[t])
  BY <1>0 DEF Claims, Claiming
<1>4. \A c \in Nodes : c # Cell(pos[t]) => data'[c] = data[c]
  BY <1>0 DEF TypeOK
<1>5. ASSUME NEW u, NEW p, Claims(u, p), pc'[u] = "enqueue_store"
      PROVE  data'[Cell(p)] = buf'[u]
  <2>1. CASE u = t
    <3>1. p = pos[t]
      BY <1>5, <2>1 DEF Claims
    <3>2. Cell(p) \in Nodes
      BY <1>3, <3>1, ClaimInWindow
    <3> QED  BY <1>0, <2>1, <3>1, <3>2 DEF TypeOK
  <2>2. CASE u # t
    <3>1. p # pos[t]
      BY <1>3, <1>5, <2>2 DEF CellInv
    <3>2. Cell(p) # Cell(pos[t]) /\ Cell(p) \in Nodes
      BY <1>3, <1>5, <3>1, ClaimInWindow, WindowApart
    <3>3. pc'[u] = pc[u]
      BY <1>5, <2>2, ClaimType, EnqueueEffect
    <3>4. data[Cell(p)] = buf[u]
      BY <1>5, <3>3 DEF CellInv
    <3> QED  BY <1>0, <1>4, <3>2, <3>4
  <2> QED  BY <2>1, <2>2
<1>6. CellInv'
  <2> HIDE DEF Freed
  <2> QED  BY <1>0, <1>1, <1>2, <1>5 DEF CellInv
<1> QED  BY <1>0, <1>2, <1>3, <1>4, <1>6

LEMMA StoreKeepsCells ==
    ASSUME TypeOK, WorkerInv, CellInv, NEW t \in Publishers, EnqueueStore(t)
    PROVE  /\ CellInv'
           /\ \A u, p : Claims(u, p)' <=> (Claims(u, p) /\ u # t)
           /\ Claims(t, pos[t])
           /\ UNCHANGED <<data, enqueue_pos, order>>
           /\ data[Cell(pos[t])] = buf[t]
           /\ Stored' = Stored \cup {pos[t]} /\ pos[t] \notin Stored
           /\ buf' = [buf EXCEPT ![t] = None]
<1>0. /\ pc[t] = "enqueue_store" /\ pc'[t] = "idle"
      /\ UNCHANGED <<data, enqueue_pos, order>>
      /\ seq' = [seq EXCEPT ![Cell(pos[t])] = pos[t] + 1]
      /\ buf' = [buf EXCEPT ![t] = None]
  BY DEF EnqueueStore, Goto, TypeOK, Threads
<1>1. /\ dequeue_pos' = dequeue_pos /\ Freed' = Freed
      /\ \A u, p : u # t => (Claims(u, p)' <=> Claims(u, p))
  BY EnqueueEffect
<1>2. \A u, p : Claims(u, p)' <=> (Claims(u, p) /\ u # t)
  BY <1>0, <1>1 DEF Claims, Claiming
<1>a. Claims(t, pos[t])
  BY <1>0 DEF Claims, Claiming
<1>b. PICK m : m = pos[t]
  OBVIOUS
<1>3. Claims(t, m) /\ seq' = [seq EXCEPT ![Cell(m)] = m + 1]
  BY <1>0, <1>a, <1>b
<1>4. /\ m \in Freed..(Freed + Capacity - 1) /\ m < enqueue_pos
      /\ dequeue_pos <= m /\ m \in Nat /\ seq[Cell(m)] = m /\ Cell(m) \in Nodes
  BY <1>3, ClaimInWindow
<1>5. seq'[Cell(m)] = m + 1
  BY <1>3, <1>4 DEF TypeOK
<1>6. \A p \in Freed..(Freed + Capacity - 1) :
         p # m => seq'[Cell(p)] = seq[Cell(p)]
  <2> SUFFICES ASSUME NEW p \in Freed..(Freed + Capacity - 1), p # m
               PROVE  seq'[Cell(p)] = seq[Cell(p)]
    OBVIOUS
  <2>1. Cell(p) # Cell(m) /\ Cell(p) \in Nodes
    BY <1>4, WindowApart
  <2> QED  BY <1>3, <2>1 DEF TypeOK
<1>7. data[Cell(m)] = buf[t]
  BY <1>0, <1>3 DEF CellInv
<1>8. ASSUME NEW p \in Freed..(Freed + Capacity - 1)
      PROVE  \/ p >= enqueue_pos /\ seq'[Cell(p)] = p
             \/ p < enqueue_pos /\ seq'[Cell(p)] = p + 1
             \/ /\ p < enqueue_pos /\ seq'[Cell(p)] = p
                /\ \E u : Claims(u, p)'
  <2>1. CASE p = m
    BY <1>4, <1>5, <2>1
  <2>2. CASE p # m
    <3>1. \/ p >= enqueue_pos /\ seq[Cell(p)] = p
          \/ p < enqueue_pos /\ seq[Cell(p)] = p + 1
          \/ /\ p < enqueue_pos /\ seq[Cell(p)] = p
             /\ \E u : Claims(u, p)
      BY DEF CellInv
    <3>2. ~Claims(t, p)
      BY <1>b, <2>2 DEF Claims
    <3> QED  BY <1>2, <1>6, <2>2, <3>1, <3>2
  <2> QED  BY <2>1, <2>2
<1>9. ASSUME NEW u, NEW p, Claims(u, p)'
      PROVE  /\ p \in dequeue_pos..(enqueue_pos - 1)
             /\ seq'[Cell(p)] = p
             /\ pc'[u] = "enqueue_store" => data[Cell(p)] = buf'[u]
             /\ \A v : Claims(v, p)' => v = u
  <2>1. Claims(u, p) /\ u # t
    BY <1>2, <1>9
  <2>2. /\ p \in dequeue_pos..(enqueue_pos - 1)
        /\ seq[Cell(p)] = p
        /\ pc[u] = "enqueue_store" => data[Cell(p)] = buf[u]
        /\ \A v : Claims(v, p) => v = u
    BY <2>1 DEF CellInv
  <2>3. p # m
    BY <1>3, <2>1, <2>2
  <2>4. seq'[Cell(p)] = p
    BY <1>6, <2>1, <2>2, <2>3, ClaimInWindow
  <2>5. pc'[u] = pc[u] /\ buf'[u] = buf[u]
    BY <2>1, ClaimType, EnqueueEffect
  <2> QED  BY <1>2, <2>2, <2>4, <2>5
<1>10. CellInv'
  <2> HIDE DEF Freed
  <2>1. enqueue_pos <= Freed + Capacity
    BY DEF CellInv
  <2> QED  BY <1>0, <1>1, <1>8, <1>9, <2>1 DEF CellInv
<1>11. m \notin Stored
  BY <1>4 DEF Stored
<1>12. Stored' = Stored \cup {m}
  <2>1. Stored' = {p \in dequeue_pos..(enqueue_pos - 1) : seq'[Cell(p)] = p + 1}
    BY <1>0, <1>1 DEF Stored
  <2>2. \A p \in dequeue_pos..(enqueue_pos - 1) :
           p # m => seq'[Cell(p)] = seq[Cell(p)]
    BY <1>6, FreedType DEF CellInv
  <2>3. m \in dequeue_pos..(enqueue_pos - 1)
    BY <1>4, FreedType
  <2> QED  BY <1>5, <2>1, <2>2, <2>3 DEF Stored
<1> QED  BY <1>0, <1>2, <1>a, <1>b, <1>7, <1>10, <1>11, <1>12

LEMMA DequeueKeepsCells ==
    ASSUME TypeOK, WorkerInv, CellInv, Dequeue
    PROVE  /\ CellInv'
           /\ \A u, p : Claims(u, p)' <=> Claims(u, p)
           /\ UNCHANGED <<seq, data, enqueue_pos, order, pos, batch>>
           /\ pos[W] = dequeue_pos /\ Freed = dequeue_pos
           /\ dequeue_pos' = dequeue_pos + 1 /\ Freed' = Freed
           /\ pc'[W] \in Taking /\ pc[W] \notin Taking
           /\ dequeue_pos \in Stored /\ Stored' = Stored \ {dequeue_pos}
           /\ buf' = [buf EXCEPT ![W] = data[Cell(dequeue_pos)]]
           /\ \A u \in Publishers : pc'[u] = pc[u]
<1>0. /\ W \in Threads /\ W \notin Publishers
      /\ \A u \in Publishers : u \in Threads
  BY ChannelAssumption DEF Threads, W
<1>1. /\ pc[W] \in {"dequeue_seq", "drain_seq"} /\ Ready
      /\ pc'[W] \in Taking /\ pc[W] \notin Taking
      /\ \A u \in Publishers : pc'[u] = pc[u]
      /\ UNCHANGED <<seq, data, enqueue_pos, order, pos, batch>>
      /\ dequeue_pos' = pos[W] + 1
      /\ buf' = [buf EXCEPT ![W] = data[Cell(pos[W])]]
  BY <1>0 DEF Dequeue, Goto, TypeOK, Taking, workerVars
<1>2. /\ pos[W] = dequeue_pos /\ Freed = dequeue_pos
      /\ dequeue_pos < enqueue_pos /\ dequeue_pos \in Stored
  BY <1>1, ReadyIsStored
<1>3. Freed' = Freed
  BY <1>1, <1>2 DEF Freed
<1>4. \A u, p : Claims(u, p)' <=> Claims(u, p)
  BY <1>1 DEF Claims
<1>5. \A u \in Publishers : buf'[u] = buf[u]
  BY <1>0, <1>1 DEF TypeOK
<1>6. ASSUME NEW u, NEW p, Claims(u, p)
      PROVE  p \in dequeue_pos'..(enqueue_pos - 1)
  <2>1. p \in dequeue_pos..(enqueue_pos - 1) /\ seq[Cell(p)] = p
    BY <1>6 DEF CellInv
  <2>2. p # dequeue_pos
    BY <1>2, <2>1, FreedType DEF Stored
  <2> QED  BY <1>1, <1>2, <2>1, <2>2, FreedType
<1>7. CellInv'
  <2>1. \A u, p : Claims(u, p) => (pc'[u] = pc[u] /\ buf'[u] = buf[u])
    BY <1>1, <1>5 DEF Claims
  <2> HIDE DEF Freed
  <2> QED  BY <1>1, <1>3, <1>4, <1>6, <2>1 DEF CellInv
<1>8. Stored' = Stored \ {dequeue_pos}
  <2>1. Stored' = {p \in (dequeue_pos + 1)..(enqueue_pos - 1) :
                      seq[Cell(p)] = p + 1}
    BY <1>1, <1>2 DEF Stored, Cell
  <2> QED  BY <2>1, FreedType DEF Stored
<1> QED  BY <1>1, <1>2, <1>3, <1>4, <1>7, <1>8

LEMMA GiveBackKeepsCells ==
    ASSUME TypeOK, WorkerInv, CellInv, DequeueStore \/ DrainStore
    PROVE  /\ CellInv'
           /\ \A u, p : Claims(u, p)' <=> Claims(u, p)
           /\ UNCHANGED <<data, enqueue_pos, dequeue_pos, order>>
           /\ Freed' = Freed + 1 /\ Freed = pos[W] /\ Stored' = Stored
           /\ pc'[W] \notin Taking /\ pc[W] \in Taking
           /\ \A u \in Publishers : pc'[u] = pc[u] /\ buf'[u] = buf[u]
<1>0. /\ W \in Threads /\ W \notin Publishers
      /\ \A u \in Publishers : u \in Threads
  BY ChannelAssumption DEF Threads, W
<1>1. /\ pc[W] \in Taking /\ pc'[W] \notin Taking
      /\ \A u \in Publishers : pc'[u] = pc[u] /\ buf'[u] = buf[u]
                               /\ pos'[u] = pos[u]
      /\ UNCHANGED <<data, enqueue_pos, dequeue_pos, order>>
      /\ seq' = [seq EXCEPT ![Cell(pos[W])] = pos[W] + Capacity]
  BY <1>0 DEF DequeueStore, DrainStore, Goto, TypeOK, Taking, Release
<1>2. PICK m : m = pos[W]
  OBVIOUS
<1>3. /\ m \in Nat /\ Freed = m /\ dequeue_pos = m + 1
      /\ Freed' = m + 1 /\ seq' = [seq EXCEPT ![Cell(m)] = m + Capacity]
      /\ dequeue_pos <= enqueue_pos /\ enqueue_pos \in Nat
      /\ Capacity \in Nat \ {0}
  BY <1>1, <1>2, FreedType DEF Freed
<1>4. \A u, p : Claims(u, p)' <=> Claims(u, p)
  BY <1>1 DEF Claims
<1>5. Cell(m) \in Nodes /\ Cell(m + Capacity) = Cell(m)
  BY <1>3, CellIsNode, SameCell
<1>6. seq'[Cell(m + Capacity)] = m + Capacity
  BY <1>3, <1>5 DEF TypeOK
<1>7. ASSUME NEW p \in (m + 1)..(m + Capacity - 1)
      PROVE  seq'[Cell(p)] = seq[Cell(p)] /\ p \in Freed..(Freed + Capacity - 1)
  <2>1. /\ p \in Freed..(Freed + Capacity - 1)
        /\ m \in Freed..(Freed + Capacity - 1)
        /\ p # m
    BY <1>3
  <2>2. Cell(p) # Cell(m) /\ Cell(p) \in Nodes
    BY <2>1, WindowApart
  <2> QED  BY <1>3, <2>1, <2>2 DEF TypeOK
<1>8. ASSUME NEW p \in (m + 1)..(m + 1 + Capacity - 1)
      PROVE  \/ p >= enqueue_pos /\ seq'[Cell(p)] = p
             \/ p < enqueue_pos /\ seq'[Cell(p)] = p + 1
             \/ /\ p < enqueue_pos /\ seq'[Cell(p)] = p
                /\ \E u : Claims(u, p)
  <2>1. CASE p = m + Capacity
    <3>1. enqueue_pos <= m + Capacity
      BY <1>3 DEF CellInv
    <3> QED  BY <1>3, <1>6, <2>1, <3>1
  <2>2. CASE p # m + Capacity
    <3>1. p \in (m + 1)..(m + Capacity - 1)
      BY <1>3, <2>2
    <3>2. seq'[Cell(p)] = seq[Cell(p)] /\ p \in Freed..(Freed + Capacity - 1)
      BY <1>7, <3>1
    <3> QED  BY <3>2 DEF CellInv
  <2> QED  BY <2>1, <2>2
<1>9. ASSUME NEW p \in dequeue_pos..(enqueue_pos - 1)
      PROVE  seq'[Cell(p)] = seq[Cell(p)]
  <2>1. enqueue_pos <= m + Capacity
    BY <1>3 DEF CellInv
  <2>2. p \in (m + 1)..(m + Capacity - 1)
    BY <1>3, <2>1
  <2> QED  BY <1>7, <2>2
<1>10. ASSUME NEW u, NEW p, Claims(u, p)
       PROVE  /\ p \in dequeue_pos..(enqueue_pos - 1)
              /\ seq'[Cell(p)] = p
              /\ pc'[u] = "enqueue_store" => data[Cell(p)] = buf'[u]
              /\ \A v : Claims(v, p) => v = u
  <2>1. /\ p \in dequeue_pos..(enqueue_pos - 1)
        /\ seq[Cell(p)] = p
        /\ pc[u] = "enqueue_store" => data[Cell(p)] = buf[u]
        /\ \A v : Claims(v, p) => v = u
    BY <1>10 DEF CellInv
  <2>2. pc'[u] = pc[u] /\ buf'[u] = buf[u]
    BY <1>1, <1>10 DEF Claims
  <2> QED  BY <1>9, <2>1, <2>2
<1>11. enqueue_pos <= (m + 1) + Capacity
  BY <1>3 DEF CellInv
<1>12. CellInv'
  <2> HIDE DEF Freed
  <2>1. /\ enqueue_pos' <= Freed' + Capacity
        /\ \A p \in Freed'..(Freed' + Capacity - 1) :
              \/ p >= enqueue_pos' /\ seq'[Cell(p)] = p
              \/ p < enqueue_pos' /\ seq'[Cell(p)] = p + 1
              \/ /\ p < enqueue_pos' /\ seq'[Cell(p)] = p
                 /\ \E u : Claims(u, p)'
    BY <1>1, <1>3, <1>4, <1>8, <1>11
  <2> QED  BY <1>1, <1>4, <1>10, <2>1 DEF CellInv
<1>13. Stored' = Stored
  <2>1. Stored' = {p \in dequeue_pos..(enqueue_pos - 1) : seq'[Cell(p)] = p + 1}
    BY <1>1 DEF Stored
  <2> QED  BY <1>9, <2>1 DEF Stored
<1> QED  BY <1>1, <1>2, <1>3, <1>4, <1>12, <1>13

LEMMA NextCells == IInv /\ Next => CellInv'
<1> SUFFICES ASSUME IInv, Next  PROVE CellInv'
  OBVIOUS
<1> QED  BY QueueSteps, SameQueueKeepsCells, CasKeepsCells, DataKeepsCells,
            StoreKeepsCells, DequeueKeepsCells, GiveBackKeepsCells DEF IInv

-----------------------------------------------------------------------------
(* Payloads *)

\* The payload of a buffer changes only when the buffer is allocated.
LEMMA FilledKept ==
    ASSUME TypeOK, ListInv, Next,
           NEW i \in Hands \cup Queued \cup Ones(batch)
    PROVE  filled'[i] = filled[i]
<1>1. ASSUME NEW t \in Publishers, AcquireCas(t)
      PROVE  filled'[i] = filled[i]
  <2>1. PICK list \in Lists : Listed(list)
    BY DEF ListInv
  <2>2. head[t] \in Ones(list)
    BY <1>1, <2>1 DEF AcquireCas, Goto, Listed, Acquiring
  <2>3. i # head[t] /\ i \in Nodes
    BY <2>1, <2>2 DEF Listed, Partition
  <2> QED  BY <1>1, <2>3 DEF AcquireCas, TypeOK
<1>2. (\E t \in Publishers : AcquireCas(t)) \/ filled' = filled
  <2>1. ASSUME NEW t \in Threads, ReleaseSteps(t)
        PROVE  filled' = filled
    BY <2>1 DEF ReleaseSteps, ReleaseLoad, ReleaseStore, ReleaseCas,
                ReleaseRetry, poolVars
  <2>2. ASSUME NEW t \in Publishers,
             AcquireLoad(t) \/ Drop(t) \/ PublishHandle(t) \/ PublishSteps(t)
        PROVE  AcquireCas(t) \/ filled' = filled
    BY <2>1, <2>2 DEF AcquireLoad, Drop, PublishHandle, PosLoad,
       PublishSteps, AcquireNext, AcquireRetry, EnqueueReload, EnqueueSeq,
       EnqueueCas, EnqueueRetry, EnqueueData, EnqueueStore, poolVars, Threads
  <2>3. CASE WorkerSteps
    BY <2>1, <2>3 DEF WorkerSteps, Check, Dequeue, DequeueStore, DrainStore,
       Idle, Drained, CopyHandlers, Deliver, poolVars, Threads
  <2> QED  BY <2>2, <2>3 DEF Next, Give, Subscribe, Reset, Start, StopFlag,
       StopJoin, poolVars
<1> QED  BY <1>1, <1>2

\* A publisher's buffer has a payload.
LEMMA HeldFilled ==
    ASSUME IInv, Next, NEW u \in Publishers, buf'[u] # None
    PROVE  filled'[buf'[u]] # 0
<1>0. /\ u \in Threads /\ \A v \in Publishers : v \in Threads /\ v # W
      /\ TypeOK /\ W \in Threads
  BY ChannelAssumption DEF Threads, W, IInv
<1>1. CASE AcquireCas(u)
  <2>1. buf'[u] = head[u] /\ filled'[head[u]] = allocs + 1
    <3>1. head[u] \in Nodes
      BY <1>1, AcquiringHasHead DEF IInv, AcquireCas, Goto, Acquiring
    <3> QED  BY <1>0, <1>1, <3>1 DEF AcquireCas, TypeOK
  <2>2. allocs \in Nat
    BY <1>0, ChannelAssumption DEF TypeOK
  <2> QED  BY <2>1, <2>2
<1>2. ASSUME NEW t \in Publishers, Give(t, u)
      PROVE  filled'[buf'[u]] # 0
  <2>1. buf'[u] \in {buf[t], None} /\ t \in Threads
    BY <1>0, <1>2 DEF Give, TypeOK
  <2>2. filled[buf[t]] # 0 /\ buf[t] \in Hands
    BY <1>2, <2>1, InHands DEF IInv, PayInv
  <2>3. filled'[buf[t]] = filled[buf[t]]
    BY <2>2, FilledKept DEF IInv
  <2> QED  BY <2>1, <2>2, <2>3
<1>3. CASE buf'[u] = buf[u]
  <2>1. filled[buf[u]] # 0 /\ buf[u] \in Hands
    BY <1>0, <1>3, InHands DEF IInv, PayInv
  <2> QED  BY <1>3, <2>1, FilledKept DEF IInv
<1>4. \/ AcquireCas(u) \/ (\E t \in Publishers : Give(t, u))
      \/ buf'[u] = buf[u]
  <2>1. ASSUME NEW t \in Threads, ReleaseSteps(t)
        PROVE  buf'[u] = buf[u]
    <3>1. buf' = buf \/ buf' = [buf EXCEPT ![t] = None]
      BY <2>1 DEF ReleaseSteps, ReleaseLoad, ReleaseStore, ReleaseCas,
                  ReleaseRetry
    <3> QED  BY <1>0, <3>1 DEF TypeOK
  <2>2. ASSUME NEW t \in Publishers,
             AcquireLoad(t) \/ Drop(t) \/ PublishHandle(t) \/ PublishSteps(t)
        PROVE  AcquireCas(u) \/ buf'[u] = buf[u]
    <3>1. CASE AcquireCas(t)
      BY <1>0, <3>1 DEF AcquireCas, TypeOK
    <3>2. CASE EnqueueStore(t)
      BY <1>0, <3>2 DEF EnqueueStore, TypeOK
    <3>3. CASE ReleaseSteps(t)
      BY <1>0, <2>1, <3>3
    <3> QED  BY <2>2, <3>1, <3>2, <3>3 DEF AcquireLoad, Drop, PublishHandle,
       PosLoad, PublishSteps, AcquireNext, AcquireRetry, EnqueueReload,
       EnqueueSeq, EnqueueCas, EnqueueRetry, EnqueueData
  <2>3. CASE WorkerSteps
    <3>1. CASE ReleaseSteps(W)
      BY <1>0, <2>1, <3>1
    <3>2. CASE Dequeue \/ DequeueStore \/ Deliver
      BY <1>0, <3>2 DEF Dequeue, DequeueStore, Deliver, TypeOK
    <3> QED  BY <2>3, <3>1, <3>2 DEF WorkerSteps, W, Check, DrainStore, Idle,
       Drained, CopyHandlers
  <2>4. ASSUME NEW t \in Publishers, NEW v \in Publishers, Give(t, v)
        PROVE  Give(t, u) \/ buf'[u] = buf[u]
    <3>1. CASE u = t
      <4>1. buf'[u] = None
        BY <1>0, <2>4, <3>1 DEF Give, TypeOK
      <4> QED  BY <4>1
    <3>2. CASE u # t /\ u # v
      BY <1>0, <2>4, <3>2 DEF Give, TypeOK
    <3> QED  BY <2>4, <3>1, <3>2
  <2> QED  BY <2>2, <2>3, <2>4 DEF Next, Subscribe, Reset, Start, StopFlag,
       StopJoin, localVars
<1> QED  BY <1>1, <1>2, <1>3, <1>4

\* Two steps change the batch.
LEMMA BatchSteps ==
    ASSUME TypeOK, Next
    PROVE  batch' = batch \/ Deliver \/ DequeueStore
<1>1. ASSUME NEW t \in Threads, ReleaseSteps(t)
      PROVE  batch' = batch
  BY <1>1 DEF ReleaseSteps, ReleaseLoad, ReleaseStore, ReleaseCas,
              ReleaseRetry, workerVars
<1>2. CASE WorkerSteps
  BY <1>1, <1>2 DEF WorkerSteps, Check, Dequeue, DrainStore, Idle, Drained,
                    CopyHandlers, Threads, workerVars
<1>3. CASE ~WorkerSteps
  BY <1>3, PublishLeavesWorker DEF Next, Subscribe, Reset, Start, StopFlag,
                    StopJoin, workerVars
<1> QED  BY <1>2, <1>3

LEMMA Orders ==
    ASSUME TypeOK, PayInv
    PROVE  /\ order \in Seq(1..MaxAllocs) /\ Len(order) = enqueue_pos
           /\ batch \in Seq(Nodes) /\ Len(batch) \in Nat
           /\ DOMAIN batch = 1..Len(batch)
           /\ \A k \in DOMAIN batch : batch[k] \in Ones(batch)
BY DEF TypeOK, PayInv, Ones

LEMMA HeldIsHand ==
    ASSUME TypeOK, NEW t, NEW p, Claims(t, p)
    PROVE  buf[t] \in Hands
BY ClaimType, InHands

LEMMA TakenIsHand ==
    ASSUME TypeOK, pc[W] \in Taking
    PROVE  buf[W] \in Hands
<1>1. W \in Threads /\ pc[W] \notin EmptyHanded
  BY DEF Threads, W, Taking, EmptyHanded
<1> QED  BY <1>1, InHands DEF TypeOK

LEMMA SameQueueKeepsPay ==
    ASSUME IInv, Next, SameQueue
    PROVE  PayInv'
<1>0. TypeOK /\ WorkerInv /\ CellInv /\ PayInv /\ ListInv
  BY DEF IInv
<1>1. \A i \in Hands \cup Queued \cup Ones(batch) : filled'[i] = filled[i]
  BY <1>0, FilledKept
<1>2. Len(order') = enqueue_pos'
  BY <1>0 DEF PayInv, SameQueue
<1>3. \A t \in Publishers : buf'[t] # None => filled'[buf'[t]] # 0
  BY HeldFilled
<1>4. ASSUME NEW t, NEW p, Claims(t, p)'
      PROVE  filled'[buf'[t]] = order'[p + 1]
  <2>1. Claims(t, p)
    BY <1>4 DEF SameQueue
  <2> QED  BY <1>0, <1>1, <2>1, HeldIsHand DEF SameQueue, PayInv
<1>5. ASSUME NEW p \in Stored'
      PROVE  data'[Cell(p)] \in Nodes /\ filled'[data'[Cell(p)]] = order'[p + 1]
  <2>1. p \in Stored
    BY <1>5 DEF SameQueue, Stored
  <2>2. data[Cell(p)] \in Queued
    BY <2>1 DEF Queued
  <2> QED  BY <1>0, <1>1, <2>1, <2>2 DEF SameQueue, PayInv
<1>6. pc'[W] \in Taking => filled'[buf'[W]] = order'[pos'[W] + 1]
  BY <1>0, <1>1, TakenIsHand DEF SameQueue, PayInv
<1>7. /\ Len(batch') <= Freed'
      /\ \A k \in DOMAIN batch' :
             filled'[batch'[k]] = order'[Freed' - Len(batch') + k]
  <2>1. /\ Len(batch) <= Freed /\ Freed' = Freed /\ order' = order
        /\ Freed \in Nat
        /\ \A k \in DOMAIN batch :
               filled[batch[k]] = order[Freed - Len(batch) + k]
    BY <1>0, FreedType DEF PayInv, SameQueue
  <2>2. CASE batch' = batch
    BY <1>0, <1>1, <2>1, <2>2, Orders
  <2>3. CASE Deliver
    <3>1. batch' = Tail(batch) /\ batch # <<>>
      BY <1>0, <2>3 DEF Deliver, Goto, WorkerInv
    <3>2. /\ Len(batch') = Len(batch) - 1 /\ Len(batch) \in Nat \ {0}
          /\ DOMAIN batch' = 1..(Len(batch) - 1) /\ DOMAIN batch = 1..Len(batch)
          /\ \A k \in 1..(Len(batch) - 1) : batch'[k] = batch[k + 1]
      BY <1>0, <3>1, Orders, Beheaded
    <3>3. ASSUME NEW k \in DOMAIN batch'
          PROVE  filled'[batch'[k]] = order'[Freed' - Len(batch') + k]
      <4>1. /\ k + 1 \in DOMAIN batch /\ batch'[k] = batch[k + 1]
            /\ Freed - Len(batch) + (k + 1) = Freed - Len(batch') + k
        BY <2>1, <3>2
      <4>2. filled[batch[k + 1]] = order[Freed - Len(batch) + (k + 1)]
        BY <2>1, <4>1
      <4>3. filled'[batch[k + 1]] = filled[batch[k + 1]]
        BY <1>0, <1>1, <4>1, Orders
      <4> QED  BY <2>1, <4>1, <4>2, <4>3
    <3> QED  BY <2>1, <3>2, <3>3
  <2>4. CASE DequeueStore
    BY <1>0, <2>1, <2>4, GiveBackKeepsCells
  <2> QED  BY <1>0, <2>2, <2>3, <2>4, BatchSteps
<1> HIDE DEF IInv
<1> QED  BY <1>2, <1>3, <1>4, <1>5, <1>6, <1>7 DEF PayInv

\* The other steps leave the payloads and, but for DequeueStore, the batch.
LEMMA QueueLeavesPool ==
    ASSUME TypeOK,
           \/ \E t \in Publishers : \/ EnqueueCas(t) \/ EnqueueData(t)
                                    \/ EnqueueStore(t)
           \/ Dequeue \/ DequeueStore \/ DrainStore
    PROVE  /\ UNCHANGED <<next, free_head, filled, allocs, head, link>>
           /\ batch' = batch \/ DequeueStore
BY DEF EnqueueCas, EnqueueData, EnqueueStore, Dequeue, DequeueStore, DrainStore,
       poolVars, workerVars

LEMMA CasKeepsStored ==
    ASSUME TypeOK, WorkerInv, CellInv, HoldInv, ListInv, NEW t \in Publishers,
           EnqueueCas(t)
    PROVE  Stored' = Stored
<1>1. /\ enqueue_pos' = enqueue_pos + 1 /\ UNCHANGED <<seq, data>>
      /\ seq[Cell(enqueue_pos)] = enqueue_pos /\ dequeue_pos' = dequeue_pos
  BY CasKeepsCells, EnqueueEffect
<1>2. dequeue_pos \in Nat /\ enqueue_pos \in Nat
  BY FreedType
<1>3. Stored' = {p \in dequeue_pos..enqueue_pos : seq[Cell(p)] = p + 1}
  <2>1. enqueue_pos' - 1 = enqueue_pos
    BY <1>1, <1>2
  <2>2. Stored' = {p \in dequeue_pos'..(enqueue_pos' - 1) :
                      seq'[Cell(p)] = p + 1}
    BY DEF Stored
  <2> QED  BY <1>1, <2>1, <2>2
<1>4. seq[Cell(enqueue_pos)] # enqueue_pos + 1
  BY <1>1, <1>2
<1>5. \A p \in dequeue_pos..enqueue_pos :
         p = enqueue_pos \/ p \in dequeue_pos..(enqueue_pos - 1)
  BY <1>2
<1>6. \A p \in dequeue_pos..(enqueue_pos - 1) : p \in dequeue_pos..enqueue_pos
  BY <1>2
<1> QED  BY <1>3, <1>4, <1>5, <1>6 DEF Stored

LEMMA DataKeepsStored ==
    ASSUME TypeOK, WorkerInv, CellInv, NEW t \in Publishers, EnqueueData(t)
    PROVE  /\ Stored' = Stored
           /\ \A p \in Stored : data'[Cell(p)] = data[Cell(p)]
<1>1. /\ Claims(t, pos[t])
      /\ UNCHANGED <<seq, enqueue_pos, dequeue_pos>>
      /\ \A c \in Nodes : c # Cell(pos[t]) => data'[c] = data[c]
  BY DataKeepsCells, EnqueueEffect
<1>2. Stored' = Stored
  BY <1>1 DEF Stored, Cell
<1>3. ASSUME NEW p \in Stored
      PROVE  data'[Cell(p)] = data[Cell(p)]
  <2>1. p # pos[t]
    BY <1>1, StoredInWindow, ClaimInWindow
  <2>2. Cell(p) # Cell(pos[t]) /\ Cell(p) \in Nodes
    BY <1>1, <2>1, StoredInWindow, ClaimInWindow, WindowApart
  <2> QED  BY <1>1, <2>2
<1> QED  BY <1>2, <1>3

LEMMA EnqueueKeepsPay ==
    ASSUME IInv, Next, NEW t \in Publishers,
           EnqueueCas(t) \/ EnqueueData(t) \/ EnqueueStore(t)
    PROVE  PayInv'
<1>0. TypeOK /\ WorkerInv /\ CellInv /\ PayInv /\ ListInv /\ HoldInv
  BY DEF IInv
<1>1. filled' = filled /\ batch' = batch
  BY <1>0, QueueLeavesPool DEF EnqueueCas, EnqueueData, EnqueueStore, workerVars
<1>2. /\ Freed' = Freed /\ pc'[W] = pc[W] /\ pos'[W] = pos[W]
      /\ buf'[W] = buf[W] /\ t \in Threads
      /\ \A u \in Threads : u # t => buf'[u] = buf[u]
  BY <1>0, EnqueueEffect
<1>3. \A u \in Publishers : buf'[u] # None => filled'[buf'[u]] # 0
  BY HeldFilled
<1>4. /\ Freed \in Nat /\ Freed <= enqueue_pos /\ dequeue_pos <= enqueue_pos
      /\ enqueue_pos \in Nat /\ dequeue_pos \in Nat
      /\ (pc[W] \in Taking => pos[W] \in Nat /\ pos[W] < enqueue_pos)
  BY <1>0, FreedType
<1>5. ASSUME /\ Len(order') = enqueue_pos'
             /\ \A n \in 1..enqueue_pos : order'[n] = order[n]
      PROVE  /\ pc'[W] \in Taking => filled'[buf'[W]] = order'[pos'[W] + 1]
             /\ Len(batch') <= Freed'
             /\ \A k \in DOMAIN batch' :
                    filled'[batch'[k]] = order'[Freed' - Len(batch') + k]
  <2>1. pc'[W] \in Taking => filled'[buf'[W]] = order'[pos'[W] + 1]
    <3>1. pc[W] \in Taking => pos[W] + 1 \in 1..enqueue_pos
      BY <1>4
    <3> QED  BY <1>0, <1>1, <1>2, <1>5, <3>1 DEF PayInv
  <2>2. Len(batch) <= Freed /\ Len(batch) \in Nat
    BY <1>0, Orders DEF PayInv
  <2>3. ASSUME NEW k \in DOMAIN batch
        PROVE  filled'[batch[k]] = order'[Freed - Len(batch) + k]
    <3>1. Freed - Len(batch) + k \in 1..enqueue_pos
      BY <1>0, <1>4, <2>2, Orders
    <3> QED  BY <1>0, <1>1, <1>5, <3>1 DEF PayInv
  <2> QED  BY <1>1, <1>2, <2>1, <2>2, <2>3
<1>6. CASE EnqueueCas(t)
  <2>1. /\ \A p : Claims(t, p)' <=> p = enqueue_pos
        /\ enqueue_pos' = enqueue_pos + 1 /\ buf' = buf
        /\ UNCHANGED <<seq, data>>
        /\ order' = Append(order, filled[buf[t]]) /\ buf[t] # None
        /\ seq[Cell(enqueue_pos)] = enqueue_pos
        /\ \A u, p : u # t => (Claims(u, p)' <=> Claims(u, p))
        /\ dequeue_pos' = dequeue_pos
    BY <1>0, <1>6, CasKeepsCells, EnqueueEffect
  <2>2. order \in Seq(Nat) /\ filled[buf[t]] \in Nat
    BY <1>0, <1>2, <2>1, ChannelAssumption DEF TypeOK, Index
  <2>3. /\ Len(order') = enqueue_pos'
        /\ \A n \in 1..enqueue_pos : order'[n] = order[n]
        /\ order'[enqueue_pos + 1] = filled[buf[t]]
    BY <1>0, <2>1, <2>2, Appended, Orders
  <2>4. ASSUME NEW u, NEW p, Claims(u, p)'
        PROVE  filled'[buf'[u]] = order'[p + 1]
    <3>1. CASE u = t
      BY <1>1, <2>1, <2>3, <2>4, <3>1
    <3>2. CASE u # t
      <4>1. Claims(u, p) /\ p \in Nat /\ p < enqueue_pos
        BY <1>0, <2>1, <2>4, <3>2, ClaimInWindow
      <4>2. p + 1 \in 1..enqueue_pos
        BY <1>4, <4>1
      <4> QED  BY <1>0, <1>1, <2>1, <2>3, <4>1, <4>2 DEF PayInv
    <3> QED  BY <3>1, <3>2
  <2>5. Stored' = Stored
    BY <1>0, <1>6, CasKeepsStored
  <2>6. ASSUME NEW p \in Stored'
        PROVE  /\ data'[Cell(p)] \in Nodes
               /\ filled'[data'[Cell(p)]] = order'[p + 1]
    <3>1. p \in Stored /\ p \in Nat /\ p < enqueue_pos
      BY <1>0, <2>5, <2>6, StoredInWindow
    <3>2. p + 1 \in 1..enqueue_pos
      BY <1>4, <3>1
    <3> QED  BY <1>0, <1>1, <2>1, <2>3, <3>1, <3>2 DEF PayInv
  <2> QED  BY <1>3, <1>5, <2>3, <2>4, <2>6 DEF PayInv
<1>7. CASE EnqueueData(t)
  <2>1. /\ \A u, p : Claims(u, p)' <=> Claims(u, p)
        /\ Claims(t, pos[t]) /\ buf' = buf
        /\ UNCHANGED <<seq, enqueue_pos, order, dequeue_pos>>
        /\ \A c \in Nodes : c # Cell(pos[t]) => data'[c] = data[c]
    BY <1>0, <1>7, DataKeepsCells, EnqueueEffect
  <2>2. Stored' = Stored /\ \A p \in Stored : data'[Cell(p)] = data[Cell(p)]
    BY <1>0, <1>7, DataKeepsStored
  <2>4. ASSUME NEW p \in Stored'
        PROVE  /\ data'[Cell(p)] \in Nodes
               /\ filled'[data'[Cell(p)]] = order'[p + 1]
    BY <1>0, <1>1, <2>1, <2>2, <2>4 DEF PayInv
  <2>5. ASSUME NEW u, NEW p, Claims(u, p)'
        PROVE  filled'[buf'[u]] = order'[p + 1]
    BY <1>0, <1>1, <2>1, <2>5 DEF PayInv
  <2>6. Len(order') = enqueue_pos'
    BY <1>0, <2>1 DEF PayInv
  <2> QED  BY <1>3, <1>5, <2>1, <2>4, <2>5, <2>6 DEF PayInv
<1>8. CASE EnqueueStore(t)
  <2>1. /\ \A u, p : Claims(u, p)' <=> (Claims(u, p) /\ u # t)
        /\ Claims(t, pos[t])
        /\ UNCHANGED <<data, enqueue_pos, order>>
        /\ data[Cell(pos[t])] = buf[t]
        /\ Stored' = Stored \cup {pos[t]}
    BY <1>0, <1>8, StoreKeepsCells
  <2>2. ASSUME NEW p \in Stored'
        PROVE  /\ data[Cell(p)] \in Nodes
               /\ filled[data[Cell(p)]] = order[p + 1]
    <3>1. CASE p \in Stored
      BY <1>0, <3>1 DEF PayInv
    <3>2. CASE p = pos[t]
      <4>1. buf[t] \in Nodes
        BY <1>0, <2>1, ClaimType
      <4> QED  BY <1>0, <2>1, <3>2, <4>1 DEF PayInv
    <3> QED  BY <2>1, <2>2, <3>1, <3>2
  <2>3. ASSUME NEW u, NEW p, Claims(u, p)'
        PROVE  filled'[buf'[u]] = order'[p + 1]
    <3>1. Claims(u, p) /\ u # t /\ u \in Threads
      BY <1>0, <2>1, <2>3, ClaimType
    <3> QED  BY <1>0, <1>1, <1>2, <2>1, <3>1 DEF PayInv
  <2>4. Len(order') = enqueue_pos'
    BY <1>0, <2>1 DEF PayInv
  <2>5. \A p \in Stored' : /\ data'[Cell(p)] \in Nodes
                           /\ filled'[data'[Cell(p)]] = order'[p + 1]
    BY <1>1, <2>1, <2>2
  <2> QED  BY <1>3, <1>5, <2>1, <2>3, <2>4, <2>5 DEF PayInv
<1> QED  BY <1>6, <1>7, <1>8

LEMMA TakeKeepsPay ==
    ASSUME IInv, Next, Dequeue \/ DequeueStore \/ DrainStore
    PROVE  PayInv'
<1>0. TypeOK /\ WorkerInv /\ CellInv /\ PayInv /\ ListInv
  BY DEF IInv
<1>1. filled' = filled
  BY <1>0, QueueLeavesPool
<1>2. \A u \in Publishers : buf'[u] # None => filled'[buf'[u]] # 0
  BY HeldFilled
<1>3. W \in Threads /\ \A u \in Publishers : u \in Threads /\ u # W
  BY ChannelAssumption DEF Threads, W
<1>4. CASE Dequeue
  <2>1. /\ \A u, p : Claims(u, p)' <=> Claims(u, p)
        /\ UNCHANGED <<seq, data, enqueue_pos, order, pos, batch>>
        /\ pos[W] = dequeue_pos /\ Freed' = Freed
        /\ dequeue_pos \in Stored /\ Stored' = Stored \ {dequeue_pos}
        /\ buf' = [buf EXCEPT ![W] = data[Cell(dequeue_pos)]]
    BY <1>0, <1>4, DequeueKeepsCells
  <2>2. ASSUME NEW u, NEW p, Claims(u, p)'
        PROVE  filled'[buf'[u]] = order'[p + 1]
    <3>1. Claims(u, p) /\ buf'[u] = buf[u]
      BY <1>0, <1>3, <2>1, <2>2 DEF Claims, TypeOK
    <3> QED  BY <1>0, <1>1, <2>1, <3>1 DEF PayInv
  <2>3. \A p \in Stored' : /\ data'[Cell(p)] \in Nodes
                           /\ filled'[data'[Cell(p)]] = order'[p + 1]
    BY <1>0, <1>1, <2>1 DEF PayInv
  <2>4. filled'[buf'[W]] = order'[pos'[W] + 1]
    <3>1. buf'[W] = data[Cell(dequeue_pos)]
      BY <1>0, <1>3, <2>1 DEF TypeOK
    <3> QED  BY <1>0, <1>1, <2>1, <3>1 DEF PayInv
  <2>5. /\ Len(order') = enqueue_pos' /\ Len(batch') <= Freed'
        /\ \A k \in DOMAIN batch' :
               filled'[batch'[k]] = order'[Freed' - Len(batch') + k]
    BY <1>0, <1>1, <2>1 DEF PayInv
  <2> QED  BY <1>2, <2>2, <2>3, <2>4, <2>5 DEF PayInv
<1>5. CASE DequeueStore \/ DrainStore
  <2>1. /\ \A u, p : Claims(u, p)' <=> Claims(u, p)
        /\ UNCHANGED <<data, enqueue_pos, dequeue_pos, order>>
        /\ Freed' = Freed + 1 /\ Freed = pos[W] /\ Stored' = Stored
        /\ pc'[W] \notin Taking /\ pc[W] \in Taking
        /\ \A u \in Publishers : buf'[u] = buf[u]
    BY <1>0, <1>5, GiveBackKeepsCells
  <2>2. ASSUME NEW u, NEW p, Claims(u, p)'
        PROVE  filled'[buf'[u]] = order'[p + 1]
    <3>1. Claims(u, p) /\ buf'[u] = buf[u]
      BY <2>1, <2>2 DEF Claims
    <3> QED  BY <1>0, <1>1, <2>1, <3>1 DEF PayInv
  <2>3. \A p \in Stored' : /\ data'[Cell(p)] \in Nodes
                           /\ filled'[data'[Cell(p)]] = order'[p + 1]
    BY <1>0, <1>1, <2>1 DEF PayInv
  <2>4. /\ Len(batch) <= Freed /\ Freed \in Nat
        /\ batch \in Seq(Nodes) /\ Len(batch) \in Nat
        /\ DOMAIN batch = 1..Len(batch)
        /\ \A k \in DOMAIN batch :
               filled[batch[k]] = order[Freed - Len(batch) + k]
    BY <1>0, Orders, FreedType DEF PayInv
  <2>5. /\ Len(batch') <= Freed'
        /\ \A k \in DOMAIN batch' :
               filled'[batch'[k]] = order'[Freed' - Len(batch') + k]
    <3>1. CASE DrainStore
      <4>1. batch' = <<>>
        BY <1>0, <3>1 DEF DrainStore, Goto, WorkerInv, Draining, workerVars
      <4> QED  BY <2>1, <2>4, <4>1
    <3>2. CASE DequeueStore
      <4>1. batch' = Append(batch, buf[W]) /\ buf[W] \in Nodes
        <5>1. buf[W] \in Hands
          BY <1>0, <2>1, TakenIsHand
        <5> QED  BY <1>0, <3>2, <5>1, Apart DEF DequeueStore
      <4>2. /\ Len(batch') = Len(batch) + 1
            /\ DOMAIN batch' = 1..(Len(batch) + 1)
            /\ \A k \in 1..Len(batch) : batch'[k] = batch[k]
            /\ batch'[Len(batch) + 1] = buf[W]
        BY <2>4, <4>1, Appended
      <4>3. ASSUME NEW k \in DOMAIN batch'
            PROVE  filled'[batch'[k]] = order'[Freed' - Len(batch') + k]
        <5>1. Freed' - Len(batch') + k = Freed - Len(batch) + k
          BY <2>1, <2>4, <4>2
        <5>2. CASE k \in 1..Len(batch)
          BY <1>1, <2>1, <2>4, <4>2, <5>1, <5>2
        <5>3. CASE k = Len(batch) + 1
          <6>1. Freed' - Len(batch') + k = pos[W] + 1
            BY <2>1, <2>4, <5>1, <5>3
          <6>2. filled[buf[W]] = order[pos[W] + 1]
            BY <1>0, <2>1 DEF PayInv
          <6> QED  BY <1>1, <2>1, <4>2, <5>3, <6>1, <6>2
        <5>4. k \in 1..Len(batch) \/ k = Len(batch) + 1
          BY <2>4, <4>2
        <5> QED  BY <5>2, <5>3, <5>4
      <4> QED  BY <2>1, <2>4, <4>2, <4>3
    <3> QED  BY <1>5, <3>1, <3>2
  <2>6. Len(order') = enqueue_pos'
    BY <1>0, <2>1 DEF PayInv
  <2> QED  BY <1>2, <2>1, <2>2, <2>3, <2>5, <2>6 DEF PayInv
<1> QED  BY <1>4, <1>5

LEMMA NextPay == IInv /\ Next => PayInv'
BY QueueSteps, SameQueueKeepsPay, EnqueueKeepsPay, TakeKeepsPay DEF IInv

-----------------------------------------------------------------------------
(* Buffers: what a step may do to the hands of one thread. *)

StepOf(u) ==
    \/ /\ u \in Publishers
       /\ \/ AcquireLoad(u) \/ Drop(u) \/ PublishHandle(u) \/ PublishSteps(u)
          \/ \E v \in Publishers : Give(u, v) \/ Give(v, u)
    \/ u = W /\ (WorkerSteps \/ Start)

LEMMA StepsOfThreads ==
    ASSUME TypeOK, Next, NEW u \in Threads
    PROVE  \/ StepOf(u)
           \/ /\ pc'[u] = pc[u] /\ head'[u] = head[u] /\ link'[u] = link[u]
              /\ buf'[u] = buf[u]
<1> DEFINE Stays == /\ pc'[u] = pc[u] /\ head'[u] = head[u]
                    /\ link'[u] = link[u] /\ buf'[u] = buf[u]
<1>0. \A t \in Publishers : t \in Threads
  BY DEF Threads
<1>1. ASSUME NEW t \in Threads, t # u, ReleaseSteps(t)
      PROVE  Stays
  BY <1>1 DEF ReleaseSteps, ReleaseLoad, ReleaseStore, ReleaseCas, ReleaseRetry,
              Goto, TypeOK
<1>2. ASSUME NEW t \in Publishers, t # u,
             AcquireLoad(t) \/ Drop(t) \/ PublishHandle(t) \/ PublishSteps(t)
      PROVE  Stays
  <2>1. CASE \/ AcquireLoad(t) \/ AcquireNext(t) \/ AcquireCas(t)
             \/ AcquireRetry(t)
    BY <1>0, <1>2, <2>1 DEF AcquireLoad, AcquireNext, AcquireCas, AcquireRetry,
                            Goto, TypeOK
  <2>2. CASE Drop(t) \/ PublishHandle(t) \/ EnqueueReload(t) \/ EnqueueSeq(t)
    BY <1>0, <1>2, <2>2 DEF Drop, PublishHandle, EnqueueReload, PosLoad,
                            EnqueueSeq, Goto, TypeOK
  <2>3. CASE \/ EnqueueCas(t) \/ EnqueueRetry(t) \/ EnqueueData(t)
             \/ EnqueueStore(t)
    BY <1>0, <1>2, <2>3 DEF EnqueueCas, EnqueueRetry, EnqueueData, EnqueueStore,
                            Goto, TypeOK
  <2>4. CASE ReleaseSteps(t)
    BY <1>0, <1>1, <1>2, <2>4
  <2> QED  BY <1>2, <2>1, <2>2, <2>3, <2>4 DEF PublishSteps
<1>3. ASSUME NEW t \in Publishers, NEW v \in Publishers, Give(t, v)
      PROVE  Stays \/ u = t \/ u = v
  BY <1>0, <1>3 DEF Give, TypeOK
<1>4. ASSUME WorkerSteps, u # W
      PROVE  Stays
  <2>0. W \in Threads
    BY DEF Threads, W
  <2>1. CASE Check \/ Dequeue \/ DequeueStore \/ DrainStore
    BY <2>0, <1>4, <2>1 DEF Check, Dequeue, DequeueStore, DrainStore, Goto,
                            TypeOK
  <2>2. CASE Idle \/ Drained \/ CopyHandlers \/ Deliver
    BY <2>0, <1>4, <2>2 DEF Idle, Drained, CopyHandlers, Deliver, Goto, TypeOK
  <2>3. CASE ReleaseSteps(W)
    BY <2>0, <1>1, <1>4, <2>3
  <2> QED  BY <1>4, <2>1, <2>2, <2>3 DEF WorkerSteps, W
<1>5. ASSUME Start
      PROVE  StepOf(u) \/ Stays
  BY <1>5 DEF Start, StepOf, TypeOK
<1>6. ASSUME (\E s \in Subs : Subscribe(s) \/ Reset(s)) \/ StopFlag \/ StopJoin
      PROVE  Stays
  BY <1>6 DEF Subscribe, Reset, StopFlag, StopJoin, localVars
<1>7. u \in Publishers \/ u = W
  BY DEF Threads, W
<1> HIDE DEF Stays
<1>8. StepOf(u) \/ Stays
  <2>1. ASSUME NEW t \in Publishers,
             AcquireLoad(t) \/ Drop(t) \/ PublishHandle(t) \/ PublishSteps(t)
        PROVE  StepOf(u) \/ Stays
    <3>1. CASE t = u
      BY <2>1, <3>1 DEF StepOf
    <3> QED  BY <1>2, <2>1, <3>1
  <2>2. ASSUME NEW t \in Publishers, NEW v \in Publishers, Give(t, v)
        PROVE  StepOf(u) \/ Stays
    BY <1>3, <2>2 DEF StepOf
  <2>3. CASE WorkerSteps
    BY <1>4, <2>3 DEF StepOf
  <2> QED  BY <1>5, <1>6, <2>1, <2>2, <2>3 DEF Next
<1> QED  BY <1>8 DEF Stays

\* How a thread comes to compare and swap, and to read free_head.
LEMMA ToAcquireCas ==
    ASSUME TypeOK, Next, NEW u \in Publishers, pc'[u] = "acquire_cas"
    PROVE  \/ AcquireNext(u)
           \/ /\ pc[u] = "acquire_cas" /\ head'[u] = head[u]
              /\ link'[u] = link[u]
<1>1. u \in Threads /\ u # W /\ \A v \in Publishers : v \in Threads
  BY ChannelAssumption DEF Threads, W
<1>2. CASE \E v \in Publishers : Give(u, v) \/ Give(v, u)
  BY <1>1, <1>2 DEF Give, TypeOK
<1>3. CASE ReleaseSteps(u)
  BY <1>1, <1>3 DEF ReleaseSteps, ReleaseLoad, ReleaseStore, ReleaseCas,
                    ReleaseRetry, Released, Goto, TypeOK, Release, W
<1>4. CASE \/ AcquireLoad(u) \/ Drop(u) \/ PublishHandle(u) \/ AcquireCas(u)
           \/ AcquireRetry(u)
  BY <1>1, <1>4 DEF AcquireLoad, Drop, PublishHandle, PosLoad, AcquireCas,
                    AcquireRetry, Goto, TypeOK, Release
<1>5. CASE \/ EnqueueReload(u) \/ EnqueueSeq(u) \/ EnqueueCas(u)
           \/ EnqueueRetry(u) \/ EnqueueData(u) \/ EnqueueStore(u)
  BY <1>1, <1>5 DEF EnqueueReload, PosLoad, EnqueueSeq, EnqueueCas,
                    EnqueueRetry, EnqueueData, EnqueueStore, Goto, TypeOK,
                    Release
<1> QED  BY <1>1, <1>2, <1>3, <1>4, <1>5, StepsOfThreads
         DEF StepOf, PublishSteps

LEMMA ToAcquiring ==
    ASSUME TypeOK, Next, NEW u \in Publishers, pc'[u] \in Acquiring
    PROVE  \/ pc[u] \in Acquiring /\ head'[u] = head[u]
           \/ /\ head'[u] = free_head /\ free_head # None
              /\ (AcquireLoad(u) \/ AcquireRetry(u))
<1>1. u \in Threads /\ u # W /\ \A v \in Publishers : v \in Threads
  BY ChannelAssumption DEF Threads, W
<1>2. CASE \E v \in Publishers : Give(u, v) \/ Give(v, u)
  BY <1>1, <1>2 DEF Give, TypeOK, Acquiring
<1>3. CASE ReleaseSteps(u)
  BY <1>1, <1>3 DEF ReleaseSteps, ReleaseLoad, ReleaseStore, ReleaseCas,
                    ReleaseRetry, Released, Goto, TypeOK, Release, W, Acquiring
<1>4. CASE \/ AcquireLoad(u) \/ Drop(u) \/ PublishHandle(u) \/ AcquireCas(u)
           \/ AcquireRetry(u) \/ AcquireNext(u)
  BY <1>1, <1>4 DEF AcquireLoad, Drop, PublishHandle, PosLoad, AcquireCas,
                    AcquireRetry, AcquireNext, Goto, TypeOK, Release, Acquiring
<1>5. CASE \/ EnqueueReload(u) \/ EnqueueSeq(u) \/ EnqueueCas(u)
           \/ EnqueueRetry(u) \/ EnqueueData(u) \/ EnqueueStore(u)
  BY <1>1, <1>5 DEF EnqueueReload, PosLoad, EnqueueSeq, EnqueueCas,
                    EnqueueRetry, EnqueueData, EnqueueStore, Goto, TypeOK,
                    Release, Acquiring
<1> QED  BY <1>1, <1>2, <1>3, <1>4, <1>5, StepsOfThreads
         DEF StepOf, PublishSteps, Acquiring

LEMMA ToReleaseCas ==
    ASSUME TypeOK, Next, NEW u \in Threads, pc'[u] = "release_cas"
    PROVE  \/ ReleaseStore(u)
           \/ /\ pc[u] = "release_cas" /\ head'[u] = head[u]
              /\ buf'[u] = buf[u]
<1>1. \A v \in Publishers : v \in Threads
  BY DEF Threads
<1>2. CASE u \in Publishers /\ \E v \in Publishers : Give(u, v) \/ Give(v, u)
  BY <1>1, <1>2 DEF Give, TypeOK
<1>3. CASE ReleaseLoad(u) \/ ReleaseCas(u) \/ ReleaseRetry(u)
  BY <1>3 DEF ReleaseLoad, ReleaseCas, ReleaseRetry, Released, Goto, TypeOK
<1>4. CASE \/ AcquireLoad(u) \/ Drop(u) \/ PublishHandle(u) \/ AcquireCas(u)
           \/ AcquireRetry(u) \/ AcquireNext(u)
  BY <1>1, <1>4 DEF AcquireLoad, Drop, PublishHandle, PosLoad, AcquireCas,
                    AcquireRetry, AcquireNext, Goto, TypeOK, Release
<1>5. CASE \/ EnqueueReload(u) \/ EnqueueSeq(u) \/ EnqueueCas(u)
           \/ EnqueueRetry(u) \/ EnqueueData(u) \/ EnqueueStore(u)
  BY <1>1, <1>5 DEF EnqueueReload, PosLoad, EnqueueSeq, EnqueueCas,
                    EnqueueRetry, EnqueueData, EnqueueStore, Goto, TypeOK,
                    Release
<1>6. CASE u = W /\ (Check \/ Dequeue \/ DequeueStore \/ DrainStore \/ Start)
  BY <1>6 DEF Check, Dequeue, DequeueStore, DrainStore, Start, Goto, TypeOK,
              Release
<1>7. CASE u = W /\ (Idle \/ Drained \/ CopyHandlers \/ Deliver)
  BY <1>7 DEF Idle, Drained, CopyHandlers, Deliver, Goto, TypeOK, Release
<1> QED  BY <1>1, <1>2, <1>3, <1>4, <1>5, <1>6, <1>7, StepsOfThreads
         DEF StepOf, PublishSteps, WorkerSteps, ReleaseSteps, W

-----------------------------------------------------------------------------
(* Buffers: what moves where. *)

LEMMA HandTaken ==
    ASSUME TypeOK, HoldInv, NEW t \in Threads, NEW x \in Nodes, buf[t] = None,
           x \notin Hands, buf' = [buf EXCEPT ![t] = x]
    PROVE  /\ Hands' = Hands \cup {x}
           /\ \A u, v \in Threads : buf'[u] = buf'[v] /\ buf'[u] # None => u = v
<1>1. buf'[t] = x /\ \A u \in Threads : u # t => buf'[u] = buf[u]
  BY DEF TypeOK
<1>2. x # None
  BY ChannelAssumption
<1>3. \A u \in Threads : buf'[u] # None => buf'[u] \in Hands \cup {x}
  BY <1>1 DEF Hands
<1>4. \A u \in Threads : buf[u] # None => u # t /\ buf[u] = buf'[u]
  BY <1>1
<1>5. Hands' = {buf'[u] : u \in Threads} \ {None}
  BY DEF Hands
<1>6. Hands' = Hands \cup {x}
  <2>1. \A i \in Hands' : i \in Hands \cup {x}
    BY <1>3, <1>5
  <2>2. \A i \in Hands : i \in Hands'
    BY <1>4, <1>5 DEF Hands
  <2>3. x \in Hands'
    BY <1>1, <1>2, <1>5
  <2> QED  BY <2>1, <2>2, <2>3
<1>7. \A u \in Threads : u # t => buf'[u] # x
  BY <1>1, <1>2 DEF Hands
<1> QED  BY <1>1, <1>6, <1>7 DEF HoldInv

LEMMA HandEmptied ==
    ASSUME TypeOK, HoldInv, NEW t \in Threads, buf[t] # None,
           buf' = [buf EXCEPT ![t] = None]
    PROVE  /\ Hands' = Hands \ {buf[t]} /\ buf[t] \in Hands
           /\ \A u, v \in Threads : buf'[u] = buf'[v] /\ buf'[u] # None => u = v
<1>1. buf'[t] = None /\ \A u \in Threads : u # t => buf'[u] = buf[u]
  BY DEF TypeOK
<1>2. Hands' = {buf'[u] : u \in Threads} \ {None}
  BY DEF Hands
<1>3. \A u \in Threads : u # t /\ buf[u] # None => buf[u] # buf[t]
  BY DEF HoldInv
<1>4. Hands' = Hands \ {buf[t]}
  <2>1. \A i \in Hands' : i \in Hands /\ i # buf[t]
    BY <1>1, <1>2, <1>3 DEF Hands
  <2>2. \A i \in Hands : i # buf[t] => i \in Hands'
    BY <1>1, <1>2 DEF Hands
  <2> QED  BY <2>1, <2>2
<1> QED  BY <1>1, <1>4, InHands DEF HoldInv

\* Most steps leave the buffers where they are.
Stay == /\ buf' = buf /\ batch' = batch
        /\ Stored' = Stored
        /\ \A p \in Stored : data'[Cell(p)] = data[Cell(p)]

LEMMA StayKeeps ==
    ASSUME HoldInv, Stay
    PROVE  HoldInv' /\ Hands' = Hands /\ Queued' = Queued
<1>1. Hands' = Hands
  BY DEF Hands, Stay
<1>2. Queued' = Queued
  BY DEF Queued, Stay
<1> QED  BY <1>1, <1>2 DEF HoldInv, Stay

Moves ==
    \/ \E t \in Publishers : AcquireCas(t) \/ EnqueueStore(t)
    \/ \E t, u \in Publishers : Give(t, u)
    \/ \E t \in Threads : ReleaseCas(t)
    \/ Dequeue \/ DequeueStore \/ Deliver

\* The steps that move a buffer.
LEMMA StepsThatMove ==
    ASSUME IInv, Next
    PROVE  Stay \/ Moves
<1>0. TypeOK /\ WorkerInv /\ CellInv /\ HoldInv /\ ListInv
  BY DEF IInv
<1>1. CASE \E t \in Publishers : EnqueueCas(t) \/ EnqueueData(t)
  <2>1. PICK t \in Publishers : EnqueueCas(t) \/ EnqueueData(t)
    BY <1>1
  <2>2. buf' = buf /\ batch' = batch
    BY <2>1 DEF EnqueueCas, EnqueueData, workerVars
  <2>3. Stored' = Stored /\ \A p \in Stored : data'[Cell(p)] = data[Cell(p)]
    <3>1. CASE EnqueueCas(t)
      BY <1>0, <3>1, CasKeepsStored DEF EnqueueCas
    <3>2. CASE EnqueueData(t)
      BY <1>0, <3>2, DataKeepsStored
    <3> QED  BY <2>1, <3>1, <3>2
  <2> QED  BY <2>2, <2>3 DEF Stay
<1>2. CASE DrainStore
  <2>1. buf' = buf /\ batch' = batch
    BY <1>2 DEF DrainStore, workerVars
  <2> QED  BY <1>0, <1>2, <2>1, GiveBackKeepsCells DEF Stay
<1>3. CASE SameQueue /\ ~Moves
  <2>1. Stored' = Stored /\ data' = data
    BY <1>3 DEF SameQueue, Stored, Cell
  <2>2. batch' = batch
    BY <1>0, <1>3, BatchSteps DEF Moves
  <2>3. \A u \in Threads : buf'[u] = buf[u]
    <3> SUFFICES ASSUME NEW u \in Threads  PROVE buf'[u] = buf[u]
      OBVIOUS
    <3>1. CASE ReleaseSteps(u)
      BY <1>3, <3>1 DEF Moves, ReleaseSteps, ReleaseLoad, ReleaseStore,
                        ReleaseRetry
    <3>2. CASE u \in Publishers /\
               \/ AcquireLoad(u) \/ Drop(u) \/ PublishHandle(u)
               \/ AcquireNext(u) \/ AcquireRetry(u) \/ EnqueueReload(u)
               \/ EnqueueSeq(u) \/ EnqueueRetry(u) \/ EnqueueCas(u)
               \/ EnqueueData(u)
      BY <3>2 DEF AcquireLoad, Drop, PublishHandle, PosLoad, AcquireNext,
         AcquireRetry, EnqueueReload, EnqueueSeq, EnqueueRetry, EnqueueCas,
         EnqueueData
    <3>3. CASE u = W /\
               (Check \/ DrainStore \/ Idle \/ Drained \/ CopyHandlers \/ Start)
      BY <3>3 DEF Check, DrainStore, Idle, Drained, CopyHandlers, Start
    <3> QED  BY <1>0, <1>3, <3>1, <3>2, <3>3, StepsOfThreads
             DEF StepOf, Moves, PublishSteps, WorkerSteps, W
  <2>4. buf' = buf
    <3>1. DOMAIN buf' = Threads /\ buf' = [u \in Threads |-> buf'[u]]
      BY NextType DEF IInv, TypeOK
    <3>2. buf = [u \in Threads |-> buf[u]]
      BY <1>0 DEF TypeOK
    <3> QED  BY <2>3, <3>1, <3>2
  <2> QED  BY <2>1, <2>2, <2>4 DEF Stay
<1> QED  BY <1>0, <1>1, <1>2, <1>3, QueueSteps DEF Moves

\* Each move, by what it takes from one place and adds to another.
LEMMA MovesOfHands ==
    ASSUME IInv, Next,
           \/ \E t \in Publishers : AcquireCas(t)
           \/ \E t, u \in Publishers : Give(t, u)
           \/ \E t \in Threads : ReleaseCas(t)
    PROVE  /\ HoldInv' /\ Queued' = Queued /\ batch' = batch
           /\ \A t \in Publishers : AcquireCas(t) =>
                 Hands' = Hands \cup {head[t]} /\ head[t] \in Nodes
           /\ (\E t, u \in Publishers : Give(t, u)) => Hands' = Hands
           /\ \A t \in Threads : ReleaseCas(t) =>
                 Hands' = Hands \ {buf[t]} /\ buf[t] \in Hands
<1>0. /\ TypeOK /\ HoldInv /\ ListInv
      /\ \A t \in Publishers : t \in Threads
  BY DEF IInv, Threads
<1>1. UNCHANGED <<seq, data, enqueue_pos, dequeue_pos, batch>>
  BY DEF AcquireCas, Give, ReleaseCas, queueVars, workerVars
<1>2. Stored' = Stored /\ Queued' = Queued
  BY <1>1 DEF Stored, Queued, Cell
<1>3. (\A u, v \in Threads : buf'[u] = buf'[v] /\ buf'[u] # None => u = v)
         => HoldInv'
  BY <1>0, <1>1, <1>2 DEF HoldInv
<1>4. ASSUME NEW t \in Publishers, AcquireCas(t)
      PROVE  /\ HoldInv' /\ head[t] \in Nodes
             /\ Hands' = Hands \cup {head[t]}
  <2>1. PICK list \in Lists : Listed(list)
    BY <1>0 DEF ListInv
  <2>2. PICK x : x = head[t]
    OBVIOUS
  <2>3. x \in Ones(list) /\ x \in Nodes /\ x \notin Hands
    BY <1>4, <2>1, <2>2 DEF AcquireCas, Goto, Listed, Acquiring, Partition
  <2>4. buf[t] = None /\ buf' = [buf EXCEPT ![t] = x]
    BY <1>0, <1>4, <2>2 DEF AcquireCas, Goto, TypeOK, EmptyHanded
  <2> QED  BY <1>0, <1>3, <2>2, <2>3, <2>4, HandTaken
<1>5. ASSUME NEW t \in Publishers, NEW u \in Publishers, Give(t, u)
      PROVE  HoldInv' /\ Hands' = Hands
  <2>1. /\ buf'[u] = buf[t] /\ buf[u] = None /\ buf[t] # None /\ t # u
        /\ buf'[t] = None
        /\ \A v \in Threads : v # t /\ v # u => buf'[v] = buf[v]
    BY <1>0, <1>5 DEF Give, TypeOK, EmptyHanded
  <2>2. \A v, w \in Threads : buf'[v] = buf'[w] /\ buf'[v] # None => v = w
    BY <1>0, <2>1 DEF HoldInv
  <2>3. Hands' = {buf'[v] : v \in Threads} \ {None}
    BY DEF Hands
  <2>4. \A i \in Hands' : i \in Hands
    BY <1>0, <2>1, <2>3 DEF Hands
  <2>5. \A i \in Hands : i \in Hands'
    BY <1>0, <2>1, <2>3 DEF Hands
  <2> QED  BY <1>3, <2>2, <2>4, <2>5
<1>6. ASSUME NEW t \in Threads, ReleaseCas(t)
      PROVE  HoldInv' /\ Hands' = Hands \ {buf[t]} /\ buf[t] \in Hands
  <2>1. buf[t] # None /\ buf' = [buf EXCEPT ![t] = None]
    BY <1>0, <1>6 DEF ReleaseCas, Goto, TypeOK, EmptyHanded
  <2> QED  BY <1>0, <1>3, <2>1, HandEmptied
<1> QED  BY <1>1, <1>2, <1>4, <1>5, <1>6

LEMMA MovesOfQueue ==
    ASSUME IInv, Next, NEW t \in Publishers, EnqueueStore(t)
    PROVE  /\ HoldInv' /\ Hands' = Hands \ {buf[t]} /\ buf[t] \in Hands
           /\ Queued' = Queued \cup {buf[t]} /\ batch' = batch
<1>0. /\ TypeOK /\ WorkerInv /\ CellInv /\ HoldInv /\ ListInv
      /\ t \in Threads
  BY DEF IInv, Threads
<1>1. /\ UNCHANGED data /\ data[Cell(pos[t])] = buf[t]
      /\ Stored' = Stored \cup {pos[t]}
      /\ buf' = [buf EXCEPT ![t] = None] /\ buf[t] # None
  BY <1>0, StoreKeepsCells, ClaimType
<1>2. batch' = batch
  BY DEF EnqueueStore, workerVars
<1>3. /\ Hands' = Hands \ {buf[t]} /\ buf[t] \in Hands
      /\ \A u, v \in Threads : buf'[u] = buf'[v] /\ buf'[u] # None => u = v
  BY <1>0, <1>1, HandEmptied
<1>4. Queued' = {data[Cell(p)] : p \in Stored \cup {pos[t]}}
  BY <1>1 DEF Queued
<1>5. Queued' = Queued \cup {buf[t]}
  BY <1>1, <1>4 DEF Queued
<1>6. \A p \in Stored : data[Cell(p)] # buf[t]
  BY <1>0, <1>3, Apart DEF Queued
<1>7. HoldInv'
  BY <1>0, <1>1, <1>2, <1>3, <1>6 DEF HoldInv
<1> QED  BY <1>2, <1>3, <1>5, <1>7

LEMMA MovesOfDequeue ==
    ASSUME IInv, Next, Dequeue
    PROVE  /\ HoldInv' /\ batch' = batch
           /\ \E x \in Queued : /\ Hands' = Hands \cup {x}
                                /\ Queued' = Queued \ {x}
<1>0. /\ TypeOK /\ WorkerInv /\ CellInv /\ HoldInv /\ ListInv
      /\ W \in Threads
  BY DEF IInv, Threads, W
<1>1. /\ UNCHANGED <<data, batch>> /\ dequeue_pos \in Stored
      /\ Stored' = Stored \ {dequeue_pos}
      /\ buf' = [buf EXCEPT ![W] = data[Cell(dequeue_pos)]]
  BY <1>0, DequeueKeepsCells
<1>2. buf[W] = None
  BY <1>0 DEF Dequeue, Goto, TypeOK, EmptyHanded
<1>3. PICK x : x = data[Cell(dequeue_pos)]
  OBVIOUS
<1>4. x \in Queued /\ x \in Nodes /\ x \notin Hands
  BY <1>0, <1>1, <1>3, Apart DEF Queued
<1>5. /\ Hands' = Hands \cup {x}
      /\ \A u, v \in Threads : buf'[u] = buf'[v] /\ buf'[u] # None => u = v
  BY <1>0, <1>1, <1>2, <1>3, <1>4, HandTaken
<1>6. Queued' = {data[Cell(p)] : p \in Stored \ {dequeue_pos}}
  BY <1>1 DEF Queued
<1>7. \A p \in Stored : data[Cell(p)] = x => p = dequeue_pos
  BY <1>0, <1>1, <1>3 DEF HoldInv
<1>8. Queued' = Queued \ {x}
  BY <1>1, <1>3, <1>6, <1>7 DEF Queued
<1>9. HoldInv'
  BY <1>0, <1>1, <1>5 DEF HoldInv
<1> QED  BY <1>1, <1>4, <1>5, <1>8, <1>9

LEMMA MovesOfBatch ==
    ASSUME IInv, Next, DequeueStore \/ Deliver
    PROVE  /\ HoldInv' /\ Queued' = Queued
           /\ \/ /\ \E x \in Hands : /\ Hands' = Hands \ {x}
                                     /\ Ones(batch') = Ones(batch) \cup {x}
              \/ /\ \E x \in Ones(batch) : /\ Hands' = Hands \cup {x}
                                           /\ Ones(batch') = Ones(batch) \ {x}
<1>0. /\ TypeOK /\ WorkerInv /\ CellInv /\ HoldInv /\ ListInv /\ W \in Threads
      /\ batch \in Seq(Nodes)
  BY DEF IInv, Threads, W, TypeOK
<1>1. CASE DequeueStore
  <2>1. UNCHANGED data /\ Stored' = Stored
    BY <1>0, <1>1, GiveBackKeepsCells
  <2>2. /\ buf[W] # None /\ buf' = [buf EXCEPT ![W] = None]
        /\ batch' = Append(batch, buf[W])
    BY <1>0, <1>1 DEF DequeueStore, Goto, TypeOK, EmptyHanded
  <2>3. /\ Hands' = Hands \ {buf[W]} /\ buf[W] \in Hands
        /\ \A u, v \in Threads : buf'[u] = buf'[v] /\ buf'[u] # None => u = v
    BY <1>0, <2>2, HandEmptied
  <2>4. buf[W] \in Nodes /\ buf[W] \notin Ones(batch)
    BY <1>0, <2>3, Apart
  <2>5. Ones(batch') = Ones(batch) \cup {buf[W]} /\ Distinct(batch')
    BY <1>0, <2>2, <2>4, Appended DEF HoldInv
  <2>6. Queued' = Queued
    BY <2>1 DEF Queued
  <2>7. HoldInv'
    BY <1>0, <2>1, <2>3, <2>5 DEF HoldInv
  <2> QED  BY <2>3, <2>5, <2>6, <2>7
<1>2. CASE Deliver
  <2>1. UNCHANGED <<data, seq, enqueue_pos, dequeue_pos>>
    BY <1>2 DEF Deliver, queueVars
  <2>2. Stored' = Stored /\ Queued' = Queued
    BY <2>1 DEF Stored, Queued, Cell
  <2>3. /\ buf[W] = None /\ buf' = [buf EXCEPT ![W] = Head(batch)]
        /\ batch' = Tail(batch) /\ batch # <<>>
    BY <1>0, <1>2 DEF Deliver, Goto, TypeOK, EmptyHanded, WorkerInv
  <2>4. PICK x : x = Head(batch)
    OBVIOUS
  <2>5. /\ x \in Nodes /\ x \in Ones(batch)
        /\ Ones(batch) = Ones(batch') \cup {x} /\ x \notin Ones(batch')
        /\ Distinct(batch')
    BY <1>0, <2>3, <2>4, Beheaded DEF HoldInv
  <2>6. x \notin Hands
    BY <1>0, <2>5, Apart
  <2>7. /\ Hands' = Hands \cup {x}
        /\ \A u, v \in Threads : buf'[u] = buf'[v] /\ buf'[u] # None => u = v
    BY <1>0, <2>3, <2>4, <2>5, <2>6, HandTaken
  <2>8. HoldInv'
    BY <1>0, <2>1, <2>2, <2>5, <2>7 DEF HoldInv
  <2> QED  BY <2>2, <2>5, <2>7, <2>8
<1> QED  BY <1>1, <1>2

LEMMA NextHold == IInv /\ Next => HoldInv'
<1> SUFFICES ASSUME IInv, Next  PROVE HoldInv'
  OBVIOUS
<1>1. CASE Stay
  BY <1>1, StayKeeps DEF IInv
<1>2. CASE Moves
  BY <1>2, MovesOfHands, MovesOfQueue, MovesOfDequeue, MovesOfBatch DEF Moves
<1> QED  BY <1>1, <1>2, StepsThatMove

-----------------------------------------------------------------------------
(* The free list *)

LEMMA PoolSteps ==
    ASSUME TypeOK, Next
    PROVE  /\ \/ \E t \in Publishers : AcquireCas(t)
              \/ \E t \in Threads : ReleaseCas(t)
              \/ free_head' = free_head
           /\ \/ \E t \in Threads : ReleaseStore(t)
              \/ next' = next
<1> DEFINE Goal == /\ \/ \E t \in Publishers : AcquireCas(t)
                      \/ \E t \in Threads : ReleaseCas(t)
                      \/ free_head' = free_head
                   /\ \/ \E t \in Threads : ReleaseStore(t)
                      \/ next' = next
<1>1. ASSUME NEW t \in Threads, ReleaseSteps(t)
      PROVE  Goal
  BY <1>1 DEF ReleaseSteps, ReleaseLoad, ReleaseStore, ReleaseCas,
              ReleaseRetry, poolVars
<1>2. ASSUME NEW t \in Publishers,
             AcquireLoad(t) \/ Drop(t) \/ PublishHandle(t) \/ PublishSteps(t)
      PROVE  Goal
  <2>0. t \in Threads
    BY DEF Threads
  <2>1. CASE AcquireCas(t)
    BY <2>1 DEF AcquireCas
  <2>2. CASE ReleaseSteps(t)
    BY <1>1, <2>0, <2>2
  <2>3. CASE ~AcquireCas(t) /\ ~ReleaseSteps(t)
    <3>1. free_head' = free_head /\ next' = next
      BY <1>2, <2>3 DEF AcquireLoad, Drop, PublishHandle, PosLoad, PublishSteps,
         AcquireNext, AcquireRetry, EnqueueReload, EnqueueSeq, EnqueueCas,
         EnqueueRetry, EnqueueData, EnqueueStore, poolVars
    <3> QED  BY <3>1
  <2> QED  BY <2>1, <2>2, <2>3
<1>3. ASSUME WorkerSteps  PROVE Goal
  <2>0. W \in Threads
    BY DEF Threads, W
  <2>1. CASE ReleaseSteps(W)
    BY <1>1, <2>0, <2>1
  <2>2. CASE ~ReleaseSteps(W)
    <3>1. free_head' = free_head /\ next' = next
      BY <1>3, <2>2 DEF WorkerSteps, Check, Dequeue, DequeueStore, DrainStore,
         Idle, Drained, CopyHandlers, Deliver, poolVars, W
    <3> QED  BY <3>1
  <2> QED  BY <2>1, <2>2
<1>4. ASSUME \/ \E t, u \in Publishers : Give(t, u)
             \/ \E s \in Subs : Subscribe(s) \/ Reset(s)
             \/ Start \/ StopFlag \/ StopJoin
      PROVE  Goal
  <2>1. free_head' = free_head /\ next' = next
    BY <1>4 DEF Give, Subscribe, Reset, Start, StopFlag, StopJoin, poolVars
  <2> QED  BY <2>1
<1> HIDE DEF Goal
<1>5. Goal
  BY <1>2, <1>3, <1>4 DEF Next
<1> QED  BY <1>5 DEF Goal

\* A thread that releases writes the link of the buffer it has in hand.
LEMMA LinksKept ==
    ASSUME IInv, Next, NEW i \in Nodes, i \notin Hands
    PROVE  next'[i] = next[i]
<1>0. TypeOK
  BY DEF IInv
<1>1. ASSUME NEW t \in Threads, ReleaseStore(t)
      PROVE  next'[i] = next[i]
  <2>1. buf[t] \in Hands
    BY <1>0, <1>1, InHands DEF ReleaseStore, Goto, TypeOK, EmptyHanded
  <2> QED  BY <1>0, <1>1, <2>1 DEF ReleaseStore, TypeOK
<1> QED  BY <1>0, <1>1, PoolSteps

LEMMA ListType ==
    ASSUME NEW list \in Lists, Listed(list)
    PROVE  /\ list \in Seq(Nodes) /\ Len(list) \in Nat
           /\ DOMAIN list = 1..Len(list)
           /\ \A k \in DOMAIN list : list[k] \in Ones(list) /\ list[k] \in Nodes
           /\ Ones(list) \cap Hands = {} /\ Ones(list) \subseteq Nodes
           /\ free_head # None => list # <<>> /\ free_head \in Ones(list)
<1>1. /\ list \in Seq(Nodes) /\ Len(list) \in Nat /\ DOMAIN list = 1..Len(list)
  BY ListIsSeq
<1>2. \A k \in DOMAIN list : list[k] \in Ones(list) /\ list[k] \in Nodes
  BY <1>1 DEF Ones
<1>3. free_head # None => list # <<>> /\ free_head \in Ones(list)
  <2> SUFFICES ASSUME free_head # None
               PROVE  list # <<>> /\ free_head \in Ones(list)
    OBVIOUS
  <2>1. list # <<>> /\ free_head = list[1]
    BY DEF Listed, Linked
  <2>2. 1 \in DOMAIN list
    BY <1>1, <2>1
  <2> QED  BY <1>2, <2>1, <2>2
<1> QED  BY <1>1, <1>2, <1>3 DEF Listed, Partition

LEMMA HeadsListed ==
    ASSUME IInv, Next, NEW list \in Lists, Listed(list),
           NEW u \in Publishers, pc'[u] \in Acquiring
    PROVE  head'[u] \in Ones(list)
BY ToAcquiring, ListType DEF IInv, Listed

\* The steps that leave the free list as it is.
LEMMA SameList ==
    ASSUME IInv, Next, NEW list \in Lists, Listed(list),
           free_head' = free_head,
           Partition(Ones(list), Hands', Queued', Ones(batch'))
    PROVE  ListInv'
<1>1. \A k \in DOMAIN list : next'[list[k]] = next[list[k]]
  BY ListType, LinksKept
<1>2. Linked(list)'
  BY <1>1 DEF Listed, Linked
<1>3. Listed(list)'
  BY <1>2, HeadsListed DEF Listed
<1> QED  BY <1>3 DEF ListInv, Lists

\* acquire() takes the first buffer of the list.
LEMMA ListPopped ==
    ASSUME IInv, OneAllocator, Next, NEW t \in Publishers, AcquireCas(t)
    PROVE  ListInv'
<1>0. TypeOK /\ RoleInv /\ LinkInv /\ ListInv /\ t \in Threads
  BY DEF IInv, Threads
<1>1. PICK list \in Lists : Listed(list)
  BY <1>0 DEF ListInv
<1>2. /\ pc[t] = "acquire_cas" /\ pc'[t] = "held"
      /\ free_head = head[t] /\ free_head' = link[t] /\ next' = next
      /\ \A u \in Threads : u # t => pc'[u] = pc[u]
  BY <1>0 DEF AcquireCas, Goto, TypeOK
<1>3. head[t] \in Ones(list) /\ head[t] \in Nodes
  BY <1>1, <1>2, ListType DEF Listed, Acquiring
<1>4. list # <<>> /\ free_head = list[1]
  <2>1. free_head # None
    BY <1>2, <1>3, ChannelAssumption
  <2> QED  BY <1>1, <2>1, ListType DEF Listed, Linked
<1>5. link[t] = next[list[1]]
  BY <1>0, <1>2, <1>4 DEF LinkInv
<1>6. PICK rest : rest = Tail(list)
  OBVIOUS
<1>7. /\ rest \in Seq(Nodes) /\ 1 \in DOMAIN list
      /\ Len(list) \in Nat \ {0} /\ Len(rest) = Len(list) - 1
      /\ DOMAIN list = 1..Len(list) /\ DOMAIN rest = 1..(Len(list) - 1)
      /\ \A i \in 1..(Len(list) - 1) : rest[i] = list[i + 1]
      /\ Ones(list) = Ones(rest) \cup {list[1]}
      /\ Distinct(rest) /\ list[1] \notin Ones(rest)
  BY <1>1, <1>4, <1>6, ListType, Beheaded DEF Listed
<1>8. rest \in Lists
  BY <1>7, ShortList
<1>9. Linked(rest)'
  <2>1. \A k \in DOMAIN list :
           next[list[k]] = IF k = Len(list) THEN None ELSE list[k + 1]
    BY <1>1 DEF Listed, Linked
  <2>2. free_head' = IF rest = <<>> THEN None ELSE rest[1]
    <3>1. rest = <<>> <=> 1 = Len(list)
      BY <1>7
    <3>2. 1 # Len(list) => rest[1] = list[1 + 1]
      BY <1>7
    <3>3. next[list[1]] = IF 1 = Len(list) THEN None ELSE list[1 + 1]
      BY <1>7, <2>1
    <3> QED  BY <1>2, <1>5, <3>1, <3>2, <3>3
  <2>3. ASSUME NEW k \in DOMAIN rest
        PROVE  next[rest[k]] = IF k = Len(rest) THEN None ELSE rest[k + 1]
    <3>1. k + 1 \in DOMAIN list /\ rest[k] = list[k + 1]
      BY <1>7
    <3>2. next[rest[k]] = IF k + 1 = Len(list) THEN None ELSE list[(k + 1) + 1]
      BY <2>1, <3>1
    <3>3. k = Len(rest) <=> k + 1 = Len(list)
      BY <1>7
    <3>4. k # Len(rest) => rest[k + 1] = list[(k + 1) + 1]
      BY <1>7
    <3> QED  BY <3>2, <3>3, <3>4
  <2> QED  BY <1>2, <2>2, <2>3 DEF Linked
<1>10. Partition(Ones(rest), Hands', Queued', Ones(batch'))
  <2>1. PICK x, F, R : x = list[1] /\ F = Ones(list) /\ R = Ones(rest)
    OBVIOUS
  <2>2. /\ Hands' = Hands \cup {x} /\ Queued' = Queued /\ batch' = batch
    BY <1>2, <1>4, <2>1, MovesOfHands
  <2>3. F = R \cup {x} /\ x \notin R
    BY <1>7, <2>1
  <2>4. Partition(F, Hands, Queued, Ones(batch))
    BY <1>1, <2>1 DEF Listed
  <2>5. Partition(R, Hands', Queued', Ones(batch'))
    BY <2>2, <2>3, <2>4 DEF Partition
  <2> QED  BY <2>1, <2>5
<1>11. \A u \in Publishers : pc'[u] \notin Acquiring
  <2>1. t \in Allocators
    BY <1>0, <1>2 DEF RoleInv, Acquiring
  <2> QED  BY <1>0, <1>2, <2>1 DEF RoleInv, Acquiring, OneAllocator, Threads
<1>12. Listed(rest)'
  BY <1>7, <1>9, <1>10, <1>11 DEF Listed
<1> QED  BY <1>8, <1>12 DEF ListInv, Lists

\* release() puts its buffer in front.
LEMMA ListPushed ==
    ASSUME IInv, Next, NEW t \in Threads, ReleaseCas(t)
    PROVE  ListInv'
<1>0. TypeOK /\ LinkInv /\ ListInv
  BY DEF IInv
<1>1. PICK list \in Lists : Listed(list)
  BY <1>0 DEF ListInv
<1>2. /\ pc[t] = "release_cas" /\ free_head = head[t] /\ next' = next
      /\ free_head' = buf[t]
  BY DEF ReleaseCas, Goto
<1>3. PICK x : x = buf[t]
  OBVIOUS
<1>4. /\ Hands' = Hands \ {x} /\ x \in Hands /\ Queued' = Queued
      /\ batch' = batch
  BY <1>3, MovesOfHands
<1>5. x \in Nodes /\ x \notin Ones(list) /\ next[x] = free_head
  BY <1>0, <1>1, <1>2, <1>3, <1>4, Apart, ListType DEF LinkInv
<1>6. PICK more : more = <<x>> \o list
  OBVIOUS
<1>7. /\ more \in Seq(Nodes) /\ Len(more) = Len(list) + 1 /\ Len(list) \in Nat
      /\ DOMAIN list = 1..Len(list) /\ DOMAIN more = 1..(Len(list) + 1)
      /\ more[1] = x /\ more # <<>>
      /\ \A i \in 1..Len(list) : more[i + 1] = list[i]
      /\ Ones(more) = Ones(list) \cup {x} /\ Distinct(more)
  BY <1>1, <1>5, <1>6, ListType, Pushed DEF Listed
<1>a. PICK n : n = Len(list)
  OBVIOUS
<1>b. /\ n \in Nat /\ Len(more) = n + 1
      /\ DOMAIN list = 1..n /\ DOMAIN more = 1..(n + 1) /\ more[1] = x
      /\ \A i \in 1..n : more[i + 1] = list[i]
  BY <1>7, <1>a
<1>8. more \in Lists
  BY <1>7, ShortList
<1>9. Linked(more)'
  <2>1. /\ free_head = IF list = <<>> THEN None ELSE list[1]
        /\ \A k \in DOMAIN list :
              next[list[k]] = IF k = Len(list) THEN None ELSE list[k + 1]
    BY <1>1 DEF Listed, Linked
  <2>2. ASSUME NEW k \in DOMAIN more
        PROVE  next[more[k]] = IF k = Len(more) THEN None ELSE more[k + 1]
    <3>1. CASE k = 1
      <4>1. list = <<>> <=> Len(list) = 0
        BY <1>1, ListType
      <4>2. Len(list) # 0 => more[1 + 1] = list[1]
        BY <1>7
      <4>3. k = Len(more) <=> Len(list) = 0
        BY <1>7, <3>1
      <4> QED  BY <1>5, <1>7, <2>1, <3>1, <4>1, <4>2, <4>3
    <3>2. CASE k # 1
      <4>1. PICK j \in 1..n : k = j + 1
        <5>1. k - 1 \in 1..n /\ k = (k - 1) + 1
          BY <1>b, <3>2
        <5> QED  BY <5>1
      <4>2. more[k] = list[j]
        BY <1>b, <4>1
      <4>3. next[list[j]] = IF j = Len(list) THEN None ELSE list[j + 1]
        BY <1>b, <2>1
      <4>4. k = Len(more) <=> j = Len(list)
        BY <1>a, <1>b, <4>1
      <4>5. j # Len(list) => more[k + 1] = list[j + 1]
        <5> SUFFICES ASSUME j # n  PROVE more[k + 1] = list[j + 1]
          BY <1>a
        <5>1. j + 1 \in 1..n
          BY <1>b
        <5> QED  BY <1>b, <4>1, <5>1
      <4> QED  BY <4>2, <4>3, <4>4, <4>5
    <3> QED  BY <3>1, <3>2
  <2> QED  BY <1>2, <1>3, <1>7, <2>2 DEF Linked
<1>10. Partition(Ones(more), Hands', Queued', Ones(batch'))
  BY <1>1, <1>4, <1>5, <1>7 DEF Listed, Partition
<1>11. \A u \in Publishers : pc'[u] \in Acquiring => head'[u] \in Ones(more)
  BY <1>1, <1>7, HeadsListed
<1>12. Listed(more)'
  BY <1>7, <1>9, <1>10, <1>11 DEF Listed
<1> QED  BY <1>8, <1>12 DEF ListInv, Lists

LEMMA NextList == IInv /\ OneAllocator /\ Next => ListInv'
<1> SUFFICES ASSUME IInv, OneAllocator, Next  PROVE ListInv'
  OBVIOUS
<1>0. TypeOK /\ HoldInv
  BY DEF IInv
<1>1. PICK list \in Lists : Listed(list)
  BY DEF IInv, ListInv
<1>2. PICK F : F = Ones(list)
  OBVIOUS
<1>3. Partition(F, Hands, Queued, Ones(batch))
  BY <1>1, <1>2 DEF Listed
<1>4. CASE \E t \in Publishers : AcquireCas(t)
  BY <1>4, ListPopped
<1>5. CASE \E t \in Threads : ReleaseCas(t)
  BY <1>5, ListPushed
<1>6. CASE free_head' = free_head /\ Partition(F, Hands', Queued', Ones(batch'))
  BY <1>1, <1>2, <1>6, SameList
<1>7. CASE Stay
  <2>1. Hands' = Hands /\ Queued' = Queued /\ batch' = batch
    BY <1>0, <1>7, StayKeeps DEF Stay
  <2>2. Partition(F, Hands', Queued', Ones(batch'))
    BY <1>3, <2>1
  <2> QED  BY <1>0, <1>4, <1>5, <1>6, <2>2, PoolSteps
<1>8. CASE \E t, u \in Publishers : Give(t, u)
  <2>1. Hands' = Hands /\ Queued' = Queued /\ batch' = batch
    BY <1>8, MovesOfHands
  <2>2. Partition(F, Hands', Queued', Ones(batch'))
    BY <1>3, <2>1
  <2> QED  BY <1>0, <1>4, <1>5, <1>6, <2>2, PoolSteps
<1>9. CASE \E t \in Publishers : EnqueueStore(t)
  <2>1. PICK t \in Publishers : EnqueueStore(t)
    BY <1>9
  <2>2. /\ Hands' = Hands \ {buf[t]} /\ buf[t] \in Hands
        /\ Queued' = Queued \cup {buf[t]} /\ batch' = batch
    BY <2>1, MovesOfQueue
  <2>3. Partition(F, Hands', Queued', Ones(batch'))
    BY <1>3, <2>2 DEF Partition
  <2> QED  BY <1>0, <1>4, <1>5, <1>6, <2>3, PoolSteps
<1>10. CASE Dequeue
  <2>1. batch' = batch
    BY <1>10, MovesOfDequeue
  <2>2. PICK x \in Queued : Hands' = Hands \cup {x} /\ Queued' = Queued \ {x}
    BY <1>10, MovesOfDequeue
  <2>3. Partition(F, Hands', Queued', Ones(batch'))
    BY <1>3, <2>1, <2>2 DEF Partition
  <2> QED  BY <1>0, <1>4, <1>5, <1>6, <2>3, PoolSteps
<1>11. CASE DequeueStore \/ Deliver
  <2>1. Queued' = Queued
    BY <1>11, MovesOfBatch
  <2>2. Partition(F, Hands', Queued', Ones(batch'))
    <3>1. CASE \E x \in Hands : /\ Hands' = Hands \ {x}
                                /\ Ones(batch') = Ones(batch) \cup {x}
      BY <1>3, <2>1, <3>1 DEF Partition
    <3>2. CASE \E x \in Ones(batch) : /\ Hands' = Hands \cup {x}
                                      /\ Ones(batch') = Ones(batch) \ {x}
      BY <1>3, <2>1, <3>2 DEF Partition
    <3> QED  BY <1>11, <3>1, <3>2, MovesOfBatch
  <2> QED  BY <1>0, <1>4, <1>5, <1>6, <2>2, PoolSteps
<1> QED  BY <1>4, <1>5, <1>7, <1>8, <1>9, <1>10, <1>11, StepsThatMove DEF Moves

\* What compare-and-swap relies on stays true until it is made.
LEMMA NextLink == IInv /\ Next => LinkInv'
<1> SUFFICES ASSUME IInv, Next  PROVE LinkInv'
  OBVIOUS
<1>0. TypeOK /\ HoldInv /\ ListInv /\ LinkInv
      /\ \A u \in Publishers : u \in Threads
  BY DEF IInv, Threads
<1>1. ASSUME NEW u \in Publishers, pc'[u] = "acquire_cas"
      PROVE  link'[u] = next'[head'[u]]
  <2>1. CASE AcquireNext(u)
    BY <1>0, <2>1 DEF AcquireNext, TypeOK, poolVars
  <2>2. CASE pc[u] = "acquire_cas" /\ head'[u] = head[u] /\ link'[u] = link[u]
    <3>1. PICK list \in Lists : Listed(list)
      BY <1>0 DEF ListInv
    <3>2. head[u] \in Ones(list)
      BY <2>2, <3>1 DEF Listed, Acquiring
    <3>3. head[u] \in Nodes /\ head[u] \notin Hands
      BY <3>1, <3>2, ListType
    <3> QED  BY <1>0, <2>2, <3>3, LinksKept DEF LinkInv
  <2> QED  BY <1>0, <1>1, <2>1, <2>2, ToAcquireCas
<1>2. ASSUME NEW u \in Threads, pc'[u] = "release_cas"
      PROVE  next'[buf'[u]] = head'[u]
  <2>1. CASE ReleaseStore(u)
    <3>1. buf[u] \in Nodes
      BY <1>0, <2>1, InHands, Apart DEF ReleaseStore, Goto, TypeOK, EmptyHanded
    <3> QED  BY <1>0, <2>1, <3>1 DEF ReleaseStore, TypeOK
  <2>2. CASE /\ ~ReleaseStore(u)
             /\ pc[u] = "release_cas" /\ head'[u] = head[u] /\ buf'[u] = buf[u]
    <3>1. buf[u] # None /\ next[buf[u]] = head[u]
      BY <1>0, <2>2 DEF LinkInv, TypeOK, EmptyHanded
    <3>2. buf[u] \in Nodes
      BY <1>0, <3>1, InHands, Apart
    <3>3. ASSUME NEW t \in Threads, ReleaseStore(t)
          PROVE  next'[buf[u]] = next[buf[u]]
      <4>1. buf[t] # buf[u]
        BY <1>0, <2>2, <3>1, <3>3 DEF HoldInv
      <4> QED  BY <1>0, <3>2, <3>3, <4>1 DEF ReleaseStore, TypeOK
    <3>4. next'[buf[u]] = next[buf[u]]
      BY <1>0, <3>3, PoolSteps
    <3> QED  BY <2>2, <3>1, <3>4
  <2> QED  BY <1>0, <1>2, <2>1, <2>2, ToReleaseCas
<1> QED  BY <1>1, <1>2 DEF LinkInv

-----------------------------------------------------------------------------
(* What the handlers were called with *)

\* The order only grows.
LEMMA OrderGrows ==
    ASSUME IInv, Next
    PROVE  /\ Len(order) \in Nat /\ Len(order') \in Nat
           /\ Len(order) <= Len(order')
           /\ \A n \in 1..Len(order) : order'[n] = order[n]
<1>0. TypeOK /\ WorkerInv /\ CellInv /\ HoldInv /\ ListInv
      /\ order \in Seq(1..MaxAllocs) /\ Len(order) \in Nat
  BY DEF IInv, TypeOK
<1>1. CASE order' = order
  BY <1>0, <1>1
<1>2. CASE \E t \in Publishers : EnqueueCas(t)
  <2>1. PICK t \in Publishers : EnqueueCas(t)
    BY <1>2
  <2>2. order' = Append(order, filled[buf[t]])
    BY <2>1 DEF EnqueueCas
  <2>3. order \in Seq(Nat) /\ filled[buf[t]] \in Nat
    <3>1. t \in Threads /\ buf[t] # None
      BY <1>0, <2>1, CasKeepsCells DEF Threads
    <3> QED  BY <1>0, <3>1, ChannelAssumption DEF TypeOK, Index
  <2> QED  BY <1>0, <2>2, <2>3, Appended
<1>3. order' = order \/ \E t \in Publishers : EnqueueCas(t)
  BY <1>0, QueueSteps, DataKeepsCells, StoreKeepsCells, DequeueKeepsCells,
     GiveBackKeepsCells DEF SameQueue
<1> QED  BY <1>1, <1>2, <1>3

\* So what followed the first messages still does.
LEMMA FollowsKept ==
    ASSUME IInv, Next, NEW g \in Seq(1..MaxAllocs), NEW from \in Nat,
           Follows(g, from)
    PROVE  Follows(g, from)'
<1>1. Len(g) \in Nat /\ DOMAIN g = 1..Len(g)
  OBVIOUS
<1>2. from + Len(g) <= Len(order) /\ \A k \in DOMAIN g : g[k] = order[from + k]
  BY DEF Follows
<1>3. PICK n : n = Len(g)
  OBVIOUS
<1>4. from + n <= Len(order')
  BY <1>1, <1>2, <1>3, OrderGrows
<1>5. \A k \in 1..n : from + k \in 1..Len(order)
  BY <1>1, <1>2, <1>3, OrderGrows
<1>6. \A k \in DOMAIN g : g[k] = order'[from + k]
  BY <1>1, <1>2, <1>3, <1>5, OrderGrows
<1> QED  BY <1>3, <1>4, <1>6 DEF Follows

LEMMA DoneType ==
    ASSUME TypeOK, WorkerInv, PayInv
    PROVE  Done \in Nat /\ Done <= Len(order) /\ Len(order) \in Nat
<1>1. Freed \in Nat /\ Freed <= enqueue_pos /\ enqueue_pos \in Nat
  BY FreedType
<1> QED  BY <1>1, Orders DEF Done, PayInv

LEMMA GotType ==
    ASSUME TypeOK, NEW s \in Subs
    PROVE  /\ got[s] \in Seq(1..MaxAllocs) /\ Len(got[s]) \in Nat
           /\ DOMAIN got[s] = 1..Len(got[s])
BY DEF TypeOK

\* A handler that was not called has what it had.
LEMMA GotKept ==
    ASSUME IInv, Next, NEW s \in Subs, got'[s] = got[s]
    PROVE  /\ \E from \in Nat : Follows(got[s], from)'
           /\ UpTo(s) /\ Done' = Done => UpTo(s)'
<1>0. TypeOK /\ GotInv /\ WorkerInv /\ PayInv
  BY DEF IInv
<1>1. PICK g : g = got[s]
  OBVIOUS
<1>2. g \in Seq(1..MaxAllocs) /\ Len(g) \in Nat
  BY <1>0, <1>1, GotType
<1>3. PICK from \in Nat : Follows(g, from)
  BY <1>0, <1>1 DEF GotInv
<1>4. Follows(g, from)'
  BY <1>2, <1>3, FollowsKept
<1>5. Follows(got[s], from)'
  BY <1>1, <1>4 DEF Follows
<1>6. ASSUME UpTo(s), Done' = Done
      PROVE  UpTo(s)'
  <2>1. CASE g = <<>>
    BY <1>1, <2>1 DEF UpTo
  <2>2. CASE g # <<>>
    <3>1. PICK d : d = Done
      OBVIOUS
    <3>2. d \in Nat /\ Len(g) <= d /\ Follows(g, d - Len(g))
      BY <1>0, <1>1, <1>6, <2>2, <3>1, DoneType DEF UpTo
    <3>3. PICK m : m = d - Len(g)
      OBVIOUS
    <3>4. m \in Nat /\ Follows(g, m)
      BY <1>2, <3>2, <3>3
    <3>5. Follows(g, m)'
      BY <1>2, <3>4, FollowsKept
    <3>6. /\ m + Len(g) <= Len(order')
          /\ \A k \in DOMAIN g : g[k] = order'[m + k]
      BY <3>5 DEF Follows
    <3>7. Done' = d /\ got'[s] = g /\ m = Done' - Len(got'[s])
      BY <1>1, <1>6, <3>1, <3>3
    <3> QED  BY <3>2, <3>6, <3>7 DEF UpTo, Follows
  <2> QED  BY <2>1, <2>2
<1> QED  BY <1>5, <1>6

\* A publisher's step leaves what the worker works on.
LEMMA PublishKeepsGot ==
    ASSUME IInv, Next, NEW t \in Publishers,
           \/ AcquireLoad(t) \/ Drop(t) \/ PublishHandle(t) \/ PublishSteps(t)
           \/ \E u \in Publishers : Give(t, u)
    PROVE  GotInv'
<1>0. TypeOK /\ GotInv
  BY DEF IInv
<1>1. /\ pc'[W] = pc[W] /\ Freed' = Freed
      /\ UNCHANGED <<handlers, running, ctl, subscribed, batch, copied, got>>
  BY <1>0, PublishLeavesWorker
<1>2. Done' = Done
  BY <1>1 DEF Done
<1>3. copied \subseteq Subs /\ handlers \subseteq Subs
  BY <1>0 DEF TypeOK
<1>4. \A s \in Subs : UpTo(s) => UpTo(s)'
  BY <1>1, <1>2, GotKept
<1>5. \A s \in Subs : \E from \in Nat : Follows(got[s], from)'
  BY <1>1, GotKept
<1> HIDE DEF IInv, UpTo, Follows
<1> QED  BY <1>0, <1>1, <1>3, <1>4, <1>5 DEF GotInv

\* Delivery brings the handlers that were copied one message on.
LEMMA DeliverKeepsGot ==
    ASSUME IInv, Next, Deliver
    PROVE  GotInv'
<1>0. TypeOK /\ WorkerInv /\ PayInv /\ GotInv /\ W \in Threads
  BY DEF IInv, Threads, W
<1>1. /\ pc[W] = "deliver" /\ pc'[W] = "release_load"
      /\ batch # <<>> /\ batch' = Tail(batch)
      /\ UNCHANGED <<order, handlers, running, ctl, subscribed, copied>>
      /\ got' = [s \in Subs |-> IF s \in copied
                                THEN Append(got[s], filled[Head(batch)])
                                ELSE got[s]]
  BY <1>0 DEF Deliver, Goto, Release, TypeOK, WorkerInv, queueVars, ownerVars
<1>2. Freed' = Freed /\ pc'[W] \in Releasing
  BY <1>0, <1>1, WorkerLeavesQueue DEF SameQueue, Releasing
<1>3. /\ Len(batch') = Len(batch) - 1 /\ Len(batch) \in Nat \ {0}
      /\ 1 \in DOMAIN batch /\ Head(batch) = batch[1]
  BY <1>0, <1>1, Beheaded DEF TypeOK
<1>4. PICK d, x : d = Done /\ x = filled[batch[1]]
  OBVIOUS
<1>5. /\ d \in Nat /\ d + 1 <= Len(order) /\ Done' = d + 1 /\ x = order[d + 1]
      /\ x \in 1..MaxAllocs /\ Len(order) \in Nat
  <2>1. /\ Freed \in Nat /\ Freed <= Len(order) /\ Len(batch) <= Freed
        /\ filled[batch[1]] = order[Freed - Len(batch) + 1]
        /\ Len(order) \in Nat
    BY <1>0, <1>3, FreedType, Orders DEF PayInv
  <2>2. d = Freed - Len(batch) /\ Done' = Freed' - Len(batch')
    BY <1>4 DEF Done
  <2>3. Done' = d + 1 /\ d \in Nat /\ d + 1 <= Len(order)
    BY <1>2, <1>3, <2>1, <2>2
  <2> QED  BY <1>0, <1>3, <1>4, <2>1, <2>2, <2>3, BatchFilled
<1>6. /\ copied \subseteq Subs /\ handlers \subseteq Subs
      /\ copied \subseteq subscribed
  BY <1>0 DEF TypeOK
<1>7. \A s \in Subs : s \notin copied => got'[s] = got[s]
  BY <1>1
<1>8. ASSUME NEW s \in copied
      PROVE  UpTo(s)' /\ \E from \in Nat : Follows(got[s], from)'
  <2>1. PICK g, h : g = got[s] /\ h = got'[s]
    OBVIOUS
  <2>2. g \in Seq(1..MaxAllocs) /\ h = Append(g, x)
    BY <1>0, <1>1, <1>3, <1>4, <1>6, <2>1, GotType
  <2>3. /\ Len(h) = Len(g) + 1 /\ Len(g) \in Nat
        /\ DOMAIN g = 1..Len(g) /\ DOMAIN h = 1..(Len(g) + 1)
        /\ \A i \in 1..Len(g) : h[i] = g[i]
        /\ h[Len(g) + 1] = x
    BY <1>5, <2>2, Appended
  <2>4. PICK n : n = Len(g)
    OBVIOUS
  <2>5. /\ n \in Nat /\ n <= d /\ \A k \in 1..n : g[k] = order[d - n + k]
    <3>1. CASE g = <<>>
      BY <1>5, <2>3, <2>4, <3>1
    <3>2. CASE g # <<>>
      BY <1>0, <1>4, <2>1, <2>3, <2>4, <3>2 DEF GotInv, UpTo, Follows
    <3> QED  BY <3>1, <3>2
  <2>6. /\ n + 1 <= d + 1 /\ (d + 1) - (n + 1) = d - n /\ d - n \in Nat
        /\ (d - n) + (n + 1) <= Len(order)
    BY <1>5, <2>5
  <2>7. ASSUME NEW k \in 1..(n + 1)
        PROVE  h[k] = order[d - n + k]
    <3>1. CASE k = n + 1
      <4>1. d - n + k = d + 1
        BY <1>5, <2>5, <3>1
      <4> QED  BY <1>5, <2>3, <2>4, <3>1, <4>1
    <3>2. CASE k # n + 1
      <4>1. k \in 1..n
        BY <2>5, <3>2
      <4> QED  BY <2>3, <2>4, <2>5, <4>1
    <3> QED  BY <3>1, <3>2
  <2>8. /\ got'[s] = h /\ Len(h) = n + 1 /\ DOMAIN h = 1..(n + 1)
        /\ order' = order /\ Done' = d + 1
    BY <1>1, <1>5, <2>1, <2>3, <2>4
  <2>9. UpTo(s)'
    BY <2>6, <2>7, <2>8 DEF UpTo, Follows
  <2>10. PICK m \in Nat : m = d - n
    BY <2>6
  <2>11. Follows(got[s], m)'
    BY <2>6, <2>7, <2>8, <2>10 DEF Follows
  <2> QED  BY <2>9, <2>11
<1>9. \A s \in Subs : \E from \in Nat : Follows(got[s], from)'
  BY <1>7, <1>8, GotKept
<1>10. running => \A s \in handlers : s \notin copied => got[s] = <<>>
  BY <1>0, <1>1 DEF GotInv
<1>11. ASSUME running, NEW s \in handlers
       PROVE  UpTo(s)'
  <2>1. CASE s \notin copied
    <3>1. got'[s] = <<>>
      BY <1>6, <1>7, <1>10, <1>11, <2>1
    <3> QED  BY <3>1 DEF UpTo
  <2> QED  BY <1>8, <2>1
<1>12. running \/ ctl = "join"
  BY <1>0, <1>1 DEF WorkerInv
<1>13. \A s \in Subs : s \notin subscribed => got'[s] = <<>>
  BY <1>0, <1>6, <1>7 DEF GotInv
<1>14. running => \A s \in handlers \ copied : got'[s] = <<>>
  BY <1>6, <1>7, <1>10
<1> HIDE DEF IInv, UpTo, Follows
<1> QED  BY <1>1, <1>8, <1>9, <1>11, <1>12, <1>13, <1>14 DEF GotInv

\* The worker's other steps deliver nothing.
LEMMA WorkerKeepsGot ==
    ASSUME IInv, Next, WorkerSteps, ~Deliver
    PROVE  GotInv'
<1>0. /\ TypeOK /\ WorkerInv /\ CellInv /\ PayInv /\ GotInv /\ W \in Threads
  BY DEF IInv, Threads, W
<1>1. UNCHANGED <<handlers, running, ctl, subscribed, got>>
  BY DEF WorkerSteps, Check, Dequeue, DequeueStore, DrainStore, Idle, Drained,
         CopyHandlers, ReleaseSteps, ReleaseLoad, ReleaseStore, ReleaseCas,
         ReleaseRetry, ownerVars, workerVars
<1>2. copied \subseteq Subs /\ handlers \subseteq Subs
  BY <1>0 DEF TypeOK
<1>3. \A s \in Subs : \E from \in Nat : Follows(got[s], from)'
  BY <1>1, GotKept
<1>4. Done' = Done => \A s \in Subs : UpTo(s) => UpTo(s)'
  BY <1>1, GotKept
<1>5. SameQueue /\ batch' = batch => Done' = Done
  BY DEF SameQueue, Done
<1> HIDE DEF IInv, UpTo, Follows, Done
<1>6. CASE Check
  <2>1. /\ copied' = {} /\ batch' = batch
        /\ pc'[W] = IF running THEN "dequeue_seq" ELSE "drain_seq"
        /\ pc[W] = "check"
    BY <1>0, <1>6 DEF Check, Goto, TypeOK
  <2>2. Done' = Done
    BY <1>0, <1>5, <1>6, <2>1, WorkerLeavesQueue
  <2> QED  BY <1>0, <1>1, <1>2, <1>3, <1>4, <2>1, <2>2 DEF GotInv, Releasing
<1>7. CASE Dequeue
  <2>1. /\ copied' = copied
        /\ \/ pc[W] = "dequeue_seq" /\ pc'[W] = "dequeue_store"
           \/ pc[W] = "drain_seq" /\ pc'[W] = "drain_store"
    BY <1>0, <1>7 DEF Dequeue, Goto, TypeOK, workerVars
  <2>2. Done' = Done
    BY <1>0, <1>7, DequeueKeepsCells DEF Done
  <2> QED  BY <1>0, <1>1, <1>2, <1>3, <1>4, <2>1, <2>2 DEF GotInv, Releasing
<1>8. CASE DequeueStore
  <2>1. /\ copied' = copied /\ batch' = Append(batch, buf[W])
        /\ pc[W] = "dequeue_store" /\ pc'[W] = "dequeue_seq"
        /\ buf[W] \in Nodes
    BY <1>0, <1>8 DEF DequeueStore, Goto, TypeOK, EmptyHanded, Index
  <2>2. Done' = Done
    <3>1. Len(batch') = Len(batch) + 1 /\ Len(batch) \in Nat
      BY <1>0, <2>1, Appended, Orders
    <3>2. Freed' = Freed + 1 /\ Freed \in Nat
      BY <1>0, <1>8, GiveBackKeepsCells, FreedType
    <3> QED  BY <3>1, <3>2 DEF Done
  <2> QED  BY <1>0, <1>1, <1>2, <1>3, <1>4, <2>1, <2>2 DEF GotInv, Releasing
<1>9. CASE DrainStore
  <2>1. /\ copied' = {} /\ ~running /\ ctl = "join"
        /\ pc'[W] = "release_load"
    BY <1>0, <1>9 DEF DrainStore, Goto, Release, TypeOK, WorkerInv, Draining,
                      workerVars
  <2> QED  BY <1>0, <1>1, <1>3, <2>1 DEF GotInv
<1>10. CASE Idle \/ Drained
  <2>1. /\ copied' = {} /\ copied = {} /\ batch' = batch
        /\ \/ pc'[W] = "check"
           \/ pc'[W] = "off"
    BY <1>0, <1>10 DEF Idle, Drained, Goto, TypeOK, WorkerInv, Draining,
                       workerVars
  <2>2. Done' = Done
    BY <1>0, <1>5, <1>10, <2>1, WorkerLeavesQueue
  <2> QED  BY <1>0, <1>1, <1>2, <1>3, <1>4, <2>1, <2>2 DEF GotInv, Releasing
<1>11. CASE CopyHandlers
  <2>1. /\ copied' = handlers /\ batch' = batch
        /\ pc[W] = "dequeue_seq" /\ pc'[W] = "deliver"
    BY <1>0, <1>11 DEF CopyHandlers, Goto, TypeOK
  <2>2. Done' = Done
    BY <1>0, <1>5, <1>11, <2>1, WorkerLeavesQueue
  <2>3. running \/ ctl = "join"
    BY <1>0, <2>1 DEF WorkerInv
  <2> QED  BY <1>0, <1>1, <1>2, <1>3, <1>4, <2>1, <2>2, <2>3 DEF GotInv
<1>12. CASE ReleaseSteps(W)
  <2>1. copied' = copied /\ batch' = batch
    BY <1>12 DEF ReleaseSteps, ReleaseLoad, ReleaseStore, ReleaseCas,
                 ReleaseRetry, workerVars
  <2>2. /\ pc[W] \in Releasing
        /\ pc'[W] \in Releasing \cup {"deliver", "check"}
    BY <1>0, <1>12 DEF ReleaseSteps, ReleaseLoad, ReleaseStore, ReleaseCas,
                 ReleaseRetry, Released, Release, Goto, TypeOK, Releasing, W
  <2>3. Done' = Done
    BY <1>0, <1>5, <1>12, <2>1, ReleaseLeavesQueue
  <2> QED  BY <1>0, <1>1, <1>2, <1>3, <1>4, <2>1, <2>2, <2>3
           DEF GotInv, Releasing
<1> QED  BY <1>6, <1>7, <1>8, <1>9, <1>10, <1>11, <1>12 DEF WorkerSteps, W

LEMMA OwnerKeepsGot ==
    ASSUME IInv, Next,
           \/ \E s \in Subs : Subscribe(s) \/ Reset(s)
           \/ Start \/ StopFlag \/ StopJoin
    PROVE  GotInv'
<1>0. /\ TypeOK /\ WorkerInv /\ GotInv /\ W \in Threads
      /\ copied \subseteq Subs /\ handlers \subseteq Subs
  BY DEF IInv, Threads, W, TypeOK
<1>1. UNCHANGED <<copied, got, batch>> /\ SameQueue
  BY <1>0, ElseLeavesQueue DEF Subscribe, Reset, Start, StopFlag, StopJoin,
     workerVars
<1>2. Done' = Done
  BY <1>1 DEF SameQueue, Done
<1>3. \A s \in Subs : \E from \in Nat : Follows(got[s], from)'
  BY <1>1, GotKept
<1>4. \A s \in Subs : UpTo(s) => UpTo(s)'
  BY <1>1, <1>2, GotKept
<1>5. \A s \in Subs : got[s] = <<>> => UpTo(s)
  BY DEF UpTo
<1> HIDE DEF IInv, UpTo, Follows, Done
<1>6. ASSUME NEW s \in Subs, Subscribe(s)
      PROVE  GotInv'
  <2>1. /\ ctl = "idle" /\ ctl' = "start" /\ s \notin subscribed
        /\ subscribed' = subscribed \cup {s} /\ handlers' = handlers \cup {s}
        /\ running' = running /\ pc' = pc
    BY <1>6 DEF Subscribe, localVars
  <2>2. got[s] = <<>>
    BY <1>0, <2>1 DEF GotInv
  <2> QED  BY <1>0, <1>1, <1>3, <1>4, <1>5, <2>1, <2>2 DEF GotInv
<1>7. ASSUME NEW s \in Subs, Reset(s)
      PROVE  GotInv'
  <2>1. /\ handlers' \subseteq handlers
        /\ UNCHANGED <<running, ctl, subscribed, pc>>
    BY <1>7 DEF Reset, localVars
  <2> QED  BY <1>0, <1>1, <1>3, <1>4, <2>1 DEF GotInv
<1>8. CASE Start
  <2>1. /\ ctl = "start" /\ ctl' = "idle" /\ running'
        /\ pc'[W] = IF running THEN pc[W] ELSE "check"
        /\ handlers' = handlers /\ subscribed' = subscribed
    BY <1>0, <1>8 DEF Start, TypeOK
  <2>2. \A s \in handlers : UpTo(s)
    BY <1>0, <1>5, <2>1 DEF GotInv
  <2> QED  BY <1>0, <1>1, <1>3, <1>4, <2>1, <2>2 DEF GotInv, Releasing
<1>9. CASE StopFlag
  <2>1. /\ ctl' = "join" /\ ~running' /\ running
        /\ UNCHANGED <<handlers, subscribed, pc>>
    BY <1>9 DEF StopFlag, localVars
  <2> QED  BY <1>0, <1>1, <1>3, <1>4, <2>1 DEF GotInv
<1>10. CASE StopJoin
  <2>1. handlers' = {} /\ UNCHANGED <<running, subscribed, pc>>
    BY <1>10 DEF StopJoin, localVars
  <2> QED  BY <1>0, <1>1, <1>3, <1>4, <2>1 DEF GotInv
<1> QED  BY <1>6, <1>7, <1>8, <1>9, <1>10

LEMMA NextGot == IInv /\ Next => GotInv'
BY PublishKeepsGot, DeliverKeepsGot, WorkerKeepsGot, OwnerKeepsGot DEF Next

-----------------------------------------------------------------------------
(* The theorems *)

\* At first the cells are free, and all buffers are in the free list in order.
LEMMA InitialList == Init => ListInv /\ Stored = {}
<1> SUFFICES ASSUME Init  PROVE ListInv /\ Stored = {}
  OBVIOUS
<1>0. Capacity \in Nat \ {0} /\ Capacity - 1 \in Nat
  BY ChannelAssumption
<1>1. PICK list : list = [k \in 1..Capacity |-> k - 1]
  OBVIOUS
<1>2. \A k \in 1..Capacity : k - 1 \in Nodes /\ list[k] = k - 1
  BY <1>0, <1>1 DEF Nodes
<1>3. list \in [1..Capacity -> Nodes]
  BY <1>1, <1>2
<1>4. /\ list \in Seq(Nodes) /\ Len(list) = Capacity /\ list # <<>>
      /\ DOMAIN list = 1..Capacity
  BY <1>0, <1>3
<1>5. list \in Lists /\ Distinct(list)
  <2>1. Capacity \in 0..Capacity
    BY <1>0
  <2>2. list \in Lists
    BY <1>3, <2>1 DEF Lists
  <2>3. Distinct(list)
    BY <1>0, <1>2, <1>4 DEF Distinct
  <2> QED  BY <2>2, <2>3
<1>6. Linked(list)
  <2>1. free_head = list[1] /\ 1 \in 1..Capacity
    BY <1>0, <1>2 DEF Init
  <2>2. ASSUME NEW k \in 1..Capacity
        PROVE  next[list[k]] = IF k = Capacity THEN None ELSE list[k + 1]
    <3>1. next[k - 1] = IF k \in Nodes THEN k ELSE None
      <4>1. k - 1 \in Nodes /\ (k - 1) + 1 = k
        BY <1>0, <1>2
      <4> QED  BY <4>1 DEF Init
    <3>2. k \in Nodes <=> k # Capacity
      BY <1>0 DEF Nodes
    <3>3. k # Capacity => k + 1 \in 1..Capacity /\ list[k + 1] = k
      BY <1>0, <1>2
    <3> QED  BY <1>2, <3>1, <3>2, <3>3
  <2> QED  BY <1>4, <2>1, <2>2 DEF Linked
<1>7. Stored = {}
  BY DEF Init, Stored
<1>8. Ones(list) = Nodes /\ Hands = {} /\ Queued = {} /\ Ones(batch) = {}
  <2>1. \A i \in Nodes : i + 1 \in 1..Capacity /\ list[i + 1] = i
    BY <1>0, <1>2 DEF Nodes
  <2>2. Ones(list) = Nodes
    BY <1>2, <1>4, <2>1 DEF Ones
  <2>3. Hands = {}
    BY DEF Hands, Init
  <2>4. Queued = {}
    BY <1>7 DEF Queued
  <2>5. batch = <<>> /\ DOMAIN batch = {}
    BY DEF Init
  <2>6. Ones(batch) = {}
    BY <2>5 DEF Ones
  <2> QED  BY <2>2, <2>3, <2>4, <2>6
<1>9. \A t \in Publishers : pc[t] \notin Acquiring
  BY ChannelAssumption DEF Init, Threads, Acquiring
<1> QED  BY <1>5, <1>6, <1>7, <1>8, <1>9 DEF ListInv, Listed, Partition

LEMMA Initially == Init => IInv
<1> SUFFICES ASSUME Init  PROVE IInv
  OBVIOUS
<1>0. /\ Capacity \in Nat \ {0} /\ MaxAllocs \in Nat /\ kBatch \in Nat \ {0}
      /\ W \in Threads /\ W \notin Publishers /\ Publishers \subseteq Threads
  BY ChannelAssumption DEF Threads, W
<1>1. pc[W] = "off" /\ \A t \in Publishers : t \in Threads /\ pc[t] = "idle"
  BY <1>0 DEF Init, W
<1>2. /\ batch = <<>> /\ Len(batch) = 0 /\ DOMAIN batch = {}
      /\ order = <<>> /\ Len(order) = 0
  BY DEF Init
<1>3. Freed = 0 /\ \A t, p : ~Claims(t, p)
  <2>1. pc[W] \notin Taking
    BY <1>1 DEF Taking
  <2>2. \A t \in Publishers : pc[t] \notin Claiming
    BY <1>1 DEF Claiming
  <2> QED  BY <2>1, <2>2 DEF Freed, Claims, Init
<1>4. TypeOK
  <2>1. next \in [Nodes -> Index] /\ free_head \in Index
    BY <1>0 DEF Init, Index, Nodes
  <2>2. /\ filled \in [Nodes -> 0..MaxAllocs] /\ seq \in [Nodes -> Nat]
        /\ data \in [Nodes -> Index] /\ allocs \in 0..MaxAllocs
    BY <1>0 DEF Init, Index, Nodes
  <2>3. pc \in [Threads -> PCs]
    BY DEF Init, PCs
  <2>4. /\ head \in [Threads -> Index] /\ link \in [Threads -> Index]
        /\ pos \in [Threads -> Nat] /\ buf \in [Threads -> Index]
    BY DEF Init, Index
  <2>5. \A t \in Threads : buf[t] = None /\ pc[t] \in EmptyHanded
    BY DEF Init, EmptyHanded
  <2>6. enqueue_pos \in Nat /\ dequeue_pos \in 0..enqueue_pos
    BY DEF Init
  <2>7. /\ order \in Seq(1..MaxAllocs) /\ batch \in Seq(Nodes)
        /\ Len(batch) <= kBatch /\ got \in [Subs -> Seq(1..MaxAllocs)]
    BY <1>0 DEF Init
  <2>8. /\ handlers \subseteq subscribed /\ subscribed \subseteq Subs
        /\ running \in BOOLEAN /\ ctl \in {"idle", "start", "join"}
        /\ copied \subseteq subscribed
    BY DEF Init
  <2> QED  BY <2>1, <2>2, <2>3, <2>4, <2>5, <2>6, <2>7, <2>8 DEF TypeOK
<1>5. RoleInv
  BY <1>1 DEF RoleInv, Acquiring, Positioned
<1>6. WorkerInv
  BY <1>1, <1>2 DEF Init, WorkerInv, Taking, Draining
<1>7. CellInv
  <2>1. \A p \in 0..(Capacity - 1) : p % Capacity = p
    <3> SUFFICES ASSUME NEW p \in 0..(Capacity - 1)  PROVE p % Capacity = p
      OBVIOUS
    <3>1. 0 \in Nat /\ p \in Nat /\ p = Capacity * 0 + p
      BY <1>0
    <3> QED  BY <1>0, <3>1, Rem
  <2>2. \A p \in 0..(Capacity - 1) : seq[Cell(p)] = p
    BY <2>1 DEF Init, Cell, Nodes
  <2>3. enqueue_pos = 0
    BY DEF Init
  <2> QED  BY <1>0, <1>3, <2>2, <2>3 DEF CellInv
<1>8. PayInv
  <2>1. \A t \in Publishers : buf[t] = None
    BY <1>0 DEF Init
  <2>2. pc[W] \notin Taking
    BY <1>1 DEF Taking
  <2> QED  BY <1>2, <1>3, <2>1, <2>2, InitialList DEF PayInv, Init
<1>9. HoldInv
  <2>1. \A t \in Threads : buf[t] = None
    BY DEF Init
  <2> QED  BY <1>2, <2>1, InitialList DEF HoldInv, Distinct
<1>10. LinkInv
  <2>1. \A t \in Threads : pc[t] \in {"off", "idle"}
    BY DEF Init
  <2> QED  BY <1>0, <2>1 DEF LinkInv
<1>11. GotInv
  <2>1. \A s \in Subs : got[s] = <<>> /\ Len(got[s]) = 0 /\ DOMAIN got[s] = {}
    BY DEF Init
  <2>2. 0 \in Nat /\ \A s \in Subs : Follows(got[s], 0)
    BY <1>2, <2>1 DEF Follows
  <2>3. handlers = {} /\ copied = {}
    BY DEF Init
  <2> QED  BY <2>1, <2>2, <2>3 DEF GotInv
<1> QED  BY <1>4, <1>5, <1>6, <1>7, <1>8, <1>9, <1>10, <1>11, InitialList
         DEF IInv

LEMMA NextKeeps == IInv /\ OneAllocator /\ [Next]_vars => IInv'
<1> SUFFICES ASSUME IInv, OneAllocator, [Next]_vars  PROVE IInv'
  OBVIOUS
<1>1. CASE Next
  BY <1>1, NextType, NextControl, NextCells, NextPay, NextHold, NextList,
     NextLink, NextGot DEF IInv
<1>2. CASE UNCHANGED vars
  <2> USE <1>2 DEF vars, poolVars, queueVars, ownerVars, localVars, workerVars
  <2>1. TypeOK'
    BY DEF IInv, TypeOK
  <2>2. RoleInv' /\ WorkerInv'
    BY DEF IInv, RoleInv, WorkerInv
  <2>3. /\ Freed' = Freed /\ Stored' = Stored
        /\ \A t, p : Claims(t, p)' <=> Claims(t, p)
    BY DEF Freed, Stored, Claims
  <2>4. CellInv'
    BY <2>3 DEF IInv, CellInv
  <2>5. PayInv'
    BY <2>3 DEF IInv, PayInv
  <2>6. HoldInv'
    BY <2>3 DEF IInv, HoldInv
  <2>7. ListInv'
    BY <2>3 DEF IInv, ListInv, Listed, Linked, Hands, Queued
  <2>8. LinkInv'
    BY DEF IInv, LinkInv
  <2>9. GotInv'
    <3>1. \A s : UpTo(s)' <=> UpTo(s)
      BY <2>3 DEF UpTo, Done, Follows
    <3>2. \A s, from : Follows(got[s], from)' <=> Follows(got[s], from)
      BY DEF Follows
    <3> QED  BY <3>1, <3>2 DEF IInv, GotInv
  <2> QED  BY <2>1, <2>2, <2>4, <2>5, <2>6, <2>7, <2>8, <2>9 DEF IInv
<1> QED  BY <1>1, <1>2 DEF vars

(* All of the invariant, in every reachable state, if one thread allocates. *)
THEOREM Invariance ==
    ASSUME OneAllocator
    PROVE  Spec => []IInv
<1>1. Init => IInv
  BY Initially
<1>2. IInv /\ [Next]_vars => IInv'
  BY NextKeeps
<1> QED  BY <1>1, <1>2, PTL DEF Spec

(* The types, and that a thread has an index in hand exactly where the code *)
(* of acquire(), publish(), dispatch_loop() and release() says so.          *)
THEOREM TypeCorrect ==
    ASSUME OneAllocator
    PROVE  Spec => []TypeOK
<1>1. IInv => TypeOK
  BY DEF IInv
<1> QED  BY <1>1, Invariance, PTL

\* The four sets that Places counts.
LEMMA OnePlace == TypeOK /\ HoldInv /\ ListInv => OneOwner
<1> SUFFICES ASSUME TypeOK, HoldInv, NEW list \in Lists, Listed(list),
                    NEW i \in Nodes
             PROVE  Places(list, i) = 1
  BY DEF ListInv, Listed, OneOwner
<1> DEFINE F == {k \in DOMAIN list : list[k] = i}
           H == {t \in Threads : buf[t] = i}
           Q == {p \in Stored : data[Cell(p)] = i}
           B == {k \in DOMAIN batch : batch[k] = i}
<1>0. i # None
  BY ChannelAssumption
<1>1. \/ i \in Ones(list) /\ \E k : F = {k}
      \/ i \notin Ones(list) /\ F = {}
  BY DEF Ones, Listed, Distinct
<1>2. \/ i \in Hands /\ \E t : H = {t}
      \/ i \notin Hands /\ H = {}
  BY <1>0 DEF Hands, HoldInv
<1>3. \/ i \in Queued /\ \E p : Q = {p}
      \/ i \notin Queued /\ Q = {}
  BY DEF Queued, HoldInv
<1>4. \/ i \in Ones(batch) /\ \E k : B = {k}
      \/ i \notin Ones(batch) /\ B = {}
  BY DEF Ones, HoldInv, Distinct
<1>5. Places(list, i) = Cardinality(F) + Cardinality(H) + Cardinality(Q)
                        + Cardinality(B)
  BY DEF Places
<1> HIDE DEF F, H, Q, B
<1>6. /\ \/ i \in Ones(list) /\ Cardinality(F) = 1
         \/ i \notin Ones(list) /\ Cardinality(F) = 0
      /\ \/ i \in Hands /\ Cardinality(H) = 1
         \/ i \notin Hands /\ Cardinality(H) = 0
      /\ \/ i \in Queued /\ Cardinality(Q) = 1
         \/ i \notin Queued /\ Cardinality(Q) = 0
      /\ \/ i \in Ones(batch) /\ Cardinality(B) = 1
         \/ i \notin Ones(batch) /\ Cardinality(B) = 0
  BY <1>1, <1>2, <1>3, <1>4, FS_Singleton, FS_EmptySet
<1> QED  BY <1>5, <1>6 DEF Listed, Partition

(* With one thread that allocates, every buffer of the pool is at every     *)
(* moment in one place: the free list that free_head_ leads to, one         *)
(* thread's hands, one cell of the queue, or the worker's batch.  acquire() *)
(* and release() never lose a buffer nor hand one out twice.               *)
THEOREM OneOwnerTheorem ==
    ASSUME OneAllocator
    PROVE  Spec => []OneOwner
<1>1. IInv => OneOwner
  BY OnePlace DEF IInv
<1> QED  BY <1>1, Invariance, PTL

\* Among Capacity positions in a row one has the cell of any given position.
LEMMA CellInWindow ==
    ASSUME NEW a \in Nat, NEW p \in Nat
    PROVE  \E q \in a..(a + Capacity - 1) : Cell(q) = Cell(p)
<1>0. Capacity \in Nat \ {0}
  BY ChannelAssumption
<1>1. /\ a % Capacity \in 0..(Capacity - 1) /\ a \div Capacity \in Nat
      /\ a = Capacity * (a \div Capacity) + (a % Capacity)
      /\ p % Capacity \in 0..(Capacity - 1)
  BY <1>0, Divided
<1>2. PICK k, s, r : k = a \div Capacity /\ s = a % Capacity
                     /\ r = p % Capacity
  OBVIOUS
<1>3. /\ k \in Nat /\ s \in 0..(Capacity - 1) /\ r \in 0..(Capacity - 1)
      /\ a = Capacity * k + s /\ Capacity * k \in Nat
  BY <1>0, <1>1, <1>2
<1>4. ASSUME s <= r
      PROVE  \E q \in a..(a + Capacity - 1) : q % Capacity = r
  <2>1. PICK q : q = Capacity * k + r
    OBVIOUS
  <2>2. q \in a..(a + Capacity - 1) /\ q \in Nat
    BY <1>0, <1>3, <1>4, <2>1
  <2>3. q % Capacity = r
    BY <1>0, <1>3, <2>1, <2>2, Rem
  <2> QED  BY <2>2, <2>3
<1>5. ASSUME r < s
      PROVE  \E q \in a..(a + Capacity - 1) : q % Capacity = r
  <2>1. PICK q : q = Capacity * (k + 1) + r
    OBVIOUS
  <2>2. Capacity * (k + 1) = Capacity * k + Capacity /\ k + 1 \in Nat
    BY <1>0, <1>3
  <2>3. q \in a..(a + Capacity - 1) /\ q \in Nat
    BY <1>0, <1>3, <1>5, <2>1, <2>2
  <2> QED  BY <1>0, <1>3, <2>1, <2>2, <2>3, Rem
<1> QED  BY <1>2, <1>3, <1>4, <1>5 DEF Cell

\* A publisher that looks at its cell finds it free, or taken by another: not
\* still full with a position of the last round.
LEMMA NeverFull ==
    ASSUME IInv, NEW t \in Publishers, pc[t] = "enqueue_seq"
    PROVE  seq[Cell(pos[t])] >= pos[t]
<1>0. TypeOK /\ RoleInv /\ WorkerInv /\ CellInv /\ HoldInv /\ ListInv
  BY DEF IInv
<1>1. t \in Threads /\ pos[t] \in Nat /\ seq[Cell(pos[t])] \in Nat
  BY <1>0, CellIsNode DEF TypeOK, Threads
<1>2. pos[t] <= enqueue_pos
  BY <1>0 DEF RoleInv, Positioned
<1>3. buf[t] # None /\ pc[t] \notin Claiming
  BY <1>0, <1>1 DEF TypeOK, EmptyHanded, Claiming
<1>4. enqueue_pos < Freed + Capacity
  BY <1>0, <1>3, Room
<1>5. /\ Freed \in Nat /\ Capacity \in Nat \ {0} /\ enqueue_pos \in Nat
  BY <1>0, FreedType
<1>6. \A q \in Freed..(Freed + Capacity - 1) :
          q \in Nat /\ seq[Cell(q)] \in {q, q + 1}
  BY <1>0, <1>5 DEF CellInv
<1>7. CASE pos[t] < Freed
  <2>1. PICK q \in Freed..(Freed + Capacity - 1) : Cell(q) = Cell(pos[t])
    BY <1>1, <1>5, CellInWindow
  <2> QED  BY <1>1, <1>5, <1>6, <1>7, <2>1
<1>8. CASE Freed <= pos[t]
  <2>1. pos[t] \in Freed..(Freed + Capacity - 1)
    BY <1>1, <1>2, <1>4, <1>5, <1>8
  <2> QED  BY <1>1, <1>6, <2>1
<1> QED  BY <1>1, <1>5, <1>7, <1>8

\* A sequence that follows is a piece of the order.
LEMMA Piece ==
    ASSUME order \in Seq(1..MaxAllocs), NEW g \in Seq(1..MaxAllocs),
           NEW from \in Nat, Follows(g, from)
    PROVE  /\ from \in 0..(Len(order) - Len(g))
           /\ g = SubSeq(order, from + 1, from + Len(g))
<1>1. PICK n : n = Len(g)
  OBVIOUS
<1>2. PICK m : m = Len(order)
  OBVIOUS
<1>3. /\ n \in Nat /\ m \in Nat /\ DOMAIN g = 1..n /\ from + n <= m
      /\ \A k \in 1..n : g[k] = order[from + k]
  <2>1. DOMAIN g = 1..Len(g) /\ Len(g) \in Nat /\ Len(order) \in Nat
    OBVIOUS
  <2> QED  BY <1>1, <1>2, <2>1 DEF Follows
<1>4. from \in 0..(m - n)
  BY <1>3
<1>5. PICK h : h = SubSeq(order, from + 1, from + n)
  OBVIOUS
<1>6. /\ h \in Seq(1..MaxAllocs) /\ Len(h) = n
      /\ \A k \in 1..n : h[k] = order[from + k]
  <2>1. PICK a, b : a = from + 1 /\ b = from + n
    OBVIOUS
  <2>2. /\ a \in Int /\ b \in Int /\ b - a + 1 = n /\ (a <= b <=> n # 0)
        /\ \A i \in a..b : i \in 1..m
        /\ \A k \in 1..n : a + k - 1 = from + k
    BY <1>3, <2>1
  <2>3. \A i \in a..b : order[i] \in 1..MaxAllocs
    <3>1. \A i \in 1..Len(order) : order[i] \in 1..MaxAllocs
      BY ElementOfSeq
    <3> QED  BY <1>2, <2>2, <3>1
  <2>4. /\ SubSeq(order, a, b) \in Seq(1..MaxAllocs)
        /\ Len(SubSeq(order, a, b)) = IF a <= b THEN b - a + 1 ELSE 0
        /\ \A k \in 1..(b - a + 1) : SubSeq(order, a, b)[k] = order[a + k - 1]
    BY <2>2, <2>3, SubSeqProperties
  <2>5. h = SubSeq(order, a, b)
    BY <1>5, <2>1
  <2> QED  BY <2>2, <2>4, <2>5
<1>7. g = h
  BY <1>1, <1>3, <1>6, SeqEqual
<1> QED  BY <1>1, <1>2, <1>4, <1>5, <1>7

(* With one thread that allocates, publish() of a valid handle never finds  *)
(* the queue full, and what a handler was called with is a piece of the     *)
(* order of the queue, without a gap and without a repetition.             *)
THEOREM NoGapsTheorem ==
    ASSUME OneAllocator
    PROVE  Spec => []NoGaps
<1>1. IInv => NoGaps
  <2> SUFFICES ASSUME IInv  PROVE NoGaps
    OBVIOUS
  <2>1. \A t \in Publishers :
            pc[t] = "enqueue_seq" => seq[Cell(pos[t])] >= pos[t]
    BY NeverFull
  <2>2. ASSUME NEW s \in Subs
        PROVE  \E from \in 0..(Len(order) - Len(got[s])) :
                   got[s] = SubSeq(order, from + 1, from + Len(got[s]))
    <3>1. got[s] \in Seq(1..MaxAllocs) /\ order \in Seq(1..MaxAllocs)
      BY DEF IInv, TypeOK
    <3>2. PICK from \in Nat : Follows(got[s], from)
      BY DEF IInv, GotInv
    <3> QED  BY <3>1, <3>2, Piece
  <2> QED  BY <2>1, <2>2 DEF NoGaps
<1> QED  BY <1>1, Invariance, PTL
=============================================================================
