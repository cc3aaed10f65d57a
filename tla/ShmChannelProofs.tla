-------------------------- MODULE ShmChannelProofs --------------------------
(***************************************************************************)
(* What ShmChannel keeps, proved for any capacity and any width of the      *)
(* counters that ShmAssumption allows, and for any number of messages,      *)
(* openings, crashes and starts of the worker.                             *)
(***************************************************************************)
EXTENDS ShmChannel, Integers, SequenceTheorems, TLAPS

-----------------------------------------------------------------------------
(* The inductive invariant: what a region holds.  The arguments are the     *)
(* region r, what happened to it h, the tokens of its semaphore, where a    *)
(* writer that has it open is and the head it has read, the worker k of a   *)
(* reader that has it open, and t, how many messages were taken.            *)

\* The messages that were sent and not taken are in the ring, whole.
Contents(r, h, t) ==
    /\ h.sent - t <= Capacity
    /\ r.head = h.sent % Width /\ r.tail = t % Width
    /\ \A n \in (t + 1)..h.sent : /\ r.size[(n - 1) % Capacity] = n
                                  /\ r.data[(n - 1) % Capacity] = n

\* publish() has the head, then room, and fills the cell that is next.
Written(r, h, at, hd, t) ==
    /\ at \in {"check", "size", "store"} => hd = r.head
    /\ at \in {"size", "store"} => /\ h.sent - t < Capacity
                                   /\ r.data[hd % Capacity] = h.sent + 1
    /\ at = "store" => r.size[hd % Capacity] = h.sent + 1

\* The worker has the tail, then a message behind it, then its size.
Readout(r, h, k, t) ==
    /\ k.at \in {"head", "size", "copy", "deliver", "store"} => k.tail = r.tail
    /\ k.at \in {"size", "copy", "deliver", "store"} => t < h.sent
    /\ k.at \in {"copy", "deliver"} => k.size = t + 1

\* WholeInOrder, of one region.
Whole(h) == LET got == h.got IN
    \A i \in DOMAIN got :
        LET prev == IF i = 1 THEN 0 ELSE got[i - 1].data
        IN  /\ got[i].size = got[i].data
            /\ got[i].data \in 1..h.sent
            /\ \/ got[i].data = prev + 1
               \/ got[i].data = prev /\ h.lost > 0

Latest(got) == IF got = <<>> THEN 0 ELSE got[Len(got)].data

\* What was delivered is what was taken, or one more.
Delivered(h, k, t) ==
    /\ Whole(h)
    /\ Latest(h.got) \in {t, t + 1}
    /\ k.at = "store" => Latest(h.got) = t + 1
    /\ k.at # "store" /\ h.lost = 0 => Latest(h.got) = t

\* TokensCover, of one region.
Covered(h, tokens, at, k, t) ==
    h.sent - t <= tokens + One(at = "post") + One(k.at \in Holds) + h.lost

Taken(r, h, tokens, at, hd, k, t) ==
    /\ Contents(r, h, t) /\ Written(r, h, at, hd, t) /\ Readout(r, h, k, t)
    /\ Delivered(h, k, t) /\ Covered(h, tokens, at, k, t)

Sound(r, h, tokens, at, hd, k) ==
    \E t \in 0..h.sent : Taken(r, h, tokens, at, hd, k, t)

WriterIn(g) == IF proc[Writer].map = g THEN proc[Writer].at ELSE "closed"
WorkerIn(g) == IF proc[Reader].map = g THEN worker ELSE NoWorker

RegionInv(g) ==
    \/ hist[g].disturbed
    \/ /\ hist[g].sem = None /\ hist[g].sent = 0
       /\ hist[g].lost = 0 /\ hist[g].got = <<>>
    \/ /\ hist[g].sem # None
       /\ Sound(regions[g], hist[g], sems[hist[g].sem], WriterIn(g), head,
                WorkerIn(g))

RegionsInv == \A g \in Regions : RegionInv(g)

-----------------------------------------------------------------------------
(* The inductive invariant: who has what.  *)

Opened == {"open"} \cup Publishing \cup Stopping

\* Only the creator creates, and a new semaphore belongs to no region.
CreatorInv ==
    /\ \A p \in Procs : At(p, "reset_tail") => /\ regions[proc[p].map].head = 0
                                               /\ hist[proc[p].map].sem = None
    /\ \A p \in Procs : proc[p].at \in {"reset_head", "reset_tail"} =>
           \A g \in Regions : hist[g].sem # proc[p].sid
    /\ \A p \in Procs : proc[p].at \in Creating => p = creator

\* An open channel has a region that is set up, with the semaphore that
\* belongs to it, which belongs to no other; its worker is gone once stop()
\* returned.
OpenInv ==
    /\ \A p \in Procs : proc[p].at \in Opened => regions[proc[p].map].magic
    /\ \A g, e \in Regions :
           hist[g].sem = hist[e].sem /\ hist[g].sem # None => g = e
    /\ Undisturbed => \A p \in Procs :
           proc[p].at \in Opened => hist[proc[p].map].sem = proc[p].sid

StopInv == At(Reader, "open") /\ ~running => worker.at = "off"

IInv == TypeOK /\ StopInv /\ CreatorInv /\ OpenInv /\ RegionsInv

-----------------------------------------------------------------------------
(* Remainders. *)


\* The quotient and the remainder.
LEMMA Divided ==
    ASSUME NEW a \in Nat, NEW d \in Nat \ {0}
    PROVE  /\ a % d \in 0..(d - 1) /\ a \div d \in Nat
           /\ a = d * (a \div d) + (a % d)
OBVIOUS

\* A smaller multiple is smaller by the divisor at least.
LEMMA Multiples ==
    ASSUME NEW d \in Nat \ {0}, NEW q \in Nat, NEW p \in Nat, q < p
    PROVE  d * q + d <= d * p
<1>1. PICK e \in Nat : p = q + 1 + e
  <2>1. p - q - 1 \in Nat /\ p = q + 1 + (p - q - 1)
    OBVIOUS
  <2> QED BY <2>1
<1>2. d * p = d * q + d + d * e
  BY <1>1
<1>3. d * e \in Nat
  OBVIOUS
<1>4. d * q \in Nat
 OBVIOUS
<1> QED BY <1>2, <1>3, <1>4

\* There is one quotient and one remainder.
LEMMA Unique ==
    ASSUME NEW d \in Nat \ {0}, NEW q \in Nat, NEW p \in Nat,
           NEW r \in 0..(d - 1), NEW s \in 0..(d - 1), d * q + r = d * p + s
    PROVE  q = p /\ r = s
<1>0. d * q \in Nat /\ d * p \in Nat
  OBVIOUS
<1>1. ~(q < p)
  <2> SUFFICES ASSUME q < p PROVE FALSE
    OBVIOUS
  <2>1. d * q + d <= d * p
    BY Multiples
  <2> QED BY <2>1, <1>0
<1>2. ~(p < q)
  <2> SUFFICES ASSUME p < q PROVE FALSE
    OBVIOUS
  <2>1. d * p + d <= d * q
    BY Multiples
  <2> QED BY <2>1, <1>0
<1>3. q = p
 BY <1>1, <1>2
<1> QED BY <1>3, <1>0

LEMMA Rem ==
    ASSUME NEW d \in Nat \ {0}, NEW q \in Nat, NEW r \in 0..(d - 1),
           NEW a \in Nat, a = d * q + r
    PROVE  a % d = r /\ a \div d = q
<1>1. /\ a % d \in 0..(d - 1) /\ a \div d \in Nat
      /\ a = d * (a \div d) + (a % d)
  BY Divided
<1> QED BY <1>1, Unique

\* The remainder of the next number.
LEMMA Succ ==
    ASSUME NEW d \in Nat \ {0}, NEW a \in Nat
    PROVE  (a + 1) % d = IF a % d = d - 1 THEN 0 ELSE (a % d) + 1
<1>1. /\ a % d \in 0..(d - 1) /\ a \div d \in Nat
      /\ a = d * (a \div d) + (a % d)
  BY Divided
<1>a. PICK q, r : q = a \div d /\ r = a % d
  OBVIOUS
<1>b. q \in Nat /\ r \in 0..(d - 1) /\ a = d * q + r /\ d * q \in Nat
  BY <1>1, <1>a
<1>2. CASE r = d - 1
  <2>1. a + 1 = d * (q + 1) + 0 /\ q + 1 \in Nat /\ 0 \in 0..(d - 1)
    BY <1>b, <1>2
  <2>2. (a + 1) % d = 0
    BY <2>1, Rem
  <2> QED BY <1>a, <1>2, <2>2
<1>3. CASE r # d - 1
  <2>1. a + 1 = d * q + (r + 1) /\ r + 1 \in 0..(d - 1)
    BY <1>b, <1>3
  <2>2. PICK n, k : n = a + 1 /\ k = r + 1
    OBVIOUS
  <2>3. n \in Nat /\ n = d * q + k /\ k \in 0..(d - 1)
    BY <1>b, <2>1, <2>2
  <2>4. n % d = k
    BY <1>b, <2>3, Rem
  <2> QED BY <1>a, <1>3, <2>2, <2>4
<1> QED BY <1>2, <1>3, <1>a

\* The distance of two numbers, from their remainders.
LEMMA Wrap ==
    ASSUME NEW d \in Nat \ {0}, NEW r \in Nat, NEW s \in Nat, r <= s,
           s - r < d
    PROVE  ((s % d) + d - (r % d)) % d = s - r
<1>1. /\ r % d \in 0..(d - 1) /\ r \div d \in Nat
      /\ r = d * (r \div d) + (r % d)
      /\ s % d \in 0..(d - 1) /\ s \div d \in Nat
      /\ s = d * (s \div d) + (s % d)
  BY Divided
<1>a. PICK q, p, u, v : q = r \div d /\ p = s \div d /\ u = r % d /\ v = s % d
  OBVIOUS
<1>2. /\ q \in Nat /\ p \in Nat /\ u \in 0..(d - 1) /\ v \in 0..(d - 1)
      /\ r = d * q + u /\ s = d * p + v /\ d * q \in Nat /\ d * p \in Nat
  BY <1>1, <1>a
<1>3. q <= p
  <2> SUFFICES ASSUME p < q PROVE FALSE
    BY <1>2
  <2>1. d * p + d <= d * q
    BY <1>2, Multiples
  <2> QED BY <1>2, <2>1
<1>4. CASE p = q
  <2>1. v + d - u = d * 1 + (s - r) /\ s - r \in 0..(d - 1) /\ v + d - u \in Nat
    BY <1>2, <1>4
  <2>a. PICK n, k : n = v + d - u /\ k = s - r
    OBVIOUS
  <2>b. n \in Nat /\ n = d * 1 + k /\ k \in 0..(d - 1) /\ 1 \in Nat
    BY <2>1, <2>a
  <2>c. n % d = k
    BY <2>b, Rem
  <2>2. (v + d - u) % d = s - r
    BY <2>a, <2>c
  <2> QED BY <2>2, <1>a
<1>5. CASE q < p
  <2>1. d * q + d <= d * p
    BY <1>2, <1>5, Multiples
  <2>2. p = q + 1
    <3> SUFFICES ASSUME q + 1 < p PROVE FALSE
      BY <1>2, <1>5
    <3>1. d * (q + 1) + d <= d * p
      BY <1>2, Multiples
    <3>2. d * (q + 1) = d * q + d
      BY <1>2
    <3> QED BY <1>2, <3>1, <3>2
  <2>3. d * p = d * q + d
    BY <1>2, <2>2
  <2>4. v + d - u = d * 0 + (s - r) /\ s - r \in 0..(d - 1) /\ v + d - u \in Nat
    BY <1>2, <2>3
  <2>5. (v + d - u) % d = s - r
    BY <2>4, Rem
  <2> QED BY <2>5, <1>a
<1> QED BY <1>2, <1>3, <1>4, <1>5

\* A remainder of a remainder, when the one divisor divides the other.
LEMMA Twice ==
    ASSUME NEW c \in Nat \ {0}, NEW d \in Nat \ {0}, d % c = 0, NEW a \in Nat
    PROVE  (a % d) % c = a % c
<1>1. /\ a % d \in 0..(d - 1) /\ a \div d \in Nat
      /\ a = d * (a \div d) + (a % d)
  BY Divided
<1>2. /\ d \div c \in Nat /\ d = c * (d \div c)
  <2>1. /\ d \div c \in Nat /\ d = c * (d \div c) + (d % c)
    BY Divided
  <2>2. c * (d \div c) \in Nat
    BY <2>1
  <2> QED BY <2>1, <2>2
<1>3. PICK b : b = a % d
  OBVIOUS
<1>4. /\ b \in Nat /\ b % c \in 0..(c - 1) /\ b \div c \in Nat
      /\ b = c * (b \div c) + (b % c)
  <2>1. b \in Nat
    BY <1>1, <1>3
  <2> QED BY <2>1, Divided
<1>5. PICK m, q, e : m = d \div c /\ q = a \div d /\ e = b \div c
  OBVIOUS
<1>6. a = c * (m * q + e) + (b % c) /\ m * q + e \in Nat
  <2>1. a = (c * m) * q + (c * e + (b % c))
    BY <1>1, <1>2, <1>3, <1>4, <1>5
  <2>2. m \in Nat /\ q \in Nat /\ e \in Nat
    BY <1>1, <1>2, <1>4, <1>5
  <2>3. (c * m) * q = c * (m * q) /\ c * (m * q + e) = c * (m * q) + c * e
    BY <2>2
  <2>4. m * q \in Nat /\ c * (m * q) \in Nat /\ c * e \in Nat
    BY <2>2
  <2> QED BY <1>4, <2>1, <2>2, <2>3, <2>4
<1>7. a % c = b % c
  <2> PICK r, k : r = b % c /\ k = m * q + e
    OBVIOUS
  <2>1. a % c = r
    BY <1>4, <1>6, Rem
  <2> QED BY <2>1
<1> QED BY <1>3, <1>7

\* Two numbers closer than the divisor have different remainders.
LEMMA Near ==
    ASSUME NEW c \in Nat \ {0}, NEW a \in Nat, NEW b \in Nat, a < b,
           b - a < c
    PROVE  a % c # b % c
<1>1. /\ a \div c \in Nat /\ a = c * (a \div c) + (a % c) /\ a % c \in Nat
      /\ b \div c \in Nat /\ b = c * (b \div c) + (b % c) /\ b % c \in Nat
  BY Divided
<1> SUFFICES ASSUME a % c = b % c PROVE FALSE
  OBVIOUS
<1>2. PICK q, p : q = a \div c /\ p = b \div c
  OBVIOUS
<1>3. /\ q \in Nat /\ p \in Nat /\ c * q \in Nat /\ c * p \in Nat
      /\ c * p - c * q = b - a
  BY <1>1, <1>2
<1>4. CASE q < p
  <2>1. c * q + c <= c * p
    BY <1>3, <1>4, Multiples
  <2> QED BY <1>3, <2>1
<1>5. CASE ~(q < p)
  <2>1. q = p \/ p < q
    BY <1>3, <1>5
  <2>2. ~(p < q)
    <3> SUFFICES ASSUME p < q PROVE FALSE
      OBVIOUS
    <3>1. c * p + c <= c * q
      BY <1>3, Multiples
    <3> QED BY <1>3, <3>1
  <2> QED BY <1>3, <2>1, <2>2
<1> QED BY <1>4, <1>5

-----------------------------------------------------------------------------
(* The ring. *)

LEMMA Sizes ==
    /\ Capacity \in Nat \ {0} /\ Width \in Nat \ {0} /\ Capacity < Width
    /\ Width % Capacity = 0 /\ Writer # Reader
    /\ Reader \in Procs /\ Writer \in Procs /\ Procs = {Writer, Reader}
<1>1. /\ Capacity \in Nat \ {0} /\ Width \in Nat /\ 2 * Capacity <= Width
      /\ Width % Capacity = 0 /\ Writer # Reader
  BY ShmAssumption
<1> QED
  BY <1>1 DEF Procs

\* A count, and the cell that it stands for.
LEMMA CellOf ==
    ASSUME NEW s \in Nat
    PROVE  /\ s % Width \in Counts /\ s % Capacity \in Slots
           /\ (s % Width) % Capacity = s % Capacity
<1>1. s % Width \in Counts /\ s % Capacity \in Slots
  BY Sizes, Divided DEF Counts, Slots
<1>2. (s % Width) % Capacity = s % Capacity
  BY Sizes, Twice
<1> QED BY <1>1, <1>2

LEMMA CountAfter ==
    ASSUME NEW s \in Nat
    PROVE  ((s % Width) + 1) % Width = (s + 1) % Width
<1>1. PICK a : a = s % Width
  OBVIOUS
<1>2. a \in 0..(Width - 1)
  BY <1>1, Sizes, Divided
<1>3. a % Width = a
  <2>1. Width \in Nat \ {0} /\ 0 \in Nat /\ a \in Nat /\ a = Width * 0 + a
    BY <1>2, Sizes
  <2> QED BY <1>2, <2>1, Rem
<1>4. (s + 1) % Width = IF a = Width - 1 THEN 0 ELSE a + 1
  BY <1>1, Sizes, Succ
<1>5. (a + 1) % Width = IF a % Width = Width - 1 THEN 0 ELSE (a % Width) + 1
  <2>1. a \in Nat /\ Width \in Nat \ {0}
    BY <1>2, Sizes
  <2> QED BY <2>1, Succ
<1> QED BY <1>1, <1>3, <1>4, <1>5

\* What Unread and Full compute, and when head and tail are the same.
LEMMA Between ==
    ASSUME NEW s \in Nat, NEW t \in 0..s, s - t <= Capacity
    PROVE  /\ ((s % Width) + Width - (t % Width)) % Width = s - t
           /\ s % Width = t % Width => s = t
<1>1. t \in Nat /\ t <= s /\ s - t < Width
  BY Sizes
<1>2. ((s % Width) + Width - (t % Width)) % Width = s - t
  BY <1>1, Sizes, Wrap
<1>3. ASSUME t < s PROVE s % Width # t % Width
  BY <1>1, <1>3, Sizes, Near
<1> QED BY <1>1, <1>2, <1>3

-----------------------------------------------------------------------------
(* What a step of the writer or the worker does to a region.  *)

Messages == [size : Nat, data : Nat]

\* Where a writer is that is not inside publish(), and a worker with nothing.
Quiet == {"open", "closed", "unlink", "unlink_sem"} \cup Creating
         \cup Attaching \cup Stopping
Idle(k) == k \in WorkerType /\ k.at \notin Holds

LEMMA PublishLoadKeeps ==
    ASSUME NEW r, NEW h, NEW n, NEW hd, NEW k,
           Sound(r, h, n, "open", hd, k)
    PROVE  Sound(r, h, n, "check", r.head, k)
<1>1. PICK t \in 0..h.sent : Taken(r, h, n, "open", hd, k, t)
  BY DEF Sound
<1>2. Taken(r, h, n, "check", r.head, k, t)
  BY <1>1 DEF Taken, Written, Covered, One
<1> QED BY <1>2 DEF Sound

\* The writer is not inside publish(), and was not about to post.
LEMMA WriterLeaves ==
    ASSUME NEW r, NEW h, NEW n, NEW at, NEW hd, NEW k, NEW to \in Quiet,
           NEW nd, at # "post",
           Sound(r, h, n, at, hd, k)
    PROVE  Sound(r, h, n, to, nd, k)
<1>1. PICK t \in 0..h.sent : Taken(r, h, n, at, hd, k, t)
  BY DEF Sound
<1>2. Taken(r, h, n, to, nd, k, t)
  BY <1>1 DEF Taken, Written, Covered, One, Quiet, Creating, Attaching, Stopping
<1> QED BY <1>2 DEF Sound

LEMMA PublishPayloadKeeps ==
    ASSUME NEW r \in RegionType, NEW h \in HistType, NEW n \in Nat, NEW hd,
           NEW k,
           Sound(r, h, n, "check", hd, k),
           ~((hd + Width - r.tail) % Width >= Capacity),
           NEW e \in RegionType, e.head = r.head, e.tail = r.tail,
           e.size = r.size,
           e.data = [r.data EXCEPT ![hd % Capacity] = h.sent + 1]
    PROVE  Sound(e, h, n, "size", hd, k)
<1>1. PICK t \in 0..h.sent : Taken(r, h, n, "check", hd, k, t)
  BY DEF Sound
<1>2. /\ h.sent \in Nat /\ t \in Nat /\ t <= h.sent /\ Capacity \in Nat \ {0}
      /\ r.data \in [Slots -> Nat]
  BY Sizes DEF HistType, RegionType
<1>3. /\ h.sent - t <= Capacity /\ r.head = h.sent % Width
      /\ r.tail = t % Width /\ hd = r.head
  BY <1>1 DEF Taken, Contents, Written
<1>4. (hd + Width - r.tail) % Width = h.sent - t
  BY <1>2, <1>3, Between
<1>5. h.sent - t < Capacity
  BY <1>2, <1>4
<1>6. /\ hd % Capacity = h.sent % Capacity
      /\ h.sent % Capacity \in Slots
  BY <1>2, <1>3, CellOf
<1>7. e.data[hd % Capacity] = h.sent + 1
  BY <1>2, <1>6
<1>8. ASSUME NEW m \in (t + 1)..h.sent
      PROVE  /\ e.size[(m - 1) % Capacity] = m /\ e.data[(m - 1) % Capacity] = m
  <2>1. /\ r.size[(m - 1) % Capacity] = m /\ r.data[(m - 1) % Capacity] = m
    BY <1>1 DEF Taken, Contents
  <2>2. PICK a : a = m - 1
    OBVIOUS
  <2>3. a \in Nat /\ a < h.sent /\ h.sent - a < Capacity + 1
    BY <1>2, <1>5, <2>2
  <2>4. h.sent - a < Capacity
    BY <1>2, <1>5, <2>2
  <2>5. a % Capacity # h.sent % Capacity
    BY <1>2, <2>3, <2>4, Near
  <2>6. a % Capacity \in Slots
    BY <2>3, CellOf
  <2>7. e.data[a % Capacity] = r.data[a % Capacity]
    BY <1>2, <1>6, <2>5, <2>6
  <2> QED BY <2>1, <2>2, <2>7
<1>9. Contents(e, h, t)
  BY <1>3, <1>8 DEF Contents
<1>10. Written(e, h, "size", hd, t)
  BY <1>3, <1>5, <1>7 DEF Written
<1>11. Readout(e, h, k, t) /\ Delivered(h, k, t) /\ Covered(h, n, "size", k, t)
  BY <1>1 DEF Taken, Readout, Covered, One
<1> QED BY <1>9, <1>10, <1>11 DEF Sound, Taken

LEMMA PublishSizeKeeps ==
    ASSUME NEW r \in RegionType, NEW h \in HistType, NEW n \in Nat, NEW hd,
           NEW k,
           Sound(r, h, n, "size", hd, k),
           NEW e \in RegionType, e.head = r.head, e.tail = r.tail,
           e.data = r.data,
           e.size = [r.size EXCEPT ![hd % Capacity] = h.sent + 1]
    PROVE  Sound(e, h, n, "store", hd, k)
<1>1. PICK t \in 0..h.sent : Taken(r, h, n, "size", hd, k, t)
  BY DEF Sound
<1>2. /\ h.sent \in Nat /\ t \in Nat /\ t <= h.sent /\ Capacity \in Nat \ {0}
      /\ r.size \in [Slots -> Nat]
  BY Sizes DEF HistType, RegionType
<1>3. /\ h.sent - t < Capacity /\ r.head = h.sent % Width
      /\ r.tail = t % Width /\ hd = r.head
      /\ r.data[hd % Capacity] = h.sent + 1
  BY <1>1 DEF Taken, Contents, Written
<1>6. /\ hd % Capacity = h.sent % Capacity
      /\ h.sent % Capacity \in Slots
  BY <1>2, <1>3, CellOf
<1>7. e.size[hd % Capacity] = h.sent + 1
  BY <1>2, <1>6
<1>8. ASSUME NEW m \in (t + 1)..h.sent
      PROVE  /\ e.size[(m - 1) % Capacity] = m /\ e.data[(m - 1) % Capacity] = m
  <2>1. /\ r.size[(m - 1) % Capacity] = m /\ r.data[(m - 1) % Capacity] = m
    BY <1>1 DEF Taken, Contents
  <2>2. PICK a : a = m - 1
    OBVIOUS
  <2>3. a \in Nat /\ a < h.sent
    BY <1>2, <2>2
  <2>4. h.sent - a < Capacity
    BY <1>2, <1>3, <2>2
  <2>5. a % Capacity # h.sent % Capacity
    BY <1>2, <2>3, <2>4, Near
  <2>6. a % Capacity \in Slots
    BY <2>3, CellOf
  <2>7. e.size[a % Capacity] = r.size[a % Capacity]
    BY <1>2, <1>6, <2>5, <2>6
  <2> QED BY <2>1, <2>2, <2>7
<1>9. Contents(e, h, t)
  <2>1. h.sent - t <= Capacity
    BY <1>2, <1>3
  <2> QED BY <1>3, <1>8, <2>1 DEF Contents
<1>10. Written(e, h, "store", hd, t)
  BY <1>3, <1>7 DEF Written
<1>11. Readout(e, h, k, t) /\ Delivered(h, k, t) /\ Covered(h, n, "store", k, t)
  BY <1>1 DEF Taken, Readout, Covered, One
<1> QED BY <1>9, <1>10, <1>11 DEF Sound, Taken

\* More is sent: what was delivered stays whole.
LEMMA WholeKept ==
    ASSUME NEW h \in HistType, NEW j \in HistType, Whole(h), j.got = h.got,
           h.sent <= j.sent, h.lost <= j.lost
    PROVE  Whole(j)
<1> SUFFICES ASSUME NEW i \in DOMAIN h.got
             PROVE  LET prev == IF i = 1 THEN 0 ELSE h.got[i - 1].data
                    IN  /\ h.got[i].size = h.got[i].data
                        /\ h.got[i].data \in 1..j.sent
                        /\ \/ h.got[i].data = prev + 1
                           \/ h.got[i].data = prev /\ j.lost > 0
  BY DEF Whole
<1>1. /\ h.sent \in Nat /\ j.sent \in Nat /\ h.lost \in Nat /\ j.lost \in Nat
  BY DEF HistType
<1>2. PICK prev : prev = IF i = 1 THEN 0 ELSE h.got[i - 1].data
  OBVIOUS
<1>3. /\ h.got[i].size = h.got[i].data
      /\ h.got[i].data \in 1..h.sent
      /\ \/ h.got[i].data = prev + 1
         \/ h.got[i].data = prev /\ h.lost > 0
  BY <1>2 DEF Whole
<1>4. h.got[i].data \in 1..j.sent
  BY <1>1, <1>3
<1>5. h.lost > 0 => j.lost > 0
  BY <1>1
<1> QED BY <1>2, <1>3, <1>4, <1>5

LEMMA PublishHeadKeeps ==
    ASSUME NEW r \in RegionType, NEW h \in HistType, NEW n \in Nat, NEW hd,
           NEW k,
           Sound(r, h, n, "store", hd, k),
           NEW e \in RegionType, e.head = (hd + 1) % Width, e.tail = r.tail,
           e.data = r.data, e.size = r.size,
           NEW j \in HistType, j.sent = h.sent + 1, j.got = h.got,
           j.lost = h.lost
    PROVE  Sound(e, j, n, "post", 0, k)
<1>1. PICK t \in 0..h.sent : Taken(r, h, n, "store", hd, k, t)
  BY DEF Sound
<1>2. /\ h.sent \in Nat /\ t \in Nat /\ t <= h.sent /\ Capacity \in Nat \ {0}
      /\ h.lost \in Nat
  BY Sizes DEF HistType
<1>3. /\ h.sent - t < Capacity /\ r.head = h.sent % Width
      /\ r.tail = t % Width /\ hd = r.head
      /\ r.data[hd % Capacity] = h.sent + 1
      /\ r.size[hd % Capacity] = h.sent + 1
  BY <1>1 DEF Taken, Contents, Written
<1>4. e.head = (h.sent + 1) % Width
  BY <1>2, <1>3, CountAfter
<1>5. hd % Capacity = h.sent % Capacity
  BY <1>2, <1>3, CellOf
<1>6. ASSUME NEW m \in (t + 1)..(h.sent + 1)
      PROVE  /\ e.size[(m - 1) % Capacity] = m /\ e.data[(m - 1) % Capacity] = m
  <2>1. CASE m = h.sent + 1
    <3>1. m - 1 = h.sent
      BY <1>2, <2>1
    <3> QED BY <1>3, <1>5, <2>1, <3>1
  <2>2. CASE m # h.sent + 1
    <3>1. m \in (t + 1)..h.sent
      BY <1>2, <2>2
    <3> QED BY <1>1, <3>1 DEF Taken, Contents
  <2> QED BY <2>1, <2>2
<1>7. Contents(e, j, t)
  <2>1. j.sent - t <= Capacity
    BY <1>2, <1>3
  <2> QED BY <1>3, <1>4, <1>6, <2>1 DEF Contents
<1>8. Written(e, j, "post", 0, t)
  BY DEF Written
<1>9. Readout(e, j, k, t)
  BY <1>1, <1>2 DEF Taken, Readout
<1>10. Delivered(j, k, t)
  <2>1. Whole(j)
    BY <1>1, <1>2, WholeKept DEF Taken, Delivered
  <2> QED BY <1>1, <2>1 DEF Taken, Delivered
<1>11. Covered(j, n, "post", k, t)
  BY <1>1, <1>2 DEF Taken, Covered, One
<1>12. t \in 0..j.sent
  BY <1>2
<1> QED BY <1>7, <1>8, <1>9, <1>10, <1>11, <1>12 DEF Sound, Taken

LEMMA PublishPostKeeps ==
    ASSUME NEW r, NEW h \in HistType, NEW n \in Nat, NEW hd, NEW k,
           Sound(r, h, n, "post", hd, k)
    PROVE  Sound(r, h, n + 1, "open", hd, k)
<1>1. PICK t \in 0..h.sent : Taken(r, h, n, "post", hd, k, t)
  BY DEF Sound
<1>2. h.sent \in Nat /\ t \in Nat /\ h.lost \in Nat
  BY DEF HistType
<1>3. Covered(h, n + 1, "open", k, t)
  BY <1>1, <1>2 DEF Taken, Covered, One
<1>4. Written(r, h, "open", hd, t)
  BY DEF Written
<1> QED BY <1>1, <1>3, <1>4 DEF Sound, Taken

\* The worker takes a token, reads the tail, copies the handlers.
LEMMA WaitTokenKeeps ==
    ASSUME NEW r, NEW h \in HistType, NEW n \in Nat, NEW at, NEW hd,
           NEW k \in WorkerType, n > 0, k.at = "wait",
           Sound(r, h, n, at, hd, k)
    PROVE  Sound(r, h, n - 1, at, hd, [k EXCEPT !.at = "tail"])
<1>1. PICK t \in 0..h.sent : Taken(r, h, n, at, hd, k, t)
  BY DEF Sound
<1>2. PICK w : w = [k EXCEPT !.at = "tail"]
  OBVIOUS
<1>3. w.at = "tail"
  BY <1>2 DEF WorkerType
<1>4. h.sent \in Nat /\ t \in Nat /\ h.lost \in Nat
  BY DEF HistType
<1>5. Covered(h, n - 1, at, w, t)
  BY <1>1, <1>3, <1>4 DEF Taken, Covered, One, Holds
<1>6. Readout(r, h, w, t) /\ Delivered(h, w, t)
  BY <1>1, <1>3 DEF Taken, Readout, Delivered
<1> QED BY <1>1, <1>2, <1>5, <1>6 DEF Sound, Taken

\* The worker has nothing and takes nothing.
LEMMA IdleKeeps ==
    ASSUME NEW r, NEW h, NEW n, NEW at, NEW hd, NEW k, NEW w,
           Idle(k), Idle(w),
           Sound(r, h, n, at, hd, k)
    PROVE  Sound(r, h, n, at, hd, w)
<1>1. PICK t \in 0..h.sent : Taken(r, h, n, at, hd, k, t)
  BY DEF Sound
<1>2. Readout(r, h, w, t) /\ Delivered(h, w, t) /\ Covered(h, n, at, w, t)
  BY <1>1 DEF Taken, Readout, Delivered, Covered, Idle, Holds
<1> QED BY <1>1, <1>2 DEF Sound, Taken

LEMMA LoadTailKeeps ==
    ASSUME NEW r, NEW h, NEW n, NEW at, NEW hd, NEW k, NEW w,
           k.at = "tail", w.at = "head", w.tail = r.tail,
           Sound(r, h, n, at, hd, k)
    PROVE  Sound(r, h, n, at, hd, w)
<1>1. PICK t \in 0..h.sent : Taken(r, h, n, at, hd, k, t)
  BY DEF Sound
<1>2. Readout(r, h, w, t) /\ Delivered(h, w, t) /\ Covered(h, n, at, w, t)
  BY <1>1 DEF Taken, Readout, Delivered, Covered, Holds, One
<1> QED BY <1>1, <1>2 DEF Sound, Taken

\* There is no message for the token.
LEMMA LoadHeadEmpty ==
    ASSUME NEW r, NEW h \in HistType, NEW n \in Nat, NEW at, NEW hd,
           NEW k, NEW w,
           k.at = "head", r.head = k.tail, Idle(w),
           Sound(r, h, n, at, hd, k)
    PROVE  Sound(r, h, n, at, hd, w)
<1>1. PICK t \in 0..h.sent : Taken(r, h, n, at, hd, k, t)
  BY DEF Sound
<1>2. h.sent \in Nat /\ t \in 0..h.sent /\ h.lost \in Nat /\ t \in Nat
  BY DEF HistType
<1>3. /\ h.sent - t <= Capacity /\ r.head = h.sent % Width
      /\ r.tail = t % Width /\ k.tail = r.tail
  BY <1>1 DEF Taken, Contents, Readout
<1>4. h.sent = t
  BY <1>2, <1>3, Between
<1>5. Covered(h, n, at, w, t)
  BY <1>2, <1>4 DEF Covered, One
<1>6. Readout(r, h, w, t) /\ Delivered(h, w, t)
  BY <1>1 DEF Taken, Readout, Delivered, Idle, Holds
<1> QED BY <1>1, <1>5, <1>6 DEF Sound, Taken

LEMMA LoadHeadFull ==
    ASSUME NEW r, NEW h \in HistType, NEW n \in Nat, NEW at, NEW hd,
           NEW k, NEW w,
           k.at = "head", r.head # k.tail, w.at = "size", w.tail = k.tail,
           Sound(r, h, n, at, hd, k)
    PROVE  Sound(r, h, n, at, hd, w)
<1>1. PICK t \in 0..h.sent : Taken(r, h, n, at, hd, k, t)
  BY DEF Sound
<1>2. h.sent \in Nat /\ t \in Nat /\ t <= h.sent
  BY DEF HistType
<1>3. /\ r.head = h.sent % Width /\ r.tail = t % Width /\ k.tail = r.tail
  BY <1>1 DEF Taken, Contents, Readout
<1>4. t < h.sent
  BY <1>2, <1>3
<1>5. Readout(r, h, w, t) /\ Delivered(h, w, t) /\ Covered(h, n, at, w, t)
  BY <1>1, <1>4 DEF Taken, Readout, Delivered, Covered, Holds, One
<1> QED BY <1>1, <1>5 DEF Sound, Taken

\* The message that is next, for a worker that has seen that there is one.
LEMMA FrontIs ==
    ASSUME NEW r, NEW h \in HistType, NEW k, NEW t \in 0..h.sent,
           k.at \in {"size", "copy", "deliver"},
           Contents(r, h, t), Readout(r, h, k, t)
    PROVE  /\ t < h.sent
           /\ r.size[k.tail % Capacity] = t + 1
           /\ r.data[k.tail % Capacity] = t + 1
<1>1. h.sent \in Nat /\ t \in Nat
  BY DEF HistType
<1>2. /\ t < h.sent /\ k.tail = t % Width
  BY DEF Contents, Readout
<1>3. k.tail % Capacity = t % Capacity
  BY <1>1, <1>2, CellOf
<1>4. PICK m : m = t + 1
  OBVIOUS
<1>5. m \in (t + 1)..h.sent /\ m - 1 = t
  BY <1>1, <1>2, <1>4
<1>6. /\ r.size[(m - 1) % Capacity] = m /\ r.data[(m - 1) % Capacity] = m
  BY <1>5 DEF Contents
<1> QED BY <1>2, <1>3, <1>4, <1>5, <1>6

LEMMA LoadSizeKeeps ==
    ASSUME NEW r, NEW h \in HistType, NEW n, NEW at, NEW hd, NEW k, NEW w,
           k.at = "size", w.at = "copy", w.tail = k.tail,
           w.size = r.size[k.tail % Capacity],
           Sound(r, h, n, at, hd, k)
    PROVE  Sound(r, h, n, at, hd, w)
<1>1. PICK t \in 0..h.sent : Taken(r, h, n, at, hd, k, t)
  BY DEF Sound
<1>2. t < h.sent /\ w.size = t + 1
  BY <1>1, FrontIs DEF Taken
<1>3. Readout(r, h, w, t) /\ Delivered(h, w, t) /\ Covered(h, n, at, w, t)
  BY <1>1, <1>2 DEF Taken, Readout, Delivered, Covered, Holds, One
<1> QED BY <1>1, <1>3 DEF Sound, Taken

LEMMA CopyHandlersKeeps ==
    ASSUME NEW r, NEW h, NEW n, NEW at, NEW hd, NEW k, NEW w,
           k.at = "copy", w.at = "deliver", w.tail = k.tail, w.size = k.size,
           Sound(r, h, n, at, hd, k)
    PROVE  Sound(r, h, n, at, hd, w)
<1>1. PICK t \in 0..h.sent : Taken(r, h, n, at, hd, k, t)
  BY DEF Sound
<1>2. Readout(r, h, w, t) /\ Delivered(h, w, t) /\ Covered(h, n, at, w, t)
  BY <1>1 DEF Taken, Readout, Delivered, Covered, Holds, One
<1> QED BY <1>1, <1>2 DEF Sound, Taken

LEMMA DeliverKeeps ==
    ASSUME NEW r, NEW h \in HistType, NEW n, NEW at, NEW hd, NEW k, NEW w,
           k.at = "deliver", w.at = "store", w.tail = k.tail,
           NEW j \in HistType, j.sent = h.sent, j.lost = h.lost,
           j.got = Append(h.got, [size |-> k.size,
                                  data |-> r.data[k.tail % Capacity]]),
           Sound(r, h, n, at, hd, k)
    PROVE  Sound(r, j, n, at, hd, w)
<1>1. PICK t \in 0..h.sent : Taken(r, h, n, at, hd, k, t)
  BY DEF Sound
<1>2. /\ h.sent \in Nat /\ t \in Nat /\ h.lost \in Nat
      /\ h.got \in Seq(Messages)
  BY DEF HistType, Messages
<1>3. t < h.sent /\ k.size = t + 1 /\ r.data[k.tail % Capacity] = t + 1
  <2>1. t < h.sent /\ r.data[k.tail % Capacity] = t + 1
    BY <1>1, FrontIs DEF Taken
  <2>2. k.size = t + 1
    BY <1>1 DEF Taken, Readout
  <2> QED BY <2>1, <2>2
<1>4. PICK m : m = [size |-> t + 1, data |-> t + 1]
  OBVIOUS
<1>5. /\ j.got = Append(h.got, m) /\ m \in Messages /\ m.size = t + 1
      /\ m.data = t + 1
  BY <1>2, <1>3, <1>4 DEF Messages
<1>6. /\ Len(j.got) = Len(h.got) + 1 /\ j.got[Len(h.got) + 1] = m
      /\ \A i \in 1..Len(h.got) : j.got[i] = h.got[i]
      /\ Len(h.got) \in Nat /\ DOMAIN j.got = 1..(Len(h.got) + 1)
      /\ DOMAIN h.got = 1..Len(h.got)
  BY <1>2, <1>5
<1>7. Latest(j.got) = t + 1
  <2>1. j.got # <<>>
    BY <1>2, <1>5
  <2> QED BY <2>1, <1>5, <1>6 DEF Latest
<1>8. Whole(j)
  <2>1. ASSUME NEW i \in DOMAIN j.got,
               NEW prev, prev = IF i = 1 THEN 0 ELSE j.got[i - 1].data
        PROVE  /\ j.got[i].size = j.got[i].data
               /\ j.got[i].data \in 1..j.sent
               /\ \/ j.got[i].data = prev + 1
                  \/ j.got[i].data = prev /\ j.lost > 0
    <3>1. CASE i = Len(h.got) + 1
      <4>1. j.got[i] = m
        BY <1>6, <3>1
      <4>2. prev = Latest(h.got)
        <5>1. CASE h.got = <<>>
          BY <5>1, <3>1, <1>2, <2>1 DEF Latest
        <5>2. CASE h.got # <<>>
          <6>1. Len(h.got) # 0
            BY <5>2, <1>2
          <6>2. i # 1 /\ i - 1 = Len(h.got) /\ Len(h.got) \in 1..Len(h.got)
            BY <3>1, <6>1, <1>6
          <6> QED BY <5>2, <6>2, <1>6, <2>1 DEF Latest
        <5> QED BY <5>1, <5>2
      <4>3. prev = t \/ (prev = t + 1 /\ h.lost > 0)
        BY <4>2, <1>1, <1>2 DEF Taken, Delivered
      <4> QED BY <4>1, <4>3, <1>2, <1>3, <1>5
    <3>2. CASE i # Len(h.got) + 1
      <4>1. i \in 1..Len(h.got)
        BY <1>6, <3>2
      <4>2. j.got[i] = h.got[i] /\ i \in DOMAIN h.got
        BY <1>6, <4>1
      <4>3. prev = IF i = 1 THEN 0 ELSE h.got[i - 1].data
        <5>1. i # 1 => i - 1 \in 1..Len(h.got)
          BY <4>1, <1>6
        <5> QED BY <5>1, <1>6, <2>1
      <4>4. Whole(h)
        BY <1>1 DEF Taken, Delivered
      <4> QED BY <4>2, <4>3, <4>4 DEF Whole
    <3> QED BY <3>1, <3>2
  <2> QED BY <2>1 DEF Whole
<1>9. Contents(r, j, t) /\ Written(r, j, at, hd, t) /\ Readout(r, j, w, t)
  BY <1>1 DEF Taken, Contents, Written, Readout
<1>10. Covered(j, n, at, w, t)
  BY <1>1 DEF Taken, Covered, Holds, One
<1>11. Delivered(j, w, t)
  BY <1>7, <1>8 DEF Delivered
<1> QED BY <1>9, <1>10, <1>11 DEF Sound, Taken

LEMMA StoreTailKeeps ==
    ASSUME NEW r, NEW h \in HistType, NEW n \in Nat, NEW at, NEW hd,
           NEW k, NEW w,
           k.at = "store", Idle(w),
           NEW e, e.head = r.head, e.tail = (k.tail + 1) % Width,
           e.size = r.size, e.data = r.data,
           Sound(r, h, n, at, hd, k)
    PROVE  Sound(e, h, n, at, hd, w)
<1>1. PICK t \in 0..h.sent : Taken(r, h, n, at, hd, k, t)
  BY DEF Sound
<1>2. h.sent \in Nat /\ t \in Nat /\ h.lost \in Nat /\ Capacity \in Nat
  BY Sizes DEF HistType
<1>3. /\ t < h.sent /\ k.tail = t % Width /\ r.tail = t % Width
      /\ Latest(h.got) = t + 1 /\ h.sent - t <= Capacity
  BY <1>1 DEF Taken, Contents, Readout, Delivered
<1>4. PICK u : u = t + 1
  OBVIOUS
<1>5. u \in 0..h.sent /\ u \in Nat /\ h.sent - u <= Capacity
  BY <1>2, <1>3, <1>4
<1>6. e.tail = u % Width
  BY <1>2, <1>3, <1>4, CountAfter
<1>7. Contents(e, h, u)
  <2>1. \A m \in (u + 1)..h.sent : m \in (t + 1)..h.sent
    BY <1>2, <1>4
  <2> QED BY <1>1, <1>5, <1>6, <2>1 DEF Taken, Contents
<1>8. Written(e, h, at, hd, u)
  <2>1. h.sent - t < Capacity => h.sent - u < Capacity
    BY <1>2, <1>4
  <2> QED BY <1>1, <2>1 DEF Taken, Written
<1>9. Readout(e, h, w, u) /\ Delivered(h, w, u)
  BY <1>1, <1>3, <1>4 DEF Taken, Delivered, Readout, Idle, Holds
<1>10. Covered(h, n, at, w, u)
  BY <1>1, <1>2, <1>4 DEF Taken, Covered, Holds, One
<1> QED BY <1>5, <1>7, <1>8, <1>9, <1>10 DEF Sound, Taken

\* A token more.
LEMMA PostKeeps ==
    ASSUME NEW r, NEW h \in HistType, NEW n \in Nat, NEW at, NEW hd, NEW k,
           Sound(r, h, n, at, hd, k)
    PROVE  Sound(r, h, n + 1, at, hd, k)
<1>1. PICK t \in 0..h.sent : Taken(r, h, n, at, hd, k, t)
  BY DEF Sound
<1>2. h.sent \in Nat /\ t \in Nat /\ h.lost \in Nat
  BY DEF HistType
<1>3. Covered(h, n + 1, at, k, t)
  BY <1>1, <1>2 DEF Taken, Covered, One
<1> QED BY <1>1, <1>3 DEF Sound, Taken

\* A crash with a token, and one without.
LEMMA WriterLost ==
    ASSUME NEW r, NEW h \in HistType, NEW n \in Nat, NEW at, NEW hd, NEW k,
           NEW to \in Quiet, NEW nd,
           NEW j \in HistType, j.sent = h.sent, j.got = h.got,
           j.lost = h.lost + 1,
           Sound(r, h, n, at, hd, k)
    PROVE  Sound(r, j, n, to, nd, k)
<1>1. PICK t \in 0..h.sent : Taken(r, h, n, at, hd, k, t)
  BY DEF Sound
<1>2. h.sent \in Nat /\ t \in Nat /\ h.lost \in Nat
  BY DEF HistType
<1>3. Covered(j, n, to, k, t)
  BY <1>1, <1>2 DEF Taken, Covered, One
<1>4. Delivered(j, k, t)
  <2>1. Whole(j)
    BY <1>1, <1>2, WholeKept DEF Taken, Delivered
  <2> QED BY <1>1, <1>2, <2>1 DEF Taken, Delivered
<1>5. Contents(r, j, t) /\ Written(r, j, to, nd, t) /\ Readout(r, j, k, t)
  BY <1>1 DEF Taken, Contents, Written, Readout, Quiet, Creating, Attaching,
              Stopping
<1> QED BY <1>3, <1>4, <1>5 DEF Sound, Taken

LEMMA WorkerLost ==
    ASSUME NEW r, NEW h \in HistType, NEW n \in Nat, NEW at, NEW hd, NEW k,
           NEW w, Idle(w),
           NEW j \in HistType, j.sent = h.sent, j.got = h.got,
           j.lost = h.lost + 1,
           Sound(r, h, n, at, hd, k)
    PROVE  Sound(r, j, n, at, hd, w)
<1>1. PICK t \in 0..h.sent : Taken(r, h, n, at, hd, k, t)
  BY DEF Sound
<1>2. h.sent \in Nat /\ t \in Nat /\ h.lost \in Nat
  BY DEF HistType
<1>3. Covered(j, n, at, w, t)
  BY <1>1, <1>2 DEF Taken, Covered, One
<1>4. Delivered(j, w, t)
  <2>1. Whole(j)
    BY <1>1, <1>2, WholeKept DEF Taken, Delivered
  <2> QED BY <1>1, <1>2, <2>1 DEF Taken, Delivered, Idle, Holds
<1>5. Contents(r, j, t) /\ Written(r, j, at, hd, t) /\ Readout(r, j, w, t)
  BY <1>1 DEF Taken, Contents, Written, Readout, Idle, Holds
<1> QED BY <1>3, <1>4, <1>5 DEF Sound, Taken

\* A region that is set up.
LEMMA FreshIsSound ==
    ASSUME NEW r, NEW h, NEW n \in Nat, NEW at \in Quiet, NEW hd, NEW k,
           Idle(k), r.head = 0, r.tail = 0,
           h.sent = 0, h.got = <<>>, h.lost = 0
    PROVE  Sound(r, h, n, at, hd, k)
<1>1. 0 % Width = 0
  <2>1. /\ Width \in Nat \ {0} /\ 0 \in Nat /\ 0 = Width * 0 + 0
        /\ 0 \in 0..(Width - 1)
    BY Sizes
  <2> QED BY <2>1, Rem
<1>2. Contents(r, h, 0)
  BY <1>1, Sizes DEF Contents
<1>3. Written(r, h, at, hd, 0)
  BY DEF Written, Quiet, Creating, Attaching, Stopping
<1>4. Readout(r, h, k, 0)
  BY DEF Readout, Idle, Holds
<1>5. Delivered(h, k, 0)
  BY DEF Delivered, Whole, Latest, Idle, Holds
<1>6. Covered(h, n, at, k, 0)
  BY DEF Covered, One
<1> QED BY <1>2, <1>3, <1>4, <1>5, <1>6 DEF Sound, Taken

-----------------------------------------------------------------------------
(* The memory: one region, one history, one semaphore changes, or is new.  *)

LEMMA SeqSet ==
    ASSUME NEW S, NEW s \in Seq(S), NEW i \in DOMAIN s, NEW e \in S,
           NEW z, z = [s EXCEPT ![i] = e]
    PROVE  /\ z \in Seq(S) /\ Len(z) = Len(s) /\ DOMAIN z = DOMAIN s
           /\ z[i] = e /\ \A j \in DOMAIN s : j # i => z[j] = s[j]
<1>1. z \in Seq(S) /\ Len(z) = Len(s)
  BY ExceptSeq
<1> QED BY <1>1

LEMMA SeqAppend ==
    ASSUME NEW S, NEW s \in Seq(S), NEW e \in S, NEW z, z = Append(s, e)
    PROVE  /\ z \in Seq(S) /\ Len(z) = Len(s) + 1
           /\ DOMAIN z = DOMAIN s \cup {Len(z)} /\ Len(z) \notin DOMAIN s
           /\ z[Len(z)] = e /\ \A j \in DOMAIN s : z[j] = s[j]
           /\ Len(z) \in Nat \ {0}
<1>1. Len(s) \in Nat /\ DOMAIN s = 1..Len(s)
  OBVIOUS
<1>2. z \in Seq(S) /\ Len(z) = Len(s) + 1
  OBVIOUS
<1>3. DOMAIN z = 1..Len(z)
  BY <1>2
<1>4. DOMAIN z = DOMAIN s \cup {Len(z)} /\ Len(z) \notin DOMAIN s
  BY <1>1, <1>2, <1>3
<1>5. z[Len(z)] = e /\ \A j \in DOMAIN s : z[j] = s[j]
  BY <1>1, <1>2
<1> QED BY <1>1, <1>2, <1>4, <1>5

LEMMA RegionSet ==
    ASSUME MemoryTyped, NEW g \in Regions, NEW e \in RegionType,
           regions' = [regions EXCEPT ![g] = e]
    PROVE  /\ regions' \in Seq(RegionType) /\ Len(regions') = Len(regions)
           /\ Regions' = Regions /\ regions'[g] = e
           /\ \A d \in Regions : d # g => regions'[d] = regions[d]
<1>1. regions \in Seq(RegionType)
  BY DEF MemoryTyped
<1> QED BY <1>1, SeqSet DEF Regions

LEMMA HistSet ==
    ASSUME MemoryTyped, NEW g \in Regions, NEW e \in HistType,
           hist' = [hist EXCEPT ![g] = e]
    PROVE  /\ hist' \in Seq(HistType) /\ Len(hist') = Len(hist)
           /\ DOMAIN hist = Regions /\ DOMAIN hist' = Regions
           /\ hist'[g] = e
           /\ \A d \in Regions : d # g => hist'[d] = hist[d]
<1>1. hist \in Seq(HistType) /\ regions \in Seq(RegionType)
      /\ Len(hist) = Len(regions)
  BY DEF MemoryTyped
<1>2. DOMAIN hist = Regions
  BY <1>1 DEF Regions
<1> QED BY <1>1, <1>2, SeqSet

LEMMA SemSet ==
    ASSUME MemoryTyped, NEW i \in DOMAIN sems, NEW n \in Nat,
           sems' = [sems EXCEPT ![i] = n]
    PROVE  /\ sems' \in Seq(Nat) /\ DOMAIN sems' = DOMAIN sems
           /\ sems'[i] = n
           /\ \A j \in DOMAIN sems : j # i => sems'[j] = sems[j]
<1>1. sems \in Seq(Nat)
  BY DEF MemoryTyped
<1> QED BY <1>1, SeqSet

LEMMA HistDomain ==
    ASSUME MemoryTyped
    PROVE  /\ DOMAIN hist = Regions /\ Regions \subseteq Nat \ {0}
           /\ DOMAIN sems \subseteq Nat \ {0}
           /\ \A g \in Regions : /\ hist[g] \in HistType
                                 /\ regions[g] \in RegionType
           /\ \A i \in DOMAIN sems : sems[i] \in Nat
<1>1. /\ hist \in Seq(HistType) /\ regions \in Seq(RegionType)
      /\ Len(hist) = Len(regions) /\ sems \in Seq(Nat)
  BY DEF MemoryTyped
<1>2. DOMAIN hist = Regions
  BY <1>1 DEF Regions
<1>3. DOMAIN sems = 1..Len(sems) /\ Regions = 1..Len(regions)
  BY <1>1 DEF Regions
<1>4. Regions \subseteq Nat \ {0} /\ DOMAIN sems \subseteq Nat \ {0}
  BY <1>1, <1>3
<1> QED BY <1>1, <1>2, <1>3, <1>4

LEMMA NewTyped == NewRegion \in RegionType /\ NewHist \in HistType
                  /\ NoWorker \in WorkerType /\ 0 \in Counts
<1>1. 0 \in Counts
  BY Sizes DEF Counts
<1>2. [i \in Slots |-> 0] \in [Slots -> Nat]
  OBVIOUS
<1>3. <<>> \in Seq([size : Nat, data : Nat])
  OBVIOUS
<1> QED BY <1>1, <1>2, <1>3
        DEF NewRegion, RegionType, NewHist, HistType, NoWorker, WorkerType, None

-----------------------------------------------------------------------------
(* The types are kept. *)

\* One process moves.
LEMMA ProcSet ==
    ASSUME ProcTyped, NEW p \in Procs, NEW x \in ProcType,
           proc' = [proc EXCEPT ![p] = x], HasObjects(x)',
           Regions \subseteq Regions', DOMAIN sems \subseteq DOMAIN sems'
    PROVE  /\ ProcTyped' /\ proc'[p] = x
           /\ \A q \in Procs : q # p => proc'[q] = proc[q]
<1>1. proc \in [Procs -> ProcType]
  BY DEF ProcTyped
<1>2. /\ proc' \in [Procs -> ProcType] /\ proc'[p] = x
      /\ \A q \in Procs : q # p => proc'[q] = proc[q]
  BY <1>1
<1>3. ASSUME NEW q \in Procs PROVE HasObjects(proc[q])'
  <2>1. CASE q = p
    BY <1>2, <2>1 DEF HasObjects
  <2>2. CASE q # p
    <3>1. proc'[q] = proc[q] /\ HasObjects(proc[q])
      BY <1>2, <2>2 DEF ProcTyped
    <3> QED BY <3>1 DEF HasObjects
  <2> QED BY <2>1, <2>2
<1> QED BY <1>2, <1>3 DEF ProcTyped

\* It keeps its objects.
LEMMA GotoTyped ==
    ASSUME ProcTyped, NEW p \in Procs,
           NEW place \in {"open"} \cup Publishing \cup Stopping \cup {"reset_tail"},
           Goto(p, place),
           proc[p].at \in {"open"} \cup Publishing \cup Stopping
                          \cup {"reset_head", "reset_tail", "magic"},
           Regions' = Regions, DOMAIN sems' = DOMAIN sems
    PROVE  /\ ProcTyped' /\ proc'[p] = [proc[p] EXCEPT !.at = place]
           /\ proc'[p].at = place /\ proc'[p].map = proc[p].map
           /\ proc'[p].sid = proc[p].sid
           /\ \A q \in Procs : q # p => proc'[q] = proc[q]
<1>1. proc \in [Procs -> ProcType] /\ HasObjects(proc[p])
  BY DEF ProcTyped
<1>2. PICK x : x = [proc[p] EXCEPT !.at = place]
  OBVIOUS
<1>3. proc[p] \in ProcType
  BY <1>1
<1>4. /\ x \in ProcType /\ x.at = place /\ x.map = proc[p].map
      /\ x.sid = proc[p].sid
  <2>1. place \in Places
    BY DEF Places, Creating
  <2> QED BY <1>2, <1>3, <2>1 DEF ProcType
<1>5. proc[p].map \in Regions /\ proc[p].sid \in DOMAIN sems
  BY <1>1 DEF HasObjects, Out, Publishing, Stopping
<1>6. HasObjects(x)'
  BY <1>4, <1>5 DEF HasObjects, Out, Publishing, Stopping
<1>7. proc' = [proc EXCEPT ![p] = x]
  BY <1>2 DEF Goto
<1>8. /\ ProcTyped' /\ proc'[p] = x
      /\ \A q \in Procs : q # p => proc'[q] = proc[q]
  BY <1>4, <1>6, <1>7, ProcSet
<1> QED BY <1>2, <1>4, <1>8

-----------------------------------------------------------------------------
(* What a step leaves alone. *)

\* Whoever moves stays in its open channel, or goes where it has none; no
\* region is set up.
LEMMA SameOpen ==
    ASSUME TypeOK, CreatorInv, OpenInv, creator' = creator,
           Regions' = Regions, DOMAIN hist' = DOMAIN hist,
           \A g \in Regions : /\ regions'[g].magic = regions[g].magic
                              /\ hist'[g].sem = hist[g].sem
                              /\ hist'[g].disturbed = hist[g].disturbed,
           \A p \in Procs : At(p, "reset_tail") =>
               regions'[proc[p].map].head = regions[proc[p].map].head,
           \A p \in Procs : \/ proc'[p] = proc[p]
                            \/ /\ proc[p].at \in Opened /\ proc'[p].at \in Opened
                               /\ proc'[p].map = proc[p].map
                               /\ proc'[p].sid = proc[p].sid
                            \/ proc'[p].at \in Out \cup Attaching
                            \/ /\ proc'[p].at \in {"sem_unlink", "sem_create"}
                               /\ p = creator
    PROVE  CreatorInv' /\ OpenInv'
<1>1. \A p \in Procs : proc[p].at \in Opened \cup Creating =>
          proc[p].map \in Regions
  BY DEF TypeOK, ProcTyped, HasObjects, Opened, Creating, Out, Publishing,
     Stopping
<1>2. ASSUME NEW p \in Procs, proc'[p].at \in Creating
      PROVE  \/ proc'[p] = proc[p]
             \/ /\ proc'[p].at \in {"sem_unlink", "sem_create"}
                /\ p = creator
  BY <1>2 DEF Creating, Opened, Out, Attaching, Publishing, Stopping
<1>3. ASSUME NEW p \in Procs, proc'[p].at \in Opened
      PROVE  /\ proc[p].at \in Opened
             /\ proc'[p].map = proc[p].map /\ proc'[p].sid = proc[p].sid
  BY <1>3 DEF Opened, Out, Attaching, Publishing, Stopping
<1>4. CreatorInv'
  <2>1. ASSUME NEW p \in Procs, proc'[p].at = "reset_tail"
        PROVE  /\ regions'[proc'[p].map].head = 0
               /\ hist'[proc'[p].map].sem = None
    <3>1. proc'[p] = proc[p] /\ proc[p].map \in Regions
      BY <1>1, <1>2, <2>1 DEF Creating
    <3>2. /\ regions[proc[p].map].head = 0 /\ hist[proc[p].map].sem = None
          /\ At(p, "reset_tail")
      BY <2>1, <3>1 DEF CreatorInv, At
    <3> QED BY <3>1, <3>2
  <2>2. ASSUME NEW p \in Procs, proc'[p].at \in {"reset_head", "reset_tail"},
               NEW g \in Regions
        PROVE  hist'[g].sem # proc'[p].sid
    <3>1. proc'[p] = proc[p]
      BY <1>2, <2>2 DEF Creating
    <3> QED BY <2>2, <3>1 DEF CreatorInv
  <2>3. ASSUME NEW p \in Procs, proc'[p].at \in Creating PROVE p = creator'
    BY <1>2, <2>3 DEF CreatorInv
  <2> QED BY <2>1, <2>2, <2>3 DEF CreatorInv, At, Procs
<1>5. OpenInv'
  <2>1. ASSUME NEW p \in Procs, proc'[p].at \in Opened
        PROVE  regions'[proc'[p].map].magic
    <3>1. proc[p].at \in Opened /\ proc'[p].map = proc[p].map
      BY <1>3, <2>1
    <3>2. proc[p].map \in Regions /\ regions[proc[p].map].magic
      BY <1>1, <3>1 DEF OpenInv
    <3>3. regions'[proc[p].map].magic = regions[proc[p].map].magic
      BY <3>2
    <3> QED BY <3>1, <3>2, <3>3
  <2>2. ASSUME NEW g \in Regions, NEW e \in Regions,
               hist'[g].sem = hist'[e].sem, hist'[g].sem # None
        PROVE  g = e
    BY <2>2 DEF OpenInv
  <2>3. ASSUME Undisturbed', NEW p \in Procs, proc'[p].at \in Opened
        PROVE  hist'[proc'[p].map].sem = proc'[p].sid
    <3>1. Undisturbed
      <4>1. DOMAIN hist = Regions
        BY HistDomain DEF TypeOK
      <4> QED BY <4>1, <2>3 DEF Undisturbed
    <3>2. /\ proc[p].at \in Opened /\ proc'[p].map = proc[p].map
          /\ proc'[p].sid = proc[p].sid /\ proc[p].map \in Regions
      BY <1>1, <1>3, <2>3
    <3>3. hist[proc[p].map].sem = proc[p].sid
      BY <3>1, <3>2 DEF OpenInv
    <3> QED BY <3>2, <3>3
  <2> QED BY <2>1, <2>2, <2>3 DEF OpenInv, Procs
<1> QED BY <1>4, <1>5

\* The state after a step.
LEMMA RegionAfter ==
    ASSUME NEW g, NEW r, NEW h, NEW n, NEW at, NEW hd, NEW k,
           r = regions'[g], h = hist'[g], n = sems'[hist'[g].sem],
           at = WriterIn(g)', hd = head', k = WorkerIn(g)'
    PROVE  RegionInv(g)' <=>
              \/ h.disturbed
              \/ h.sem = None /\ h.sent = 0 /\ h.lost = 0 /\ h.got = <<>>
              \/ h.sem # None /\ Sound(r, h, n, at, hd, k)
BY DEF RegionInv, Sound, Taken, Contents, Written, Readout, Delivered, Whole,
       Latest, Covered, One, None, Holds

\* Nobody in the region does anything that matters to it.
LEMMA Frame ==
    ASSUME NEW g \in Regions, RegionInv(g), regions'[g] = regions[g],
           hist'[g] = hist[g],
           hist[g].sem # None => sems'[hist[g].sem] = sems[hist[g].sem],
           \/ WriterIn(g)' = WriterIn(g) /\ head' = head
           \/ WriterIn(g) # "post" /\ WriterIn(g)' \in Quiet,
           \/ WorkerIn(g)' = WorkerIn(g)
           \/ Idle(WorkerIn(g)) /\ Idle(WorkerIn(g)')
    PROVE  RegionInv(g)'
<1>1. CASE ~(hist[g].sem # None
             /\ Sound(regions[g], hist[g], sems[hist[g].sem], WriterIn(g), head,
                      WorkerIn(g)))
  BY <1>1 DEF RegionInv
<1>2. CASE hist[g].sem # None
           /\ Sound(regions[g], hist[g], sems[hist[g].sem], WriterIn(g), head,
                    WorkerIn(g))
  <2> PICK r, h, n, at, hd, k, to, nd, w :
          /\ r = regions[g] /\ h = hist[g] /\ n = sems[hist[g].sem]
          /\ at = WriterIn(g) /\ hd = head /\ k = WorkerIn(g)
          /\ to = WriterIn(g)' /\ nd = head' /\ w = WorkerIn(g)'
    OBVIOUS
  <2>1. Sound(r, h, n, at, hd, k)
    BY <1>2
  <2>2. Sound(r, h, n, to, nd, k)
    BY <2>1, WriterLeaves
  <2>3. Sound(r, h, n, to, nd, w)
    BY <2>2, IdleKeeps
  <2>4. /\ r = regions'[g] /\ h = hist'[g] /\ h.sem # None
        /\ n = sems'[hist'[g].sem]
    BY <1>2
  <2> QED BY <2>3, <2>4, RegionAfter
<1> QED BY <1>1, <1>2

\* In an open channel.
LEMMA InTheOpen ==
    ASSUME IInv, Undisturbed, NEW p \in Procs, proc[p].at \in Opened,
           NEW g, g = proc[p].map
    PROVE  /\ g \in Regions /\ regions[g].magic /\ ~hist[g].disturbed
           /\ regions[g] \in RegionType /\ hist[g] \in HistType
           /\ proc[p].sid \in DOMAIN sems /\ hist[g].sem = proc[p].sid
           /\ hist[g].sem # None /\ sems[hist[g].sem] \in Nat
           /\ Sound(regions[g], hist[g], sems[hist[g].sem], WriterIn(g), head,
                    WorkerIn(g))
<1>1. g \in Regions /\ proc[p].sid \in DOMAIN sems
  BY DEF IInv, TypeOK, ProcTyped, HasObjects, Opened, Out, Publishing, Stopping
<1>2. /\ DOMAIN hist = Regions /\ proc[p].sid # None
      /\ regions[g] \in RegionType /\ hist[g] \in HistType
      /\ sems[proc[p].sid] \in Nat
  BY <1>1, HistDomain DEF IInv, TypeOK, None
<1>3. ~hist[g].disturbed
  BY <1>1, <1>2 DEF Undisturbed
<1>4. regions[g].magic /\ hist[g].sem = proc[p].sid
  BY DEF IInv, OpenInv
<1>5. RegionInv(g)
  BY <1>1 DEF IInv, RegionsInv
<1>6. Sound(regions[g], hist[g], sems[hist[g].sem], WriterIn(g), head,
            WorkerIn(g))
  BY <1>2, <1>3, <1>4, <1>5 DEF RegionInv
<1> QED BY <1>1, <1>2, <1>3, <1>4, <1>6

-----------------------------------------------------------------------------
(* publish(): every step of it touches the one region that is open, and its *)
(* semaphore.                                                              *)

LEMMA WriterStep ==
    ASSUME IInv, Undisturbed,
           proc[Writer].at \in {"open"} \cup Publishing,
           NEW to \in {"open"} \cup Publishing, Goto(Writer, to),
           NEW g, g = Mine, UNCHANGED <<fixed, api>>,
           NEW r \in RegionType, r.magic = regions[g].magic,
           \/ regions' = [regions EXCEPT ![g] = r]
           \/ regions' = regions /\ r = regions[g],
           NEW h \in HistType,
           h.sem = hist[g].sem, h.disturbed = hist[g].disturbed,
           \/ hist' = [hist EXCEPT ![g] = h]
           \/ hist' = hist /\ h = hist[g],
           NEW n \in Nat,
           \/ sems' = [sems EXCEPT ![proc[Writer].sid] = n]
           \/ sems' = sems /\ n = sems[hist[g].sem],
           NEW hd \in Counts, head' = hd,
           Sound(r, h, n, to, hd, WorkerIn(g))
    PROVE  IInv'
<1>1. /\ TypeOK /\ MemoryTyped /\ ProcTyped /\ ApiTyped /\ StopInv
      /\ CreatorInv /\ OpenInv /\ RegionsInv
  BY DEF IInv, TypeOK
<1>2. Writer \in Procs /\ proc[Writer].at \in Opened
  BY Sizes DEF Opened
<1>3. /\ g \in Regions /\ regions[g] \in RegionType /\ hist[g] \in HistType
      /\ proc[Writer].sid \in DOMAIN sems /\ hist[g].sem = proc[Writer].sid
      /\ hist[g].sem # None /\ sems[hist[g].sem] \in Nat
  BY <1>2, InTheOpen DEF Mine
<1>4. DOMAIN hist = Regions
  BY <1>1, HistDomain
<1>5. /\ regions' \in Seq(RegionType) /\ Len(regions') = Len(regions)
      /\ Regions' = Regions /\ regions'[g] = r
      /\ \A d \in Regions : d # g => regions'[d] = regions[d]
  <2>1. CASE regions' = [regions EXCEPT ![g] = r]
    BY <1>1, <1>3, <2>1, RegionSet
  <2>2. CASE regions' = regions /\ r = regions[g]
    BY <1>1, <2>2 DEF MemoryTyped, Regions
  <2> QED BY <2>1, <2>2
<1>6. /\ hist' \in Seq(HistType) /\ Len(hist') = Len(hist)
      /\ DOMAIN hist' = Regions /\ hist'[g] = h
      /\ \A d \in Regions : d # g => hist'[d] = hist[d]
  <2>1. CASE hist' = [hist EXCEPT ![g] = h]
    BY <1>1, <1>3, <2>1, HistSet
  <2>2. CASE hist' = hist /\ h = hist[g]
    BY <1>1, <1>4, <2>2 DEF MemoryTyped
  <2> QED BY <2>1, <2>2
<1>7. /\ sems' \in Seq(Nat) /\ DOMAIN sems' = DOMAIN sems
      /\ sems'[hist[g].sem] = n
      /\ \A j \in DOMAIN sems : j # hist[g].sem => sems'[j] = sems[j]
  <2>1. CASE sems' = [sems EXCEPT ![proc[Writer].sid] = n]
    BY <1>1, <1>3, <2>1, SemSet
  <2>2. CASE sems' = sems /\ n = sems[hist[g].sem]
    BY <1>1, <2>2 DEF MemoryTyped
  <2> QED BY <2>1, <2>2
<1>8. \A d \in Regions : /\ regions'[d].magic = regions[d].magic
                         /\ hist'[d].sem = hist[d].sem
                         /\ hist'[d].disturbed = hist[d].disturbed
  BY <1>3, <1>5, <1>6
<1>9. /\ ProcTyped' /\ proc'[Writer].at = to
      /\ proc'[Writer].map = proc[Writer].map
      /\ proc'[Writer].sid = proc[Writer].sid
      /\ \A q \in Procs : q # Writer => proc'[q] = proc[q]
  BY <1>1, <1>2, <1>5, <1>7, GotoTyped
<1>10. proc'[Reader] = proc[Reader]
  BY <1>9, Sizes
<1>11. MemoryTyped'
  BY <1>1, <1>5, <1>6, <1>7, <1>8 DEF MemoryTyped, fixed
<1>12. ApiTyped' /\ StopInv'
  BY <1>1, <1>10 DEF ApiTyped, StopInv, At, api, Holds, WorkerType
<1>13. TypeOK'
  BY <1>1, <1>9, <1>11, <1>12 DEF TypeOK, fixed, Procs
<1>14. CreatorInv' /\ OpenInv'
  <2>1. ASSUME NEW p \in Procs, At(p, "reset_tail")
        PROVE  regions'[proc[p].map].head = regions[proc[p].map].head
    <3>1. hist[proc[p].map].sem = None /\ proc[p].map \in Regions
      BY <1>1, <2>1 DEF CreatorInv, ProcTyped, HasObjects, At, Out
    <3> QED BY <1>3, <1>5, <3>1
  <2>2. \A p \in Procs : \/ proc'[p] = proc[p]
                         \/ /\ proc[p].at \in Opened /\ proc'[p].at \in Opened
                            /\ proc'[p].map = proc[p].map
                            /\ proc'[p].sid = proc[p].sid
    BY <1>2, <1>9 DEF Opened
  <2>3. creator' = creator
    BY DEF fixed
  <2> QED BY <1>1, <1>4, <1>5, <1>6, <1>8, <2>1, <2>2, <2>3, SameOpen
<1>15. RegionsInv'
  <2>1. \A d : WorkerIn(d)' = WorkerIn(d)
    BY <1>10 DEF WorkerIn, api, NoWorker
  <2>2. RegionInv(g)'
    <3>1. WriterIn(g)' = to
      BY <1>9 DEF WriterIn, Mine
    <3>2. PICK k : k = WorkerIn(g)
      OBVIOUS
    <3>3. /\ Sound(r, h, n, to, hd, k) /\ h.sem # None /\ h.sem = hist[g].sem
      BY <1>3, <3>2
    <3>4. k = WorkerIn(g)'
      BY <2>1, <3>2
    <3> QED BY <1>5, <1>6, <1>7, <3>1, <3>3, <3>4, RegionAfter
  <2>3. ASSUME NEW d \in Regions, d # g PROVE RegionInv(d)'
    <3>1. WriterIn(d) = "closed" /\ WriterIn(d)' = "closed"
      BY <1>9, <2>3 DEF WriterIn, Mine
    <3>2. hist[d].sem # None => sems'[hist[d].sem] = sems[hist[d].sem]
      <4>1. hist[d].sem # None => hist[d].sem # hist[g].sem
        BY <1>1, <1>3, <2>3 DEF OpenInv
      <4>2. hist[d].sem # None => hist[d].sem \in DOMAIN sems
        BY <1>1 DEF MemoryTyped
      <4> QED BY <1>7, <4>1, <4>2
    <3>3. WriterIn(d) # "post" /\ WriterIn(d)' \in Quiet
      BY <3>1 DEF Quiet
    <3>4. RegionInv(d)
      BY <1>1 DEF RegionsInv
    <3>5. regions'[d] = regions[d] /\ hist'[d] = hist[d]
      BY <1>5, <1>6, <2>3
    <3> QED BY <2>1, <3>2, <3>3, <3>4, <3>5, Frame
  <2> QED BY <1>5, <2>2, <2>3 DEF RegionsInv
<1> QED BY <1>12, <1>13, <1>14, <1>15 DEF IInv

\* What publish() can rely on.
LEMMA InPublish ==
    ASSUME IInv, Undisturbed, proc[Writer].at \in {"open"} \cup Publishing,
           NEW g, g = Mine
    PROVE  /\ regions[g] \in RegionType /\ hist[g] \in HistType
           /\ sems[hist[g].sem] \in Nat /\ hist[g].sem = proc[Writer].sid
           /\ head \in Counts /\ 0 \in Counts
           /\ Sound(regions[g], hist[g], sems[hist[g].sem], proc[Writer].at,
                    head, WorkerIn(g))
<1>1. Writer \in Procs /\ proc[Writer].at \in Opened
  BY Sizes DEF Opened
<1>2. WriterIn(g) = proc[Writer].at
  BY DEF WriterIn, Mine
<1>3. head \in Counts
  BY DEF IInv, TypeOK
<1> QED BY <1>1, <1>2, <1>3, InTheOpen, NewTyped DEF Mine

LEMMA PublishLoadInv == IInv /\ Undisturbed /\ PublishLoad => IInv'
<1> SUFFICES ASSUME IInv, Undisturbed, PublishLoad PROVE IInv'
  OBVIOUS
<1>1. PICK g : g = Mine
  OBVIOUS
<1>2. proc[Writer].at = "open" /\ proc[Writer].at \in {"open"} \cup Publishing
  BY DEF PublishLoad, At
<1>3. /\ regions[g] \in RegionType /\ hist[g] \in HistType
      /\ sems[hist[g].sem] \in Nat
      /\ Sound(regions[g], hist[g], sems[hist[g].sem], "open", head,
               WorkerIn(g))
  BY <1>1, <1>2, InPublish
<1>4. Sound(regions[g], hist[g], sems[hist[g].sem], "check", regions[g].head,
            WorkerIn(g))
  BY <1>3, PublishLoadKeeps
<1>5. regions[g].head \in Counts
  BY <1>3 DEF RegionType
<1>6. /\ Goto(Writer, "check") /\ UNCHANGED <<fixed, api>> /\ regions' = regions
      /\ hist' = hist /\ sems' = sems /\ head' = regions[g].head
  BY <1>1 DEF PublishLoad, ring
<1>7. "check" \in {"open"} \cup Publishing
  BY DEF Publishing
<1> QED BY <1>1, <1>2, <1>3, <1>4, <1>5, <1>6, <1>7, WriterStep

LEMMA PublishFullInv == IInv /\ Undisturbed /\ PublishFull => IInv'
<1> SUFFICES ASSUME IInv, Undisturbed, PublishFull PROVE IInv'
  OBVIOUS
<1>1. PICK g : g = Mine
  OBVIOUS
<1>2. proc[Writer].at = "check" /\ proc[Writer].at \in {"open"} \cup Publishing
  BY DEF PublishFull, At, Publishing
<1>3. /\ regions[g] \in RegionType /\ hist[g] \in HistType
      /\ sems[hist[g].sem] \in Nat /\ 0 \in Counts
      /\ Sound(regions[g], hist[g], sems[hist[g].sem], "check", head,
               WorkerIn(g))
  BY <1>1, <1>2, InPublish
<1>4. Sound(regions[g], hist[g], sems[hist[g].sem], "open", 0, WorkerIn(g))
  <2>1. "open" \in Quiet
    BY DEF Quiet
  <2> QED BY <1>3, <2>1, WriterLeaves
<1>5. /\ Goto(Writer, "open") /\ UNCHANGED <<fixed, api>> /\ regions' = regions
      /\ hist' = hist /\ sems' = sems /\ head' = 0
  BY <1>1 DEF PublishFull, ring
<1> QED BY <1>1, <1>2, <1>3, <1>4, <1>5, WriterStep

LEMMA PublishPayloadInv == IInv /\ Undisturbed /\ PublishPayload => IInv'
<1> SUFFICES ASSUME IInv, Undisturbed, PublishPayload PROVE IInv'
  OBVIOUS
<1>1. PICK g : g = Mine
  OBVIOUS
<1>2. proc[Writer].at = "check" /\ proc[Writer].at \in {"open"} \cup Publishing
  BY DEF PublishPayload, At, Publishing
<1>3. /\ regions[g] \in RegionType /\ hist[g] \in HistType
      /\ sems[hist[g].sem] \in Nat /\ head \in Counts
      /\ Sound(regions[g], hist[g], sems[hist[g].sem], "check", head,
               WorkerIn(g))
  BY <1>1, <1>2, InPublish
<1>4. PICK r : r = [regions[g] EXCEPT !.data[Cell] = hist[g].sent + 1]
  OBVIOUS
<1>5. Cell \in Slots /\ hist[g].sent + 1 \in Nat
  <2>1. head \in Nat
    BY <1>3 DEF Counts
  <2>2. hist[g].sent \in Nat
    BY <1>3 DEF HistType
  <2> QED BY <2>1, <2>2, CellOf DEF Cell
<1>6. /\ r \in RegionType /\ r.head = regions[g].head
      /\ r.tail = regions[g].tail
      /\ r.size = regions[g].size /\ r.magic = regions[g].magic
      /\ r.data = [regions[g].data EXCEPT ![Cell] = hist[g].sent + 1]
  BY <1>3, <1>4, <1>5 DEF RegionType
<1>7. ~((head + Width - regions[g].tail) % Width >= Capacity)
  BY <1>1 DEF PublishPayload, Full
<1>8. Sound(r, hist[g], sems[hist[g].sem], "size", head, WorkerIn(g))
  BY <1>3, <1>6, <1>7, PublishPayloadKeeps DEF Cell
<1>9. /\ Goto(Writer, "size") /\ UNCHANGED <<fixed, api>>
      /\ regions' = [regions EXCEPT ![g] = r]
      /\ hist' = hist /\ sems' = sems /\ head' = head
  BY <1>1, <1>4 DEF PublishPayload
<1>10. "size" \in {"open"} \cup Publishing
  BY DEF Publishing
<1> QED BY <1>1, <1>2, <1>3, <1>6, <1>8, <1>9, <1>10, WriterStep

LEMMA PublishSizeInv == IInv /\ Undisturbed /\ PublishSize => IInv'
<1> SUFFICES ASSUME IInv, Undisturbed, PublishSize PROVE IInv'
  OBVIOUS
<1>1. PICK g : g = Mine
  OBVIOUS
<1>2. proc[Writer].at = "size" /\ proc[Writer].at \in {"open"} \cup Publishing
  BY DEF PublishSize, At, Publishing
<1>3. /\ regions[g] \in RegionType /\ hist[g] \in HistType
      /\ sems[hist[g].sem] \in Nat /\ head \in Counts
      /\ Sound(regions[g], hist[g], sems[hist[g].sem], "size", head,
               WorkerIn(g))
  BY <1>1, <1>2, InPublish
<1>4. PICK r : r = [regions[g] EXCEPT !.size[Cell] = hist[g].sent + 1]
  OBVIOUS
<1>5. Cell \in Slots /\ hist[g].sent + 1 \in Nat
  <2>1. head \in Nat
    BY <1>3 DEF Counts
  <2>2. hist[g].sent \in Nat
    BY <1>3 DEF HistType
  <2> QED BY <2>1, <2>2, CellOf DEF Cell
<1>6. /\ r \in RegionType /\ r.head = regions[g].head
      /\ r.tail = regions[g].tail
      /\ r.data = regions[g].data /\ r.magic = regions[g].magic
      /\ r.size = [regions[g].size EXCEPT ![Cell] = hist[g].sent + 1]
  BY <1>3, <1>4, <1>5 DEF RegionType
<1>7. Sound(r, hist[g], sems[hist[g].sem], "store", head, WorkerIn(g))
  BY <1>3, <1>6, PublishSizeKeeps DEF Cell
<1>8. /\ Goto(Writer, "store") /\ UNCHANGED <<fixed, api>>
      /\ regions' = [regions EXCEPT ![g] = r]
      /\ hist' = hist /\ sems' = sems /\ head' = head
  BY <1>1, <1>4 DEF PublishSize
<1>9. "store" \in {"open"} \cup Publishing
  BY DEF Publishing
<1> QED BY <1>1, <1>2, <1>3, <1>6, <1>7, <1>8, <1>9, WriterStep

LEMMA PublishHeadInv == IInv /\ Undisturbed /\ PublishHead => IInv'
<1> SUFFICES ASSUME IInv, Undisturbed, PublishHead PROVE IInv'
  OBVIOUS
<1>1. PICK g : g = Mine
  OBVIOUS
<1>2. proc[Writer].at = "store" /\ proc[Writer].at \in {"open"} \cup Publishing
  BY DEF PublishHead, At, Publishing
<1>3. /\ regions[g] \in RegionType /\ hist[g] \in HistType
      /\ sems[hist[g].sem] \in Nat /\ head \in Counts /\ 0 \in Counts
      /\ Sound(regions[g], hist[g], sems[hist[g].sem], "store", head,
               WorkerIn(g))
  BY <1>1, <1>2, InPublish
<1>4. PICK r : r = [regions[g] EXCEPT !.head = (head + 1) % Width]
  OBVIOUS
<1>5. PICK h : h = [hist[g] EXCEPT !.sent = @ + 1]
  OBVIOUS
<1>6. (head + 1) % Width \in Counts
  <2>1. PICK a : a = head + 1
    OBVIOUS
  <2>2. a \in Nat
    BY <1>3, <2>1 DEF Counts
  <2> QED BY <2>1, <2>2, CellOf
<1>7. /\ r \in RegionType /\ r.head = (head + 1) % Width
      /\ r.tail = regions[g].tail /\ r.data = regions[g].data
      /\ r.size = regions[g].size /\ r.magic = regions[g].magic
  BY <1>3, <1>4, <1>6 DEF RegionType
<1>8. /\ h \in HistType /\ h.sent = hist[g].sent + 1 /\ h.got = hist[g].got
      /\ h.lost = hist[g].lost /\ h.sem = hist[g].sem
      /\ h.disturbed = hist[g].disturbed
  <2>1. hist[g].sent + 1 \in Nat
    BY <1>3 DEF HistType
  <2>2. PICK x, s : x = hist[g] /\ s = hist[g].sent + 1
    OBVIOUS
  <2>3. x \in HistType /\ s \in Nat /\ h = [x EXCEPT !.sent = s]
    BY <1>3, <1>5, <2>1, <2>2
  <2>4. /\ h \in HistType /\ h.sent = s /\ h.got = x.got /\ h.lost = x.lost
        /\ h.sem = x.sem /\ h.disturbed = x.disturbed
    BY <2>3 DEF HistType
  <2> QED BY <2>2, <2>4
<1>9. Sound(r, h, sems[hist[g].sem], "post", 0, WorkerIn(g))
  BY <1>3, <1>7, <1>8, PublishHeadKeeps
<1>10. /\ Goto(Writer, "post") /\ UNCHANGED <<fixed, api>>
       /\ regions' = [regions EXCEPT ![g] = r]
       /\ hist' = [hist EXCEPT ![g] = h] /\ sems' = sems /\ head' = 0
  BY <1>1, <1>4, <1>5 DEF PublishHead
<1>11. "post" \in {"open"} \cup Publishing
  BY DEF Publishing
<1> QED BY <1>1, <1>2, <1>3, <1>7, <1>8, <1>9, <1>10, <1>11, WriterStep

LEMMA PublishPostInv == IInv /\ Undisturbed /\ PublishPost => IInv'
<1> SUFFICES ASSUME IInv, Undisturbed, PublishPost PROVE IInv'
  OBVIOUS
<1>1. PICK g : g = Mine
  OBVIOUS
<1>2. proc[Writer].at = "post" /\ proc[Writer].at \in {"open"} \cup Publishing
  BY DEF PublishPost, At, Publishing
<1>3. /\ regions[g] \in RegionType /\ hist[g] \in HistType
      /\ sems[hist[g].sem] \in Nat /\ head \in Counts
      /\ hist[g].sem = proc[Writer].sid
      /\ Sound(regions[g], hist[g], sems[hist[g].sem], "post", head,
               WorkerIn(g))
  BY <1>1, <1>2, InPublish
<1>4. PICK n : n = sems[hist[g].sem] + 1
  OBVIOUS
<1>5. n \in Nat
  BY <1>3, <1>4
<1>6. Sound(regions[g], hist[g], n, "open", head, WorkerIn(g))
  BY <1>3, <1>4, PublishPostKeeps
<1>7. /\ Goto(Writer, "open") /\ UNCHANGED <<fixed, api>> /\ regions' = regions
      /\ hist' = hist /\ sems' = [sems EXCEPT ![proc[Writer].sid] = n]
      /\ head' = head
  BY <1>1, <1>3, <1>4 DEF PublishPost, Post
<1> QED BY <1>1, <1>2, <1>3, <1>5, <1>6, <1>7, WriterStep

-----------------------------------------------------------------------------
(* dispatch_loop(): the same of the worker. *)

LEMMA WorkerStep ==
    ASSUME IInv, Undisturbed, worker.at # "off",
           UNCHANGED <<fixed, proc, head, running, handlers>>,
           NEW k \in WorkerType, worker' = k,
           At(Reader, "open") /\ ~running => k.at = "off",
           NEW g, g = Source,
           NEW r \in RegionType, r.magic = regions[g].magic,
           r.head = regions[g].head,
           \/ regions' = [regions EXCEPT ![g] = r]
           \/ regions' = regions /\ r = regions[g],
           NEW h \in HistType,
           h.sem = hist[g].sem, h.disturbed = hist[g].disturbed,
           \/ hist' = [hist EXCEPT ![g] = h]
           \/ hist' = hist /\ h = hist[g],
           NEW n \in Nat,
           \/ sems' = [sems EXCEPT ![proc[Reader].sid] = n]
           \/ sems' = sems /\ n = sems[hist[g].sem],
           Sound(r, h, n, WriterIn(g), head, k)
    PROVE  IInv'
<1>1. /\ TypeOK /\ MemoryTyped /\ ProcTyped /\ ApiTyped /\ StopInv
      /\ CreatorInv /\ OpenInv /\ RegionsInv
  BY DEF IInv, TypeOK
<1>2. Reader \in Procs /\ proc[Reader].at \in Opened
  BY <1>1, Sizes DEF ApiTyped, Opened, Stopping
<1>3. /\ g \in Regions /\ regions[g] \in RegionType /\ hist[g] \in HistType
      /\ proc[Reader].sid \in DOMAIN sems /\ hist[g].sem = proc[Reader].sid
      /\ hist[g].sem # None /\ sems[hist[g].sem] \in Nat
  BY <1>2, InTheOpen DEF Source
<1>4. DOMAIN hist = Regions
  BY <1>1, HistDomain
<1>5. /\ regions' \in Seq(RegionType) /\ Len(regions') = Len(regions)
      /\ Regions' = Regions /\ regions'[g] = r
      /\ \A d \in Regions : d # g => regions'[d] = regions[d]
  <2>1. CASE regions' = [regions EXCEPT ![g] = r]
    BY <1>1, <1>3, <2>1, RegionSet
  <2>2. CASE regions' = regions /\ r = regions[g]
    BY <1>1, <2>2 DEF MemoryTyped, Regions
  <2> QED BY <2>1, <2>2
<1>6. /\ hist' \in Seq(HistType) /\ Len(hist') = Len(hist)
      /\ DOMAIN hist' = Regions /\ hist'[g] = h
      /\ \A d \in Regions : d # g => hist'[d] = hist[d]
  <2>1. CASE hist' = [hist EXCEPT ![g] = h]
    BY <1>1, <1>3, <2>1, HistSet
  <2>2. CASE hist' = hist /\ h = hist[g]
    BY <1>1, <1>4, <2>2 DEF MemoryTyped
  <2> QED BY <2>1, <2>2
<1>7. /\ sems' \in Seq(Nat) /\ DOMAIN sems' = DOMAIN sems
      /\ sems'[hist[g].sem] = n
      /\ \A j \in DOMAIN sems : j # hist[g].sem => sems'[j] = sems[j]
  <2>1. CASE sems' = [sems EXCEPT ![proc[Reader].sid] = n]
    BY <1>1, <1>3, <2>1, SemSet
  <2>2. CASE sems' = sems /\ n = sems[hist[g].sem]
    BY <1>1, <2>2 DEF MemoryTyped
  <2> QED BY <2>1, <2>2
<1>8. \A d \in Regions : /\ regions'[d].magic = regions[d].magic
                         /\ regions'[d].head = regions[d].head
                         /\ hist'[d].sem = hist[d].sem
                         /\ hist'[d].disturbed = hist[d].disturbed
  BY <1>3, <1>5, <1>6
<1>9. MemoryTyped'
  BY <1>1, <1>5, <1>6, <1>7, <1>8 DEF MemoryTyped, fixed
<1>10. ProcTyped'
  BY <1>1, <1>5, <1>7 DEF ProcTyped, HasObjects, Procs
<1>11. ApiTyped' /\ StopInv'
  BY <1>1 DEF ApiTyped, StopInv, At
<1>12. TypeOK'
  BY <1>1, <1>9, <1>10, <1>11 DEF TypeOK, fixed, Procs
<1>13. CreatorInv' /\ OpenInv'
  <2>1. ASSUME NEW p \in Procs, At(p, "reset_tail")
        PROVE  regions'[proc[p].map].head = regions[proc[p].map].head
    BY <1>1, <1>8, <2>1 DEF ProcTyped, HasObjects, At, Out
  <2>2. creator' = creator /\ proc' = proc
    BY DEF fixed
  <2> QED BY <1>1, <1>4, <1>5, <1>6, <1>8, <2>1, <2>2, SameOpen
<1>14. RegionsInv'
  <2>1. \A d : WriterIn(d)' = WriterIn(d)
    BY DEF WriterIn
  <2>2. RegionInv(g)'
    <3>1. WorkerIn(g)' = k
      BY DEF WorkerIn, Source
    <3>2. PICK at, hd : at = WriterIn(g) /\ hd = head
      OBVIOUS
    <3>3. /\ Sound(r, h, n, at, hd, k) /\ h.sem # None /\ h.sem = hist[g].sem
      BY <1>3, <3>2
    <3>4. at = WriterIn(g)' /\ hd = head'
      BY <2>1, <3>2
    <3> QED BY <1>5, <1>6, <1>7, <3>1, <3>3, <3>4, RegionAfter
  <2>3. ASSUME NEW d \in Regions, d # g PROVE RegionInv(d)'
    <3>1. WorkerIn(d)' = WorkerIn(d)
      BY <2>3 DEF WorkerIn, Source, NoWorker
    <3>2. hist[d].sem # None => sems'[hist[d].sem] = sems[hist[d].sem]
      <4>1. hist[d].sem # None => hist[d].sem # hist[g].sem
        BY <1>1, <1>3, <2>3 DEF OpenInv
      <4>2. hist[d].sem # None => hist[d].sem \in DOMAIN sems
        BY <1>1 DEF MemoryTyped
      <4> QED BY <1>7, <4>1, <4>2
    <3>3. RegionInv(d)
      BY <1>1 DEF RegionsInv
    <3>4. regions'[d] = regions[d] /\ hist'[d] = hist[d]
      BY <1>5, <1>6, <2>3
    <3>5. WriterIn(d)' = WriterIn(d) /\ head' = head
      BY <2>1
    <3> QED BY <3>1, <3>2, <3>3, <3>4, <3>5, Frame
  <2> QED BY <1>5, <2>2, <2>3 DEF RegionsInv
<1> QED BY <1>11, <1>12, <1>13, <1>14 DEF IInv

\* What dispatch_loop() can rely on.
LEMMA InLoop ==
    ASSUME IInv, Undisturbed, worker.at # "off", NEW g, g = Source
    PROVE  /\ regions[g] \in RegionType /\ hist[g] \in HistType
           /\ sems[hist[g].sem] \in Nat /\ hist[g].sem = proc[Reader].sid
           /\ worker \in WorkerType
           /\ Sound(regions[g], hist[g], sems[hist[g].sem], WriterIn(g),
                    head, worker)
<1>1. ApiTyped
  BY DEF IInv, TypeOK
<1>2. Reader \in Procs /\ proc[Reader].at \in Opened
  BY <1>1, Sizes DEF ApiTyped, Opened, Stopping
<1>3. WorkerIn(g) = worker
  BY DEF WorkerIn, Source
<1> QED BY <1>1, <1>2, <1>3, InTheOpen DEF Source, ApiTyped

\* A worker in stop() or with running_ may be anywhere.
LEMMA StillRuns ==
    ASSUME IInv, worker.at # "off"
    PROVE  ~(At(Reader, "open") /\ ~running)
BY DEF IInv, StopInv

LEMMA LoopTestInv == IInv /\ Undisturbed /\ LoopTest => IInv'
<1> SUFFICES ASSUME IInv, Undisturbed, LoopTest PROVE IInv'
  OBVIOUS
<1>1. PICK g : g = Source
  OBVIOUS
<1>2. worker.at = "loop" /\ worker.at # "off"
  BY DEF LoopTest, Step
<1>3. /\ regions[g] \in RegionType /\ hist[g] \in HistType
      /\ sems[hist[g].sem] \in Nat /\ worker \in WorkerType
      /\ Sound(regions[g], hist[g], sems[hist[g].sem], WriterIn(g), head,
               worker)
  BY <1>1, <1>2, InLoop
<1>4. PICK k : k = [worker EXCEPT !.at = IF running THEN "wait" ELSE "off"]
  OBVIOUS
<1>5. k \in WorkerType /\ k.at \in {"wait", "off"}
  BY <1>3, <1>4 DEF WorkerType
<1>6. Idle(worker) /\ Idle(k)
  BY <1>2, <1>3, <1>5 DEF Idle, Holds
<1>7. Sound(regions[g], hist[g], sems[hist[g].sem], WriterIn(g), head, k)
  BY <1>3, <1>6, IdleKeeps
<1>8. /\ UNCHANGED <<fixed, proc, head, running, handlers>> /\ worker' = k
      /\ regions' = regions /\ hist' = hist /\ sems' = sems
  BY <1>4 DEF LoopTest, Step, WorkerOnly, ring
<1> QED BY <1>1, <1>2, <1>3, <1>5, <1>7, <1>8, StillRuns, WorkerStep

LEMMA WaitTokenInv == IInv /\ Undisturbed /\ WaitToken => IInv'
<1> SUFFICES ASSUME IInv, Undisturbed, WaitToken PROVE IInv'
  OBVIOUS
<1>1. PICK g : g = Source
  OBVIOUS
<1>2. worker.at = "wait" /\ worker.at # "off"
  BY DEF WaitToken, Step
<1>3. /\ regions[g] \in RegionType /\ hist[g] \in HistType
      /\ sems[hist[g].sem] \in Nat /\ worker \in WorkerType
      /\ hist[g].sem = proc[Reader].sid
      /\ Sound(regions[g], hist[g], sems[hist[g].sem], WriterIn(g), head,
               worker)
  BY <1>1, <1>2, InLoop
<1>4. PICK k, n : k = [worker EXCEPT !.at = "tail"] /\ n = sems[hist[g].sem] - 1
  OBVIOUS
<1>5. k \in WorkerType
  BY <1>3, <1>4 DEF WorkerType, Holds
<1>6. sems[hist[g].sem] > 0 /\ n \in Nat
  BY <1>3, <1>4 DEF WaitToken, Token
<1>7. Sound(regions[g], hist[g], n, WriterIn(g), head, k)
  BY <1>2, <1>3, <1>4, <1>6, WaitTokenKeeps
<1>8. /\ UNCHANGED <<fixed, proc, head, running, handlers>> /\ worker' = k
      /\ regions' = regions /\ hist' = hist
      /\ sems' = [sems EXCEPT ![proc[Reader].sid] = n]
  BY <1>3, <1>4 DEF WaitToken, Step
<1> QED BY <1>1, <1>2, <1>3, <1>5, <1>6, <1>7, <1>8, StillRuns, WorkerStep

LEMMA WaitTimeoutInv == IInv /\ Undisturbed /\ WaitTimeout => IInv'
<1> SUFFICES ASSUME IInv, Undisturbed, WaitTimeout PROVE IInv'
  OBVIOUS
<1>1. PICK g : g = Source
  OBVIOUS
<1>2. worker.at = "wait" /\ worker.at # "off"
  BY DEF WaitTimeout, Step
<1>3. /\ regions[g] \in RegionType /\ hist[g] \in HistType
      /\ sems[hist[g].sem] \in Nat /\ worker \in WorkerType
      /\ Sound(regions[g], hist[g], sems[hist[g].sem], WriterIn(g), head,
               worker)
  BY <1>1, <1>2, InLoop
<1>4. PICK k : k = [worker EXCEPT !.at = "loop"]
  OBVIOUS
<1>5. k \in WorkerType /\ k.at = "loop"
  BY <1>3, <1>4 DEF WorkerType
<1>6. Idle(worker) /\ Idle(k)
  BY <1>2, <1>3, <1>5 DEF Idle, Holds
<1>7. Sound(regions[g], hist[g], sems[hist[g].sem], WriterIn(g), head, k)
  BY <1>3, <1>6, IdleKeeps
<1>8. /\ UNCHANGED <<fixed, proc, head, running, handlers>> /\ worker' = k
      /\ regions' = regions /\ hist' = hist /\ sems' = sems
  BY <1>4 DEF WaitTimeout, Step, WorkerOnly, ring
<1> QED BY <1>1, <1>2, <1>3, <1>5, <1>7, <1>8, StillRuns, WorkerStep

LEMMA LoadTailInv == IInv /\ Undisturbed /\ LoadTail => IInv'
<1> SUFFICES ASSUME IInv, Undisturbed, LoadTail PROVE IInv'
  OBVIOUS
<1>1. PICK g : g = Source
  OBVIOUS
<1>2. worker.at = "tail" /\ worker.at # "off"
  BY DEF LoadTail
<1>3. /\ regions[g] \in RegionType /\ hist[g] \in HistType
      /\ sems[hist[g].sem] \in Nat /\ worker \in WorkerType
      /\ Sound(regions[g], hist[g], sems[hist[g].sem], WriterIn(g), head,
               worker)
  BY <1>1, <1>2, InLoop
<1>4. PICK k : k = [worker EXCEPT !.at = "head", !.tail = regions[g].tail]
  OBVIOUS
<1>5. k \in WorkerType /\ k.at = "head" /\ k.tail = regions[g].tail
  BY <1>3, <1>4 DEF WorkerType, Holds, RegionType
<1>6. Sound(regions[g], hist[g], sems[hist[g].sem], WriterIn(g), head, k)
  BY <1>2, <1>3, <1>5, LoadTailKeeps
<1>7. /\ UNCHANGED <<fixed, proc, head, running, handlers>> /\ worker' = k
      /\ regions' = regions /\ hist' = hist /\ sems' = sems
  BY <1>1, <1>4 DEF LoadTail, WorkerOnly, ring
<1> QED BY <1>1, <1>2, <1>3, <1>5, <1>6, <1>7, StillRuns, WorkerStep

LEMMA LoadHeadInv == IInv /\ Undisturbed /\ LoadHead => IInv'
<1> SUFFICES ASSUME IInv, Undisturbed, LoadHead PROVE IInv'
  OBVIOUS
<1>1. PICK g : g = Source
  OBVIOUS
<1>2. worker.at = "head" /\ worker.at # "off"
  BY DEF LoadHead
<1>3. /\ regions[g] \in RegionType /\ hist[g] \in HistType
      /\ sems[hist[g].sem] \in Nat /\ worker \in WorkerType
      /\ Sound(regions[g], hist[g], sems[hist[g].sem], WriterIn(g), head,
               worker)
  BY <1>1, <1>2, InLoop
<1>4. /\ UNCHANGED <<fixed, proc, head, running, handlers>>
      /\ regions' = regions /\ hist' = hist /\ sems' = sems
  BY DEF LoadHead, WorkerOnly, ring
<1>5. CASE regions[g].head = worker.tail
  <2>1. PICK k : k = [NoWorker EXCEPT !.at = "loop"]
    OBVIOUS
  <2>2. k \in WorkerType /\ k.at = "loop"
    BY <2>1, NewTyped DEF WorkerType, NoWorker
  <2>3. Idle(k)
    BY <2>2 DEF Idle, Holds
  <2>4. Sound(regions[g], hist[g], sems[hist[g].sem], WriterIn(g), head, k)
    BY <1>2, <1>3, <1>5, <2>3, LoadHeadEmpty
  <2>5. worker' = k
    BY <1>1, <1>5, <2>1 DEF LoadHead
  <2> QED BY <1>1, <1>2, <1>3, <1>4, <2>2, <2>4, <2>5, StillRuns, WorkerStep
<1>6. CASE regions[g].head # worker.tail
  <2>1. PICK k : k = [worker EXCEPT !.at = "size"]
    OBVIOUS
  <2>2. k \in WorkerType /\ k.at = "size" /\ k.tail = worker.tail
    BY <1>3, <2>1 DEF WorkerType, Holds
  <2>3. Sound(regions[g], hist[g], sems[hist[g].sem], WriterIn(g), head, k)
    BY <1>2, <1>3, <1>6, <2>2, LoadHeadFull
  <2>4. worker' = k
    BY <1>1, <1>6, <2>1 DEF LoadHead
  <2> QED BY <1>1, <1>2, <1>3, <1>4, <2>2, <2>3, <2>4, StillRuns, WorkerStep
<1> QED BY <1>5, <1>6

LEMMA LoadSizeInv == IInv /\ Undisturbed /\ LoadSize => IInv'
<1> SUFFICES ASSUME IInv, Undisturbed, LoadSize PROVE IInv'
  OBVIOUS
<1>1. PICK g : g = Source
  OBVIOUS
<1>2. worker.at = "size" /\ worker.at # "off"
  BY DEF LoadSize
<1>3. /\ regions[g] \in RegionType /\ hist[g] \in HistType
      /\ sems[hist[g].sem] \in Nat /\ worker \in WorkerType
      /\ Sound(regions[g], hist[g], sems[hist[g].sem], WriterIn(g), head,
               worker)
  BY <1>1, <1>2, InLoop
<1>4. PICK n : n = regions[g].size[worker.tail % Capacity]
  OBVIOUS
<1>5. n \in Nat
  <2>1. worker.tail \in Nat /\ regions[g].size \in [Slots -> Nat]
    BY <1>3 DEF WorkerType, RegionType, Counts
  <2> QED BY <1>4, <2>1, CellOf
<1>6. PICK k : k = [worker EXCEPT !.at = "copy", !.size = n]
  OBVIOUS
<1>7. k \in WorkerType /\ k.at = "copy" /\ k.tail = worker.tail /\ k.size = n
  BY <1>3, <1>5, <1>6 DEF WorkerType, Holds
<1>8. Sound(regions[g], hist[g], sems[hist[g].sem], WriterIn(g), head, k)
  BY <1>2, <1>3, <1>4, <1>7, LoadSizeKeeps
<1>9. /\ UNCHANGED <<fixed, proc, head, running, handlers>> /\ worker' = k
      /\ regions' = regions /\ hist' = hist /\ sems' = sems
  BY <1>1, <1>4, <1>6 DEF LoadSize, WorkerOnly, ring, Front
<1> QED BY <1>1, <1>2, <1>3, <1>7, <1>8, <1>9, StillRuns, WorkerStep

LEMMA CopyHandlersInv == IInv /\ Undisturbed /\ CopyHandlers => IInv'
<1> SUFFICES ASSUME IInv, Undisturbed, CopyHandlers PROVE IInv'
  OBVIOUS
<1>1. PICK g : g = Source
  OBVIOUS
<1>2. worker.at = "copy" /\ worker.at # "off"
  BY DEF CopyHandlers
<1>3. /\ regions[g] \in RegionType /\ hist[g] \in HistType
      /\ sems[hist[g].sem] \in Nat /\ worker \in WorkerType
      /\ Sound(regions[g], hist[g], sems[hist[g].sem], WriterIn(g), head,
               worker)
  BY <1>1, <1>2, InLoop
<1>4. PICK k : k = [worker EXCEPT !.at = "deliver", !.copied = handlers]
  OBVIOUS
<1>5. handlers \in BOOLEAN
  BY DEF IInv, TypeOK, ApiTyped
<1>6. k \in WorkerType /\ k.at = "deliver" /\ k.tail = worker.tail
      /\ k.size = worker.size
  BY <1>3, <1>4, <1>5 DEF WorkerType, Holds
<1>7. Sound(regions[g], hist[g], sems[hist[g].sem], WriterIn(g), head, k)
  BY <1>2, <1>3, <1>6, CopyHandlersKeeps
<1>8. /\ UNCHANGED <<fixed, proc, head, running, handlers>> /\ worker' = k
      /\ regions' = regions /\ hist' = hist /\ sems' = sems
  BY <1>1, <1>4 DEF CopyHandlers, WorkerOnly, ring
<1> QED BY <1>1, <1>2, <1>3, <1>6, <1>7, <1>8, StillRuns, WorkerStep

LEMMA DeliverInv == IInv /\ Undisturbed /\ Deliver => IInv'
<1> SUFFICES ASSUME IInv, Undisturbed, Deliver PROVE IInv'
  OBVIOUS
<1>1. PICK g : g = Source
  OBVIOUS
<1>2. worker.at = "deliver" /\ worker.at # "off"
  BY DEF Deliver, Step
<1>3. /\ regions[g] \in RegionType /\ hist[g] \in HistType
      /\ sems[hist[g].sem] \in Nat /\ worker \in WorkerType
      /\ Sound(regions[g], hist[g], sems[hist[g].sem], WriterIn(g), head,
               worker)
  BY <1>1, <1>2, InLoop
<1>4. PICK k : k = [worker EXCEPT !.at = "store"]
  OBVIOUS
<1>5. k \in WorkerType /\ k.at = "store" /\ k.tail = worker.tail
  BY <1>3, <1>4 DEF WorkerType, Holds
<1>6. PICK m : m = [size |-> worker.size,
                    data |-> regions[g].data[worker.tail % Capacity]]
  OBVIOUS
<1>7. m \in Messages
  <2>1. worker.tail \in Nat /\ regions[g].data \in [Slots -> Nat]
        /\ worker.size \in Nat
    BY <1>3 DEF WorkerType, RegionType, Counts
  <2>2. worker.tail % Capacity \in Slots
    BY <2>1, CellOf
  <2> QED BY <1>6, <2>1, <2>2 DEF Messages
<1>8. PICK s : s = Append(hist[g].got, m)
  OBVIOUS
<1>9. s \in Seq(Messages) /\ hist[g].got \in Seq(Messages)
  <2>1. hist[g].got \in Seq(Messages)
    BY <1>3 DEF HistType, Messages
  <2> QED BY <1>7, <1>8, <2>1
<1>10. PICK x, h : x = hist[g] /\ h = [x EXCEPT !.got = s]
  OBVIOUS
<1>11. /\ h \in HistType /\ h.sent = hist[g].sent /\ h.lost = hist[g].lost
       /\ h.got = s /\ h.sem = hist[g].sem /\ h.disturbed = hist[g].disturbed
  <2>1. x \in HistType
    BY <1>3, <1>10
  <2>2. /\ h \in HistType /\ h.sent = x.sent /\ h.lost = x.lost /\ h.got = s
        /\ h.sem = x.sem /\ h.disturbed = x.disturbed
    BY <1>9, <1>10, <2>1 DEF HistType, Messages
  <2> QED BY <1>10, <2>2
<1>12. Sound(regions[g], h, sems[hist[g].sem], WriterIn(g), head, k)
  BY <1>2, <1>3, <1>5, <1>6, <1>8, <1>11, DeliverKeeps
<1>13. hist' = [hist EXCEPT ![g] = h]
  BY <1>1, <1>6, <1>8, <1>10 DEF Deliver, Front
<1>14. /\ UNCHANGED <<fixed, proc, head, running, handlers>> /\ worker' = k
       /\ regions' = regions /\ sems' = sems
  BY <1>4 DEF Deliver, Step, ring
<1> QED BY <1>1, <1>2, <1>3, <1>5, <1>11, <1>12, <1>13, <1>14, StillRuns,
           WorkerStep

LEMMA StoreTailInv == IInv /\ Undisturbed /\ StoreTail => IInv'
<1> SUFFICES ASSUME IInv, Undisturbed, StoreTail PROVE IInv'
  OBVIOUS
<1>1. PICK g : g = Source
  OBVIOUS
<1>2. worker.at = "store" /\ worker.at # "off"
  BY DEF StoreTail
<1>3. /\ regions[g] \in RegionType /\ hist[g] \in HistType
      /\ sems[hist[g].sem] \in Nat /\ worker \in WorkerType
      /\ Sound(regions[g], hist[g], sems[hist[g].sem], WriterIn(g), head,
               worker)
  BY <1>1, <1>2, InLoop
<1>4. PICK k : k = [NoWorker EXCEPT !.at = "loop"]
  OBVIOUS
<1>5. k \in WorkerType /\ k.at = "loop"
  BY <1>4, NewTyped DEF WorkerType, NoWorker
<1>6. Idle(k)
  BY <1>5 DEF Idle, Holds
<1>7. PICK r : r = [regions[g] EXCEPT !.tail = (worker.tail + 1) % Width]
  OBVIOUS
<1>8. (worker.tail + 1) % Width \in Counts
  <2>1. PICK a : a = worker.tail + 1
    OBVIOUS
  <2>2. a \in Nat
    BY <1>3, <2>1 DEF WorkerType, Counts
  <2> QED BY <2>1, <2>2, CellOf
<1>9. /\ r \in RegionType /\ r.head = regions[g].head
      /\ r.tail = (worker.tail + 1) % Width /\ r.size = regions[g].size
      /\ r.data = regions[g].data /\ r.magic = regions[g].magic
  BY <1>3, <1>7, <1>8 DEF RegionType
<1>10. Sound(r, hist[g], sems[hist[g].sem], WriterIn(g), head, k)
  BY <1>2, <1>3, <1>6, <1>9, StoreTailKeeps
<1>11. /\ UNCHANGED <<fixed, proc, head, running, handlers>> /\ worker' = k
       /\ regions' = [regions EXCEPT ![g] = r] /\ hist' = hist /\ sems' = sems
  BY <1>1, <1>4, <1>7 DEF StoreTail
<1> QED BY <1>1, <1>2, <1>3, <1>5, <1>9, <1>10, <1>11, StillRuns, WorkerStep

-----------------------------------------------------------------------------
(* Steps that leave the memory alone. *)

LEMMA MoveStep ==
    ASSUME IInv, TypeOK', StopInv', UNCHANGED <<creator, ring, hist>>,
           \A p \in Procs : \/ proc'[p] = proc[p]
                            \/ /\ proc[p].at \in Opened /\ proc'[p].at \in Opened
                               /\ proc'[p].map = proc[p].map
                               /\ proc'[p].sid = proc[p].sid
                            \/ proc'[p].at \in Out \cup Attaching
                            \/ /\ proc'[p].at \in {"sem_unlink", "sem_create"}
                               /\ p = creator,
           \/ proc'[Writer] = proc[Writer] /\ head' = head
           \/ proc[Writer].at # "post" /\ proc'[Writer].at \in Quiet,
           \/ proc'[Reader].map = proc[Reader].map /\ worker' = worker
           \/ Idle(worker) /\ Idle(worker')
    PROVE  IInv'
<1>1. TypeOK /\ MemoryTyped /\ CreatorInv /\ OpenInv /\ RegionsInv
  BY DEF IInv, TypeOK
<1>2. DOMAIN hist' = DOMAIN hist /\ Regions' = Regions
  BY DEF ring, Regions
<1>3. creator' = creator /\ regions' = regions /\ sems' = sems /\ hist' = hist
  BY DEF ring
<1>4. CreatorInv' /\ OpenInv'
  BY <1>1, <1>2, <1>3, SameOpen
<1>5. RegionsInv'
  <2>1. ASSUME NEW g \in Regions PROVE RegionInv(g)'
    <3>1. RegionInv(g)
      BY <1>1 DEF RegionsInv
    <3>2. \/ WriterIn(g)' = WriterIn(g) /\ head' = head
          \/ WriterIn(g) # "post" /\ WriterIn(g)' \in Quiet
      BY DEF WriterIn, Quiet
    <3>3. Idle(NoWorker)
      BY NewTyped DEF Idle, NoWorker, Holds
    <3>4. \/ WorkerIn(g)' = WorkerIn(g)
          \/ Idle(WorkerIn(g)) /\ Idle(WorkerIn(g)')
      <4>1. CASE proc'[Reader].map = proc[Reader].map /\ worker' = worker
        BY <4>1 DEF WorkerIn, NoWorker
      <4>2. CASE Idle(worker) /\ Idle(worker')
        <5>1. WorkerIn(g) = worker \/ WorkerIn(g) = NoWorker
          BY DEF WorkerIn
        <5>2. WorkerIn(g)' = worker' \/ WorkerIn(g)' = NoWorker
          BY DEF WorkerIn, NoWorker
        <5> QED BY <4>2, <5>1, <5>2, <3>3
      <4> QED BY <4>1, <4>2
    <3> QED BY <1>3, <3>1, <3>2, <3>4, Frame
  <2> QED BY <1>2, <2>1 DEF RegionsInv
<1> QED BY <1>4, <1>5 DEF IInv

LEMMA SubscribeInv == IInv /\ Undisturbed /\ Subscribe => IInv'
<1> SUFFICES ASSUME IInv, Undisturbed, Subscribe PROVE IInv'
  OBVIOUS
<1>1. /\ TypeOK /\ MemoryTyped /\ ProcTyped /\ ApiTyped /\ StopInv
  BY DEF IInv, TypeOK
<1>2. /\ At(Reader, "open") /\ handlers' /\ running' /\ proc' = proc
      /\ head' = head
      /\ creator' = creator /\ names' = names /\ regions' = regions
      /\ sems' = sems /\ hist' = hist
  BY DEF Subscribe, ring
<1>3. CASE running /\ worker' = worker /\ count' = count
  <2>1. ApiTyped' /\ StopInv'
    BY <1>1, <1>2, <1>3 DEF ApiTyped, StopInv, At, Subscribe
  <2>2. TypeOK'
    BY <1>1, <1>2, <1>3, <2>1
       DEF TypeOK, MemoryTyped, ProcTyped, HasObjects, Regions, Procs
  <2> QED BY <1>2, <1>3, <2>1, <2>2, MoveStep DEF ring
<1>4. CASE ~running /\ Counted("starts", MaxStarts)
           /\ worker' = [NoWorker EXCEPT !.at = "loop"]
  <2>1. worker.at = "off" /\ worker \in WorkerType
    BY <1>1, <1>2, <1>4 DEF StopInv, ApiTyped
  <2>2. worker' \in WorkerType /\ worker'.at = "loop"
    BY <1>4, NewTyped DEF WorkerType, NoWorker
  <2>3. Idle(worker) /\ Idle(worker')
    BY <2>1, <2>2 DEF Idle, Holds
  <2>4. ApiTyped' /\ StopInv'
    BY <1>1, <1>2, <2>2 DEF ApiTyped, StopInv, At, Subscribe
  <2>5. count' \in [opens : Nat, crashes : Nat, starts : Nat]
    BY <1>1, <1>4 DEF TypeOK, Counted
  <2>6. TypeOK'
    BY <1>1, <1>2, <2>4, <2>5
       DEF TypeOK, MemoryTyped, ProcTyped, HasObjects, Regions, Procs
  <2> QED BY <1>2, <2>3, <2>4, <2>6, MoveStep DEF ring
<1> QED BY <1>3, <1>4 DEF Subscribe

LEMMA ResetInv == IInv /\ Undisturbed /\ Reset => IInv'
<1> SUFFICES ASSUME IInv, Undisturbed, Reset PROVE IInv'
  OBVIOUS
<1>1. /\ TypeOK /\ MemoryTyped /\ ProcTyped /\ ApiTyped /\ StopInv
  BY DEF IInv, TypeOK
<1>2. /\ handlers' = FALSE /\ running' = running /\ worker' = worker
      /\ proc' = proc /\ head' = head /\ count' = count
      /\ creator' = creator /\ names' = names /\ regions' = regions
      /\ sems' = sems /\ hist' = hist
  BY DEF Reset, ring, fixed
<1>3. ApiTyped' /\ StopInv'
  BY <1>1, <1>2 DEF ApiTyped, StopInv, At
<1>4. TypeOK'
  BY <1>1, <1>2, <1>3
     DEF TypeOK, MemoryTyped, ProcTyped, HasObjects, Regions, Procs
<1> QED BY <1>2, <1>3, <1>4, MoveStep DEF ring

\* stop(), where it leaves the semaphore alone.
LEMMA StopMoves ==
    ASSUME IInv, NEW to \in {"stop_post", "join", "open"}, Goto(Reader, to),
           proc[Reader].at \in {"open"} \cup Stopping,
           UNCHANGED <<fixed, ring, head, worker, hist>>,
           running' = FALSE, handlers' \in BOOLEAN,
           to = "open" => worker.at = "off"
    PROVE  IInv'
<1>1. /\ TypeOK /\ MemoryTyped /\ ProcTyped /\ ApiTyped /\ StopInv
  BY DEF IInv, TypeOK
<1>2. /\ worker' = worker /\ head' = head /\ count' = count
      /\ creator' = creator /\ names' = names /\ regions' = regions
      /\ sems' = sems /\ hist' = hist
  BY DEF ring, fixed
<1>3. /\ ProcTyped' /\ proc'[Reader].at = to
      /\ proc'[Reader].map = proc[Reader].map
      /\ proc'[Reader].sid = proc[Reader].sid
      /\ \A q \in Procs : q # Reader => proc'[q] = proc[q]
  <2>1. to \in {"open"} \cup Publishing \cup Stopping \cup {"reset_tail"}
    BY DEF Stopping
  <2>2. Regions' = Regions /\ DOMAIN sems' = DOMAIN sems
    BY <1>2 DEF Regions
  <2> QED BY <1>1, <2>1, <2>2, Sizes, GotoTyped
<1>4. ApiTyped' /\ StopInv'
  BY <1>1, <1>2, <1>3 DEF ApiTyped, StopInv, At
<1>5. MemoryTyped'
  BY <1>1, <1>2 DEF MemoryTyped, Regions
<1>6. TypeOK'
  BY <1>1, <1>2, <1>3, <1>4, <1>5 DEF TypeOK, Procs
<1>7. proc'[Writer] = proc[Writer]
  BY <1>3, Sizes
<1>8. proc[Reader].at \in Opened /\ proc'[Reader].at \in Opened
  BY <1>3 DEF Opened, Stopping
<1> QED BY <1>2, <1>3, <1>4, <1>6, <1>7, <1>8, MoveStep DEF ring

LEMMA StopFlagInv == IInv /\ Undisturbed /\ StopFlag => IInv'
<1> SUFFICES ASSUME IInv, StopFlag PROVE IInv'
  OBVIOUS
<1>1. handlers \in BOOLEAN
  BY DEF IInv, TypeOK, ApiTyped
<1> QED BY <1>1, StopMoves DEF StopFlag, At

LEMMA StopJoinInv == IInv /\ Undisturbed /\ StopJoin => IInv'
<1> SUFFICES ASSUME IInv, StopJoin PROVE IInv'
  OBVIOUS
<1>1. running = FALSE
  BY DEF IInv, TypeOK, ApiTyped, StopJoin, At
<1> QED BY <1>1, StopMoves DEF StopJoin, At, Stopping

LEMMA StopPostInv == IInv /\ Undisturbed /\ StopPost => IInv'
<1> SUFFICES ASSUME IInv, Undisturbed, StopPost PROVE IInv'
  OBVIOUS
<1>1. /\ TypeOK /\ MemoryTyped /\ ProcTyped /\ ApiTyped /\ StopInv
      /\ CreatorInv /\ OpenInv /\ RegionsInv
  BY DEF IInv, TypeOK
<1>2. /\ worker' = worker /\ head' = head /\ count' = count
      /\ creator' = creator /\ names' = names /\ regions' = regions
      /\ hist' = hist /\ running' = running /\ handlers' = handlers
  BY DEF StopPost, fixed, api
<1>3. PICK g : g = Source
  OBVIOUS
<1>4. Reader \in Procs /\ proc[Reader].at \in Opened /\ At(Reader, "stop_post")
  BY Sizes DEF StopPost, At, Opened, Stopping
<1>5. /\ g \in Regions /\ regions[g] \in RegionType /\ hist[g] \in HistType
      /\ proc[Reader].sid \in DOMAIN sems /\ hist[g].sem = proc[Reader].sid
      /\ hist[g].sem # None /\ sems[hist[g].sem] \in Nat
      /\ Sound(regions[g], hist[g], sems[hist[g].sem], WriterIn(g), head,
               WorkerIn(g))
  BY <1>3, <1>4, InTheOpen DEF Source
<1>6. PICK n : n = sems[hist[g].sem] + 1
  OBVIOUS
<1>7. /\ sems' \in Seq(Nat) /\ DOMAIN sems' = DOMAIN sems
      /\ sems'[hist[g].sem] = n
      /\ \A j \in DOMAIN sems : j # hist[g].sem => sems'[j] = sems[j]
  <2>1. sems' = [sems EXCEPT ![proc[Reader].sid] = n] /\ n \in Nat
    BY <1>5, <1>6 DEF StopPost, Post
  <2> QED BY <1>1, <1>5, <2>1, SemSet
<1>8. /\ ProcTyped' /\ proc'[Reader].at = "join"
      /\ proc'[Reader].map = proc[Reader].map
      /\ proc'[Reader].sid = proc[Reader].sid
      /\ \A q \in Procs : q # Reader => proc'[q] = proc[q]
  <2>1. "join" \in {"open"} \cup Publishing \cup Stopping \cup {"reset_tail"}
    BY DEF Stopping
  <2>2. /\ Goto(Reader, "join")
        /\ proc[Reader].at \in {"open"} \cup Publishing \cup Stopping
    BY <1>4 DEF StopPost, Opened
  <2>3. Regions' = Regions
    BY <1>2 DEF Regions
  <2> QED BY <1>1, <1>4, <1>7, <2>1, <2>2, <2>3, GotoTyped
<1>9. ApiTyped' /\ StopInv'
  BY <1>1, <1>2, <1>4, <1>8 DEF ApiTyped, StopInv, At
<1>10. MemoryTyped'
  BY <1>1, <1>2, <1>7 DEF MemoryTyped, Regions
<1>11. TypeOK'
  BY <1>1, <1>2, <1>8, <1>9, <1>10 DEF TypeOK, Procs
<1>12. CreatorInv' /\ OpenInv'
  <2>1. proc'[Reader].at \in Opened
    BY <1>8 DEF Opened, Stopping
  <2>2. Regions' = Regions
    BY <1>2 DEF Regions
  <2> QED BY <1>1, <1>2, <1>4, <1>8, <2>1, <2>2, SameOpen
<1>13. RegionsInv'
  <2>1. \A d : WriterIn(d)' = WriterIn(d) /\ WorkerIn(d)' = WorkerIn(d)
    BY <1>2, <1>8, Sizes DEF WriterIn, WorkerIn, NoWorker
  <2>2. RegionInv(g)'
    <3>1. PICK r, h, at, hd, k : /\ r = regions[g] /\ h = hist[g]
                                 /\ at = WriterIn(g) /\ hd = head
                                 /\ k = WorkerIn(g)
      OBVIOUS
    <3>2. Sound(r, h, sems[hist[g].sem], at, hd, k)
      BY <1>5, <3>1
    <3>3. Sound(r, h, n, at, hd, k)
      BY <1>5, <1>6, <3>1, <3>2, PostKeeps
    <3>4. /\ r = regions'[g] /\ h = hist'[g] /\ at = WriterIn(g)' /\ hd = head'
          /\ k = WorkerIn(g)' /\ n = sems'[hist'[g].sem] /\ h.sem # None
      BY <1>2, <1>5, <1>7, <2>1, <3>1
    <3> QED BY <3>3, <3>4, RegionAfter
  <2>3. ASSUME NEW d \in Regions, d # g PROVE RegionInv(d)'
    <3>1. hist[d].sem # None => sems'[hist[d].sem] = sems[hist[d].sem]
      <4>1. hist[d].sem # None => hist[d].sem # hist[g].sem
        BY <1>1, <1>5, <2>3 DEF OpenInv
      <4>2. hist[d].sem # None => hist[d].sem \in DOMAIN sems
        BY <1>1 DEF MemoryTyped
      <4> QED BY <1>7, <4>1, <4>2
    <3>2. RegionInv(d)
      BY <1>1 DEF RegionsInv
    <3> QED BY <1>2, <2>1, <3>1, <3>2, Frame
  <2>4. Regions' = Regions
    BY <1>2 DEF Regions
  <2> QED BY <2>2, <2>3, <2>4 DEF RegionsInv
<1> QED BY <1>9, <1>11, <1>12, <1>13 DEF IInv

-----------------------------------------------------------------------------
(* The constructor and the destructor. *)

\* A process with nothing that runs moves to where its channel is not open.
LEMMA AwayStep ==
    ASSUME IInv, NEW p \in Procs, NEW x \in ProcType,
           proc' = [proc EXCEPT ![p] = x], HasObjects(x),
           UNCHANGED <<creator, ring, head, api, hist>>, MemoryTyped',
           count' \in [opens : Nat, crashes : Nat, starts : Nat],
           \/ proc[p].at \in Out \cup Creating \cup Attaching
           \/ proc[p].at = "open" /\ (p = Reader => ~running),
           \/ x.at \in Out \cup Attaching
           \/ x.at \in {"sem_unlink", "sem_create"} /\ p = creator
    PROVE  IInv'
<1>1. /\ TypeOK /\ MemoryTyped /\ ProcTyped /\ ApiTyped /\ StopInv
  BY DEF IInv, TypeOK
<1>2. /\ worker' = worker /\ head' = head /\ creator' = creator
      /\ regions' = regions /\ sems' = sems /\ hist' = hist
      /\ running' = running /\ handlers' = handlers
  BY DEF ring, api
<1>3. Regions' = Regions /\ DOMAIN sems' = DOMAIN sems /\ HasObjects(x)'
  BY <1>2 DEF Regions, HasObjects
<1>4. /\ ProcTyped' /\ proc'[p] = x
      /\ \A q \in Procs : q # p => proc'[q] = proc[q]
  BY <1>1, <1>3, ProcSet
<1>5. p = Reader => worker.at = "off" /\ ~running
  BY <1>1 DEF ApiTyped, StopInv, At, Out, Creating, Attaching
<1>6. x.at \in Quiet /\ x.at # "open"
  BY DEF Quiet, Out, Attaching, Creating
<1>7. proc[p].at # "post"
  BY DEF Out, Creating, Attaching
<1>8. /\ \/ proc'[Writer] = proc[Writer] /\ head' = head
         \/ proc[Writer].at # "post" /\ proc'[Writer].at \in Quiet
  BY <1>2, <1>4, <1>6, <1>7, Sizes
<1>9. p # Reader => proc'[Reader] = proc[Reader]
  BY <1>4, Sizes
<1>10. ApiTyped' /\ StopInv'
  BY <1>1, <1>2, <1>4, <1>5, <1>6, <1>9 DEF ApiTyped, StopInv, At
<1>11. \/ proc'[Reader].map = proc[Reader].map /\ worker' = worker
       \/ Idle(worker) /\ Idle(worker')
  BY <1>1, <1>2, <1>5, <1>9 DEF Idle, ApiTyped, Holds
<1>12. TypeOK'
  BY <1>1, <1>2, <1>4, <1>10 DEF TypeOK, Procs
<1>13. \A q \in Procs : \/ proc'[q] = proc[q]
                        \/ proc'[q].at \in Out \cup Attaching
                        \/ /\ proc'[q].at \in {"sem_unlink", "sem_create"}
                           /\ q = creator
  BY <1>4
<1>14. UNCHANGED <<creator, ring, hist>>
  OBVIOUS
<1> QED BY <1>8, <1>10, <1>11, <1>12, <1>13, <1>14, MoveStep

\* What a process is, and what is counted.
LEMMA Typed ==
    ASSUME IInv
    PROVE  /\ TypeOK /\ MemoryTyped /\ ProcTyped /\ ApiTyped /\ StopInv
           /\ CreatorInv /\ OpenInv /\ RegionsInv
           /\ creator \in Procs
           /\ \A p \in Procs : proc[p] \in ProcType /\ HasObjects(proc[p])
           /\ names \in [shm : {None} \cup Regions, sem : {None} \cup DOMAIN sems]
           /\ None \in Nat
           /\ Regions \subseteq Nat /\ DOMAIN sems \subseteq Nat
           /\ None \notin Regions /\ None \notin DOMAIN sems
<1>1. /\ TypeOK /\ MemoryTyped /\ ProcTyped /\ ApiTyped /\ StopInv
      /\ CreatorInv /\ OpenInv /\ RegionsInv /\ creator \in Procs
  BY DEF IInv, TypeOK
<1>2. \A p \in Procs : proc[p] \in ProcType /\ HasObjects(proc[p])
  BY <1>1 DEF ProcTyped
<1>3. names \in [shm : {None} \cup Regions, sem : {None} \cup DOMAIN sems]
  BY <1>1 DEF MemoryTyped
<1>4. /\ None \in Nat /\ Regions \subseteq Nat /\ DOMAIN sems \subseteq Nat
      /\ None \notin Regions /\ None \notin DOMAIN sems
  BY <1>1, HistDomain DEF None
<1> QED BY <1>1, <1>2, <1>3, <1>4

LEMMA CountKept ==
    ASSUME TypeOK, NEW c \in {"opens", "crashes", "starts"}, NEW b,
           Counted(c, b)
    PROVE  count' \in [opens : Nat, crashes : Nat, starts : Nat]
BY DEF TypeOK, Counted

LEMMA ShmAttachInv ==
    ASSUME IInv, NEW p \in Procs, ShmAttach(p)
    PROVE  IInv'
<1>1. PICK x : x = [proc[p] EXCEPT !.at = "sem_open", !.map = names.shm]
  OBVIOUS
<1>2. names.shm \in Regions /\ names.shm \in Nat
  BY Typed DEF ShmAttach
<1>3. proc[p] \in ProcType /\ HasObjects(proc[p]) /\ proc[p].at = "closed"
  BY Typed DEF ShmAttach, At
<1>4. /\ x \in ProcType /\ x.at = "sem_open" /\ x.map = names.shm
      /\ x.sid = proc[p].sid
  <2>1. "sem_open" \in Places
    BY DEF Places, Attaching
  <2> QED BY <1>1, <1>2, <1>3, <2>1 DEF ProcType
<1>5. HasObjects(x)
  BY <1>2, <1>3, <1>4 DEF HasObjects, Out
<1>6. /\ proc' = [proc EXCEPT ![p] = x]
      /\ UNCHANGED <<creator, ring, head, api, hist>>
  BY <1>1 DEF ShmAttach
<1>7. MemoryTyped'
  BY Typed DEF ShmAttach, MemoryTyped, ring, Regions
<1>8. count' \in [opens : Nat, crashes : Nat, starts : Nat]
  BY Typed, CountKept DEF ShmAttach
<1>9. proc[p].at \in Out /\ x.at \in Attaching
  BY <1>3, <1>4 DEF Out, Attaching
<1> QED BY <1>4, <1>5, <1>6, <1>7, <1>8, <1>9, AwayStep

LEMMA SemAttachInv ==
    ASSUME IInv, NEW p \in Procs, SemAttach(p)
    PROVE  IInv'
<1>1. PICK x : x = [proc[p] EXCEPT !.at = "magic", !.sid = names.sem]
  OBVIOUS
<1>2. names.sem \in DOMAIN sems /\ names.sem \in Nat
  BY Typed DEF SemAttach
<1>3. proc[p] \in ProcType /\ HasObjects(proc[p]) /\ proc[p].at = "sem_open"
  BY Typed DEF SemAttach, At
<1>4. /\ x \in ProcType /\ x.at = "magic" /\ x.map = proc[p].map
      /\ x.sid = names.sem
  <2>1. "magic" \in Places
    BY DEF Places, Attaching
  <2> QED BY <1>1, <1>2, <1>3, <2>1 DEF ProcType
<1>5. HasObjects(x)
  BY <1>2, <1>3, <1>4 DEF HasObjects, Out
<1>6. /\ proc' = [proc EXCEPT ![p] = x]
      /\ UNCHANGED <<creator, ring, head, api, hist>>
  BY <1>1 DEF SemAttach, fixed
<1>7. MemoryTyped'
  BY Typed DEF SemAttach, MemoryTyped, ring, Regions, fixed
<1>8. count' \in [opens : Nat, crashes : Nat, starts : Nat]
  BY Typed DEF SemAttach, fixed, TypeOK
<1>9. proc[p].at \in Attaching /\ x.at \in Attaching
  BY <1>3, <1>4 DEF Attaching
<1> QED BY <1>4, <1>5, <1>6, <1>7, <1>8, <1>9, AwayStep

LEMMA ClosedTyped ==
    /\ Closed \in ProcType /\ HasObjects(Closed)
    /\ Closed.at = "closed" /\ Closed.map = None /\ Closed.sid = None
<1>1. "closed" \in Places /\ "closed" \in Out
  BY DEF Places, Out
<1>2. Closed \in ProcType
  BY <1>1 DEF Closed, ProcType, None
<1> QED BY <1>1, <1>2 DEF Closed, HasObjects

LEMMA AttachFailsInv ==
    ASSUME IInv, NEW p \in Procs, AttachFails(p)
    PROVE  IInv'
<1>1. proc[p].at \in Attaching
  BY DEF AttachFails, Throws, At, Attaching
<1>2. /\ proc' = [proc EXCEPT ![p] = Closed]
      /\ UNCHANGED <<creator, ring, head, api, hist>>
  BY DEF AttachFails, fixed
<1>3. MemoryTyped'
  BY Typed DEF AttachFails, MemoryTyped, ring, Regions, fixed
<1>4. count' \in [opens : Nat, crashes : Nat, starts : Nat]
  BY Typed DEF AttachFails, fixed, TypeOK
<1>5. Closed.at \in Out
  BY ClosedTyped DEF Out
<1> QED BY <1>1, <1>2, <1>3, <1>4, <1>5, ClosedTyped, AwayStep

LEMMA SemUnlinkInv ==
    ASSUME IInv, NEW p \in Procs, SemUnlink(p)
    PROVE  IInv'
<1>1. PICK x : x = [proc[p] EXCEPT !.at = "sem_create"]
  OBVIOUS
<1>2. proc[p] \in ProcType /\ HasObjects(proc[p]) /\ proc[p].at = "sem_unlink"
  BY Typed DEF SemUnlink, At
<1>3. /\ x \in ProcType /\ x.at = "sem_create" /\ x.map = proc[p].map
      /\ x.sid = proc[p].sid
  <2>1. "sem_create" \in Places
    BY DEF Places, Creating
  <2> QED BY <1>1, <1>2, <2>1 DEF ProcType
<1>4. HasObjects(x)
  BY <1>2, <1>3 DEF HasObjects, Out
<1>5. /\ proc' = [proc EXCEPT ![p] = x]
      /\ UNCHANGED <<creator, ring, head, api, hist>>
  BY <1>1 DEF SemUnlink, Goto
<1>6. MemoryTyped'
  BY Typed DEF SemUnlink, MemoryTyped, ring, Regions
<1>7. count' \in [opens : Nat, crashes : Nat, starts : Nat]
  BY Typed DEF SemUnlink, TypeOK
<1>8. proc[p].at \in Creating /\ p = creator
  BY <1>2, Typed DEF CreatorInv, Creating
<1> QED BY <1>3, <1>4, <1>5, <1>6, <1>7, <1>8, AwayStep

LEMMA CloseInv ==
    ASSUME IInv, NEW p \in Procs, Close(p)
    PROVE  IInv'
<1>1. PICK x : x = [Closed EXCEPT !.at = IF p = creator THEN "unlink"
                                         ELSE "closed"]
  OBVIOUS
<1>2. /\ x \in ProcType /\ x.at \in Out /\ x.map = None /\ x.sid = None
  <2>1. /\ {"unlink", "closed"} \subseteq Places
        /\ {"unlink", "closed"} \subseteq Out
    BY DEF Places, Out
  <2> QED BY <1>1, <2>1, ClosedTyped DEF ProcType, Closed
<1>3. HasObjects(x)
  BY <1>2 DEF HasObjects
<1>4. /\ proc' = [proc EXCEPT ![p] = x]
      /\ UNCHANGED <<creator, ring, head, api, hist>>
  BY <1>1 DEF Close, fixed
<1>5. MemoryTyped'
  BY Typed DEF Close, MemoryTyped, ring, Regions, fixed
<1>6. count' \in [opens : Nat, crashes : Nat, starts : Nat]
  BY Typed DEF Close, fixed, TypeOK
<1>7. proc[p].at = "open" /\ (p = Reader => ~running)
  BY Sizes DEF Close, At
<1> QED BY <1>2, <1>3, <1>4, <1>5, <1>6, <1>7, AwayStep

LEMMA UnlinkInv ==
    ASSUME IInv, NEW p \in Procs, Unlink(p)
    PROVE  IInv'
<1>1. PICK to \in {"unlink_sem", "closed"} : Goto(p, to)
  BY DEF Unlink
<1>2. PICK x : x = [proc[p] EXCEPT !.at = to]
  OBVIOUS
<1>3. proc[p] \in ProcType /\ HasObjects(proc[p]) /\ proc[p].at \in Out
  BY Typed DEF Unlink, At, Out
<1>4. /\ x \in ProcType /\ x.at \in Out /\ x.map = proc[p].map
      /\ x.sid = proc[p].sid
  <2>1. to \in Places /\ to \in Out
    BY DEF Places, Out
  <2> QED BY <1>2, <1>3, <2>1 DEF ProcType
<1>5. HasObjects(x)
  BY <1>3, <1>4 DEF HasObjects
<1>6. /\ proc' = [proc EXCEPT ![p] = x]
      /\ UNCHANGED <<creator, ring, head, api, hist>>
  BY <1>1, <1>2 DEF Unlink, Goto
<1>7. MemoryTyped'
  BY Typed DEF Unlink, MemoryTyped, ring, Regions
<1>8. count' \in [opens : Nat, crashes : Nat, starts : Nat]
  BY Typed DEF Unlink, TypeOK
<1> QED BY <1>3, <1>4, <1>5, <1>6, <1>7, <1>8, AwayStep

\* While the creator creates, nobody else does.
LEMMA OneCreates ==
    ASSUME IInv, NEW p \in Procs, p = creator, creator' = creator,
           \A q \in Procs : q # p => proc'[q] = proc[q],
           proc'[p].at \in {"sem_unlink", "reset_head", "reset_tail"} \cup Opened
    PROVE  /\ \A q \in Procs : proc'[q].at \in Creating => q = p
           /\ \A q \in Procs : proc'[q].at \in Creating => q = creator'
BY Typed DEF CreatorInv

LEMMA NewShmInv ==
    ASSUME IInv, NEW p \in Procs, ShmCreate(p), names.shm = None
    PROVE  IInv'
<1>1. /\ p = creator /\ proc[p].at = "closed" /\ creator' = creator
      /\ sems' = sems /\ head' = head /\ running' = running
      /\ handlers' = handlers /\ worker' = worker
      /\ regions' = Append(regions, NewRegion) /\ hist' = Append(hist, NewHist)
      /\ names' = [names EXCEPT !.shm = Len(regions')]
      /\ proc' = [proc EXCEPT ![p].at = "sem_unlink", ![p].map = names'.shm]
  BY DEF ShmCreate, At, api
<1>2. PICK g : g = Len(regions')
  OBVIOUS
<1>3. /\ regions' \in Seq(RegionType) /\ Regions' = Regions \cup {g}
      /\ g \notin Regions /\ g \in Nat \ {0} /\ Len(regions') = Len(regions) + 1
      /\ \A d \in Regions : regions'[d] = regions[d]
  <2>1. regions \in Seq(RegionType) /\ NewRegion \in RegionType
    BY Typed, NewTyped DEF MemoryTyped
  <2> QED BY <1>1, <1>2, <2>1, SeqAppend DEF Regions
<1>4. /\ hist' \in Seq(HistType) /\ Len(hist') = Len(regions')
      /\ DOMAIN hist = Regions
      /\ DOMAIN hist' = Regions' /\ hist'[g] = NewHist
      /\ \A d \in Regions : hist'[d] = hist[d]
  <2>1. /\ hist \in Seq(HistType) /\ NewHist \in HistType
        /\ Len(hist) = Len(regions)
    BY Typed, NewTyped DEF MemoryTyped
  <2>2. DOMAIN hist = Regions
    BY Typed, HistDomain
  <2>3. Len(hist') = Len(regions')
    BY <1>1, <1>3, <2>1, SeqAppend
  <2> QED BY <1>1, <1>2, <1>3, <2>1, <2>2, <2>3, SeqAppend
<1>5. PICK x : x = [proc[p] EXCEPT !.at = "sem_unlink", !.map = g]
  OBVIOUS
<1>6. /\ names'.shm = g
      /\ names' \in [shm : {None} \cup Regions', sem : {None} \cup DOMAIN sems]
  BY <1>1, <1>2, <1>3, Typed
<1>7. proc[p] \in ProcType /\ HasObjects(proc[p])
  BY Typed
<1>8. x \in ProcType /\ x.at = "sem_unlink" /\ x.map = g /\ x.sid = proc[p].sid
  <2>1. "sem_unlink" \in Places
    BY DEF Places, Creating
  <2> QED BY <1>3, <1>5, <1>7, <2>1 DEF ProcType
<1>9. HasObjects(x)'
  <2>1. x.at \notin Out /\ x.map \in Regions' /\ x.sid = None
    BY <1>1, <1>3, <1>7, <1>8 DEF HasObjects, Out
  <2> QED BY <1>8, <2>1 DEF HasObjects, Out, None
<1>10. /\ ProcTyped' /\ proc'[p] = x
       /\ \A q \in Procs : q # p => proc'[q] = proc[q]
  <2>1. proc' = [proc EXCEPT ![p] = x]
    BY <1>1, <1>5, <1>6
  <2>2. Regions \subseteq Regions' /\ DOMAIN sems \subseteq DOMAIN sems'
    BY <1>1, <1>3
  <2> QED BY <1>8, <1>9, <2>1, <2>2, Typed, ProcSet
<1>11. MemoryTyped'
  <2>1. \A d \in Regions : hist[d].sem \in {None} \cup DOMAIN sems
    BY Typed DEF MemoryTyped
  <2>2. \A d \in Regions' : hist'[d].sem \in {None} \cup DOMAIN sems
    BY <1>3, <1>4, <2>1 DEF NewHist
  <2>3. sems \in Seq(Nat)
    BY Typed DEF MemoryTyped
  <2> QED BY <1>1, <1>3, <1>4, <1>6, <2>2, <2>3 DEF MemoryTyped, None
<1>12. worker.at = "off" \/ p # Reader
  BY <1>1, Typed DEF ApiTyped
<1>13. ~running \/ p # Reader
  BY <1>1, Typed DEF ApiTyped, At
<1>14. p # Reader => proc'[Reader] = proc[Reader]
  BY <1>10, Sizes
<1>15. ApiTyped' /\ StopInv'
  BY <1>1, <1>8, <1>10, <1>12, <1>13, <1>14, Typed DEF ApiTyped, StopInv, At
<1>16. TypeOK'
  <2>1. count' \in [opens : Nat, crashes : Nat, starts : Nat]
    BY Typed, CountKept DEF ShmCreate
  <2>2. head \in Counts /\ creator \in Procs
    BY Typed DEF TypeOK
  <2> QED BY <1>1, <1>10, <1>11, <1>15, <2>1, <2>2 DEF TypeOK, Procs
<1>17. CreatorInv'
  <2>1. \A q \in Procs : proc'[q].at \in Creating => q = p /\ q = creator'
    BY <1>1, <1>8, <1>10, OneCreates
  <2>2. \A q \in Procs : proc'[q].at \notin {"reset_head", "reset_tail"}
    BY <1>8, <1>10, <2>1 DEF Creating
  <2> QED BY <2>1, <2>2 DEF CreatorInv, At, Procs
<1>18. \A q \in Procs : proc'[q].at \in Opened =>
           proc'[q] = proc[q] /\ proc[q].at \in Opened /\ proc[q].map \in Regions
  BY <1>8, <1>10, Typed DEF Opened, HasObjects, Out, Publishing, Stopping
<1>19. OpenInv'
  <2>1. ASSUME NEW q \in Procs, proc'[q].at \in Opened
        PROVE  regions'[proc'[q].map].magic
    BY <1>3, <1>18, <2>1, Typed DEF OpenInv
  <2>2. ASSUME NEW d \in Regions', NEW e \in Regions',
               hist'[d].sem = hist'[e].sem, hist'[d].sem # None
        PROVE  d = e
    BY <1>3, <1>4, <2>2, Typed DEF OpenInv, NewHist
  <2>3. ASSUME Undisturbed', NEW q \in Procs, proc'[q].at \in Opened
        PROVE  hist'[proc'[q].map].sem = proc'[q].sid
    <3>1. Undisturbed
      BY <1>3, <1>4, <2>3 DEF Undisturbed
    <3>2. hist[proc[q].map].sem = proc[q].sid
      BY <1>18, <2>3, <3>1, Typed DEF OpenInv
    <3> QED BY <1>4, <1>18, <2>3, <3>2
  <2> QED BY <2>1, <2>2, <2>3 DEF OpenInv, Procs, None
<1>20. RegionsInv'
  <2>1. ASSUME NEW d \in Regions PROVE RegionInv(d)'
    <3>1. RegionInv(d)
      BY Typed DEF RegionsInv
    <3>2. \/ WriterIn(d)' = WriterIn(d)
          \/ WriterIn(d) # "post" /\ WriterIn(d)' \in Quiet
      <4>1. CASE p = Writer
        <5>1. WriterIn(d) = "closed"
          BY <1>1, <4>1 DEF WriterIn
        <5>2. WriterIn(d)' = "closed"
          BY <1>3, <1>8, <1>10, <4>1 DEF WriterIn
        <5> QED BY <5>1, <5>2 DEF Quiet
      <4>2. CASE p # Writer
        <5>1. proc'[Writer] = proc[Writer]
          BY <1>10, <4>2, Sizes
        <5> QED BY <5>1 DEF WriterIn
      <4> QED BY <4>1, <4>2
    <3>3. \/ WorkerIn(d)' = WorkerIn(d)
          \/ Idle(WorkerIn(d)) /\ Idle(WorkerIn(d)')
      <4>1. CASE p = Reader
        <5>1. proc[p].map = None /\ None \notin Regions
          BY <1>1, Typed DEF HasObjects, Out
        <5>2. WorkerIn(d) = NoWorker
          BY <4>1, <5>1 DEF WorkerIn
        <5>3. WorkerIn(d)' = NoWorker
          BY <1>3, <1>8, <1>10, <4>1 DEF WorkerIn, NoWorker
        <5> QED BY <5>2, <5>3
      <4>2. CASE p # Reader
        BY <1>1, <1>14, <4>2 DEF WorkerIn, NoWorker
      <4> QED BY <4>1, <4>2
    <3> QED BY <1>1, <1>3, <1>4, <3>1, <3>2, <3>3, Frame
  <2>2. RegionInv(g)'
    BY <1>4, RegionAfter DEF NewHist
  <2> QED BY <1>3, <2>1, <2>2 DEF RegionsInv
<1> QED BY <1>15, <1>16, <1>17, <1>19, <1>20 DEF IInv

LEMMA OldShmInv ==
    ASSUME IInv, NEW p \in Procs, ShmCreate(p), names.shm # None
    PROVE  IInv'
<1>1. /\ p = creator /\ proc[p].at = "closed" /\ names' = names
      /\ proc' = [proc EXCEPT ![p].at = "sem_unlink", ![p].map = names'.shm]
      /\ UNCHANGED <<creator, ring, head, api, hist>>
  BY DEF ShmCreate, At, ring
<1>2. PICK x : x = [proc[p] EXCEPT !.at = "sem_unlink", !.map = names.shm]
  OBVIOUS
<1>3. names.shm \in Regions /\ names.shm \in Nat
  BY Typed
<1>4. proc[p] \in ProcType /\ HasObjects(proc[p])
  BY Typed
<1>5. /\ x \in ProcType /\ x.at = "sem_unlink" /\ x.map = names.shm
      /\ x.sid = proc[p].sid
  <2>1. "sem_unlink" \in Places
    BY DEF Places, Creating
  <2> QED BY <1>2, <1>3, <1>4, <2>1 DEF ProcType
<1>6. HasObjects(x)
  BY <1>1, <1>3, <1>4, <1>5 DEF HasObjects, Out
<1>7. proc' = [proc EXCEPT ![p] = x]
  BY <1>1, <1>2
<1>8. MemoryTyped'
  BY <1>1, Typed DEF MemoryTyped, ring, Regions
<1>9. count' \in [opens : Nat, crashes : Nat, starts : Nat]
  BY Typed, CountKept DEF ShmCreate
<1>10. proc[p].at \in Out
  BY <1>1 DEF Out
<1> QED BY <1>1, <1>5, <1>6, <1>7, <1>8, <1>9, <1>10, AwayStep

LEMMA SemCreateInv ==
    ASSUME IInv, NEW p \in Procs, SemCreate(p)
    PROVE  IInv'
<1>1. /\ proc[p].at = "sem_create" /\ creator' = creator /\ count' = count
      /\ regions' = regions /\ hist' = hist /\ head' = head
      /\ running' = running /\ handlers' = handlers /\ worker' = worker
      /\ sems' = Append(sems, 0)
      /\ names' = [names EXCEPT !.sem = Len(sems')]
      /\ proc' = [proc EXCEPT ![p].at = "reset_head", ![p].sid = names'.sem]
  BY DEF SemCreate, At, api
<1>2. PICK s : s = Len(sems')
  OBVIOUS
<1>3. /\ sems' \in Seq(Nat) /\ DOMAIN sems' = DOMAIN sems \cup {s}
      /\ s \notin DOMAIN sems /\ s \in Nat \ {0}
      /\ \A i \in DOMAIN sems : sems'[i] = sems[i]
  <2>1. sems \in Seq(Nat) /\ 0 \in Nat
    BY Typed DEF MemoryTyped
  <2> QED BY <1>1, <1>2, <2>1, SeqAppend
<1>4. p = creator
  BY <1>1, Typed DEF CreatorInv, Creating
<1>5. /\ names'.sem = s
      /\ names' \in [shm : {None} \cup Regions, sem : {None} \cup DOMAIN sems']
  BY <1>1, <1>2, <1>3, Typed
<1>6. PICK x : x = [proc[p] EXCEPT !.at = "reset_head", !.sid = s]
  OBVIOUS
<1>7. proc[p] \in ProcType /\ HasObjects(proc[p])
  BY Typed
<1>8. x \in ProcType /\ x.at = "reset_head" /\ x.map = proc[p].map /\ x.sid = s
  <2>1. "reset_head" \in Places
    BY DEF Places, Creating
  <2> QED BY <1>3, <1>6, <1>7, <2>1 DEF ProcType
<1>9. Regions' = Regions
  BY <1>1 DEF Regions
<1>10. HasObjects(x)'
  BY <1>1, <1>3, <1>7, <1>8, <1>9 DEF HasObjects, Out
<1>11. /\ ProcTyped' /\ proc'[p] = x
       /\ \A q \in Procs : q # p => proc'[q] = proc[q]
  <2>1. proc' = [proc EXCEPT ![p] = x]
    BY <1>1, <1>5, <1>6
  <2>2. Regions \subseteq Regions' /\ DOMAIN sems \subseteq DOMAIN sems'
    BY <1>3, <1>9
  <2> QED BY <1>8, <1>10, <2>1, <2>2, Typed, ProcSet
<1>12. \A d \in Regions : hist[d].sem \in {None} \cup DOMAIN sems
  BY Typed DEF MemoryTyped
<1>13. MemoryTyped'
  BY <1>1, <1>3, <1>5, <1>9, <1>12, Typed DEF MemoryTyped
<1>14. p = Reader => worker.at = "off" /\ ~running
  BY <1>1, Typed DEF ApiTyped, At
<1>15. p # Reader => proc'[Reader] = proc[Reader]
  BY <1>11, Sizes
<1>16. ApiTyped' /\ StopInv'
  BY <1>1, <1>8, <1>11, <1>14, <1>15, Typed DEF ApiTyped, StopInv, At
<1>17. TypeOK'
  BY <1>1, <1>11, <1>13, <1>16, Typed DEF TypeOK, Procs
<1>18. CreatorInv'
  <2>1. \A q \in Procs : proc'[q].at \in Creating => q = p /\ q = creator'
    BY <1>1, <1>4, <1>8, <1>11, OneCreates
  <2>2. \A q \in Procs : proc'[q].at \in {"reset_head", "reset_tail"} =>
            q = p /\ proc'[q].at = "reset_head" /\ proc'[q].sid = s
    BY <1>8, <1>11, <2>1 DEF Creating
  <2>3. \A d \in Regions : hist[d].sem # s
    BY <1>3, <1>12 DEF None
  <2> QED BY <1>1, <1>9, <2>1, <2>2, <2>3 DEF CreatorInv, At, Procs
<1>19. OpenInv'
  <2>1. \A q \in Procs : proc'[q].at \in Opened => proc'[q] = proc[q]
    BY <1>8, <1>11 DEF Opened, Publishing, Stopping
  <2>2. Undisturbed' => Undisturbed
    BY <1>1 DEF Undisturbed
  <2> QED BY <1>1, <1>9, <2>1, <2>2, Typed DEF OpenInv, Procs
<1>20. RegionsInv'
  <2>1. ASSUME NEW d \in Regions PROVE RegionInv(d)'
    <3>1. RegionInv(d)
      BY Typed DEF RegionsInv
    <3>2. \/ WriterIn(d)' = WriterIn(d)
          \/ WriterIn(d) # "post" /\ WriterIn(d)' \in Quiet
      <4>1. CASE p = Writer
        <5>1. WriterIn(d) # "post"
          BY <1>1, <4>1 DEF WriterIn
        <5>2. WriterIn(d)' \in {"closed", "reset_head"}
          BY <1>8, <1>11, <4>1 DEF WriterIn
        <5> QED BY <5>1, <5>2 DEF Quiet, Creating
      <4>2. CASE p # Writer
        <5>1. proc'[Writer] = proc[Writer]
          BY <1>11, <4>2, Sizes
        <5> QED BY <5>1 DEF WriterIn
      <4> QED BY <4>1, <4>2
    <3>3. WorkerIn(d)' = WorkerIn(d)
      <4>1. proc'[Reader].map = proc[Reader].map
        BY <1>8, <1>11, <1>15
      <4> QED BY <1>1, <4>1 DEF WorkerIn, NoWorker
    <3>4. hist[d].sem # None => sems'[hist[d].sem] = sems[hist[d].sem]
      BY <1>3, <1>12
    <3> QED BY <1>1, <3>1, <3>2, <3>3, <3>4, Frame
  <2> QED BY <1>9, <2>1 DEF RegionsInv
<1> QED BY <1>16, <1>17, <1>18, <1>19, <1>20 DEF IInv

LEMMA ResetHeadInv ==
    ASSUME IInv, Undisturbed, NEW p \in Procs, ResetHead(p)
    PROVE  IInv'
<1>1. PICK g : g = proc[p].map
  OBVIOUS
<1>2. /\ proc[p].at = "reset_head" /\ Goto(p, "reset_tail")
      /\ creator' = creator /\ names' = names /\ count' = count
      /\ sems' = sems /\ head' = head
      /\ running' = running /\ handlers' = handlers /\ worker' = worker
      /\ regions' = [regions EXCEPT ![g].head = 0]
      /\ hist' = [hist EXCEPT ![g] = [NewHist EXCEPT !.disturbed = InUse(p)]]
  BY <1>1 DEF ResetHead, At, api, fixed
<1>3. p = creator
  BY <1>2, Typed DEF CreatorInv, Creating
<1>4. /\ g \in Regions /\ proc[p].sid \in DOMAIN sems /\ proc[p].sid # None
      /\ regions[g] \in RegionType /\ DOMAIN hist = Regions
      /\ 0 \in Counts
  BY <1>1, <1>2, Typed, HistDomain, NewTyped DEF HasObjects, Out
<1>5. PICK r : r = [regions[g] EXCEPT !.head = 0]
  OBVIOUS
<1>6. r \in RegionType /\ r.head = 0 /\ r.magic = regions[g].magic
  BY <1>4, <1>5 DEF RegionType
<1>7. PICK b : b = InUse(p)
  OBVIOUS
<1>8. b \in BOOLEAN
  BY <1>7 DEF InUse
<1>9. PICK h : h = [NewHist EXCEPT !.disturbed = b]
  OBVIOUS
<1>10. /\ h \in HistType /\ h.sem = None /\ h.disturbed = b /\ h.sent = 0
       /\ h.lost = 0 /\ h.got = <<>>
  BY <1>8, <1>9, NewTyped DEF HistType, NewHist
<1>11. /\ regions' \in Seq(RegionType) /\ Len(regions') = Len(regions)
       /\ Regions' = Regions /\ regions'[g] = r
       /\ \A d \in Regions : d # g => regions'[d] = regions[d]
  <2>1. regions' = [regions EXCEPT ![g] = r]
    BY <1>2, <1>5
  <2> QED BY <1>4, <1>6, <2>1, Typed, RegionSet
<1>12. /\ hist' \in Seq(HistType) /\ Len(hist') = Len(hist)
       /\ DOMAIN hist' = Regions /\ hist'[g] = h
       /\ \A d \in Regions : d # g => hist'[d] = hist[d]
  <2>1. hist' = [hist EXCEPT ![g] = h]
    BY <1>2, <1>7, <1>9
  <2> QED BY <1>4, <1>10, <2>1, Typed, HistSet
<1>13. /\ ProcTyped' /\ proc'[p].at = "reset_tail"
       /\ proc'[p].map = g /\ proc'[p].sid = proc[p].sid
       /\ \A q \in Procs : q # p => proc'[q] = proc[q]
  <2>1. DOMAIN sems' = DOMAIN sems
    BY <1>2
  <2> QED BY <1>1, <1>2, <1>11, <2>1, Typed, GotoTyped
<1>14. MemoryTyped'
  <2>1. \A d \in Regions : hist'[d].sem \in {None} \cup DOMAIN sems
    BY <1>10, <1>12, Typed DEF MemoryTyped
  <2> QED BY <1>2, <1>11, <1>12, <2>1, Typed DEF MemoryTyped
<1>15. p = Reader => worker.at = "off" /\ ~running
  BY <1>2, Typed DEF ApiTyped, At
<1>16. p # Reader => proc'[Reader] = proc[Reader]
  BY <1>13, Sizes
<1>17. ApiTyped' /\ StopInv'
  BY <1>2, <1>13, <1>15, <1>16, Typed DEF ApiTyped, StopInv, At
<1>18. TypeOK'
  BY <1>2, <1>13, <1>14, <1>17, Typed DEF TypeOK, Procs
<1>19. \A q \in Procs : proc'[q].at \in Creating => q = p /\ q = creator'
  BY <1>2, <1>3, <1>13, Typed DEF CreatorInv
<1>20. CreatorInv'
  <2>1. \A q \in Procs : proc'[q].at \in {"reset_head", "reset_tail"} => q = p
    BY <1>19 DEF Creating
  <2>2. \A d \in Regions : hist'[d].sem # proc[p].sid
    BY <1>2, <1>4, <1>10, <1>12, Typed DEF CreatorInv
  <2> QED BY <1>6, <1>10, <1>11, <1>12, <1>13, <1>19, <2>1, <2>2
          DEF CreatorInv, At, Procs, None
<1>21. \A q \in Procs : proc'[q].at \in Opened =>
           /\ q # p /\ proc'[q] = proc[q] /\ proc[q].at \in Opened
           /\ proc[q].map \in Regions /\ regions[proc[q].map].magic
  BY <1>13, Typed DEF Opened, OpenInv, HasObjects, Out, Publishing, Stopping
<1>22. OpenInv'
  <2>1. ASSUME NEW q \in Procs, proc'[q].at \in Opened
        PROVE  regions'[proc'[q].map].magic
    BY <1>6, <1>11, <1>21, <2>1
  <2>2. ASSUME NEW d \in Regions, NEW e \in Regions,
               hist'[d].sem = hist'[e].sem, hist'[d].sem # None
        PROVE  d = e
    BY <1>10, <1>12, <2>2, Typed DEF OpenInv
  <2>3. ASSUME Undisturbed', NEW q \in Procs, proc'[q].at \in Opened
        PROVE  hist'[proc'[q].map].sem = proc'[q].sid
    <3>1. ~InUse(p)
      BY <1>4, <1>7, <1>10, <1>12, <2>3 DEF Undisturbed
    <3>2. proc[q].map # g
      BY <1>1, <1>21, <2>3, <3>1 DEF InUse
    <3>3. hist[proc[q].map].sem = proc[q].sid
      BY <1>21, <2>3, Typed DEF OpenInv
    <3> QED BY <1>12, <1>21, <2>3, <3>2, <3>3
  <2> QED BY <1>11, <2>1, <2>2, <2>3 DEF OpenInv, Procs, None
<1>23. RegionsInv'
  <2>1. RegionInv(g)'
    BY <1>10, <1>12, RegionAfter
  <2>2. ASSUME NEW d \in Regions, d # g PROVE RegionInv(d)'
    <3>1. RegionInv(d)
      BY Typed DEF RegionsInv
    <3>2. WriterIn(d)' = WriterIn(d)
      <4>1. CASE p = Writer
        BY <1>1, <1>13, <2>2, <4>1 DEF WriterIn
      <4>2. CASE p # Writer
        <5>1. proc'[Writer] = proc[Writer]
          BY <1>13, <4>2, Sizes
        <5> QED BY <5>1 DEF WriterIn
      <4> QED BY <4>1, <4>2
    <3>3. WorkerIn(d)' = WorkerIn(d)
      <4>1. proc'[Reader].map = proc[Reader].map
        BY <1>1, <1>13, <1>16
      <4> QED BY <1>2, <4>1 DEF WorkerIn, NoWorker
    <3> QED BY <1>2, <1>11, <1>12, <2>2, <3>1, <3>2, <3>3, Frame
  <2> QED BY <1>11, <2>1, <2>2 DEF RegionsInv
<1> QED BY <1>17, <1>18, <1>20, <1>22, <1>23 DEF IInv

LEMMA ResetTailInv ==
    ASSUME IInv, Undisturbed, NEW p \in Procs, ResetTail(p)
    PROVE  IInv'
<1>1. PICK g, s : g = proc[p].map /\ s = proc[p].sid
  OBVIOUS
<1>2. /\ proc[p].at = "reset_tail" /\ Goto(p, "open")
      /\ creator' = creator /\ names' = names /\ count' = count
      /\ sems' = sems /\ head' = head
      /\ running' = running /\ handlers' = handlers /\ worker' = worker
      /\ regions' = [regions EXCEPT ![g].tail = 0, ![g].magic = TRUE]
      /\ hist' = [hist EXCEPT ![g].sem = s, ![g].disturbed = @ \/ InUse(p)]
  BY <1>1 DEF ResetTail, At, api, fixed
<1>3. p = creator
  BY <1>2, Typed DEF CreatorInv, Creating
<1>4. /\ g \in Regions /\ s \in DOMAIN sems /\ s # None /\ s \in Nat
      /\ regions[g] \in RegionType /\ hist[g] \in HistType
      /\ DOMAIN hist = Regions /\ 0 \in Counts /\ sems[s] \in Nat
  BY <1>1, <1>2, Typed, HistDomain, NewTyped DEF HasObjects, Out
<1>5. PICK r : r = [regions[g] EXCEPT !.tail = 0, !.magic = TRUE]
  OBVIOUS
<1>6. /\ r \in RegionType /\ r.head = regions[g].head /\ r.tail = 0
      /\ r.magic = TRUE
  BY <1>4, <1>5 DEF RegionType
<1>7. PICK b : b = (hist[g].disturbed \/ InUse(p))
  OBVIOUS
<1>8. b \in BOOLEAN
  BY <1>7 DEF InUse
<1>9. PICK x, h : x = hist[g] /\ h = [x EXCEPT !.sem = s, !.disturbed = b]
  OBVIOUS
<1>10. /\ h \in HistType /\ h.sem = s /\ h.disturbed = b /\ h.sent = x.sent
       /\ h.lost = x.lost /\ h.got = x.got
  BY <1>4, <1>8, <1>9 DEF HistType
<1>11. /\ regions' \in Seq(RegionType) /\ Len(regions') = Len(regions)
       /\ Regions' = Regions /\ regions'[g] = r
       /\ \A d \in Regions : d # g => regions'[d] = regions[d]
  <2>1. regions' = [regions EXCEPT ![g] = r]
    BY <1>2, <1>4, <1>5, Typed DEF MemoryTyped, Regions
  <2> QED BY <1>4, <1>6, <2>1, Typed, RegionSet
<1>12. /\ hist' \in Seq(HistType) /\ Len(hist') = Len(hist)
       /\ DOMAIN hist' = Regions /\ hist'[g] = h
       /\ \A d \in Regions : d # g => hist'[d] = hist[d]
  <2>1. hist' = [hist EXCEPT ![g] = h]
    BY <1>2, <1>4, <1>7, <1>9
  <2> QED BY <1>4, <1>10, <2>1, Typed, HistSet
<1>13. /\ ProcTyped' /\ proc'[p].at = "open"
       /\ proc'[p].map = g /\ proc'[p].sid = s
       /\ \A q \in Procs : q # p => proc'[q] = proc[q]
  <2>1. DOMAIN sems' = DOMAIN sems
    BY <1>2
  <2> QED BY <1>1, <1>2, <1>11, <2>1, Typed, GotoTyped
<1>14. MemoryTyped'
  <2>1. \A d \in Regions : hist'[d].sem \in {None} \cup DOMAIN sems
    BY <1>4, <1>10, <1>12, Typed DEF MemoryTyped
  <2> QED BY <1>2, <1>11, <1>12, <2>1, Typed DEF MemoryTyped
<1>15. p = Reader => worker.at = "off" /\ ~running
  BY <1>2, Typed DEF ApiTyped, At
<1>16. p # Reader => proc'[Reader] = proc[Reader]
  BY <1>13, Sizes
<1>17. ApiTyped' /\ StopInv'
  BY <1>2, <1>13, <1>15, <1>16, Typed DEF ApiTyped, StopInv, At
<1>18. TypeOK'
  BY <1>2, <1>13, <1>14, <1>17, Typed DEF TypeOK, Procs
<1>19. /\ hist[g].sem = None /\ regions[g].head = 0
       /\ \A d \in Regions : hist[d].sem # s
  BY <1>1, <1>2, Typed DEF CreatorInv, At
<1>20. CreatorInv'
  <2>1. \A q \in Procs : proc'[q].at \notin Creating
    BY <1>2, <1>3, <1>13, Typed DEF CreatorInv, Creating
  <2> QED BY <2>1 DEF CreatorInv, At, Procs, Creating
<1>21. \A q \in Procs : q # p /\ proc[q].at \in Opened =>
           proc[q].map \in Regions /\ regions[proc[q].map].magic
  BY Typed DEF Opened, OpenInv, HasObjects, Out, Publishing, Stopping
<1>22. ~InUse(p) => \A q \in Procs : q # p /\ proc[q].at \in Opened =>
           proc[q].map # g
  BY <1>1, <1>21 DEF InUse
<1>23. OpenInv'
  <2>1. ASSUME NEW q \in Procs, proc'[q].at \in Opened
        PROVE  regions'[proc'[q].map].magic
    <3>1. CASE q = p
      BY <1>6, <1>11, <1>13, <3>1
    <3>2. CASE q # p
      BY <1>6, <1>11, <1>13, <1>21, <2>1, <3>2
    <3> QED BY <3>1, <3>2
  <2>2. ASSUME NEW d \in Regions, NEW e \in Regions,
               hist'[d].sem = hist'[e].sem, hist'[d].sem # None
        PROVE  d = e
    BY <1>10, <1>12, <1>19, <2>2, Typed DEF OpenInv
  <2>3. ASSUME Undisturbed', NEW q \in Procs, proc'[q].at \in Opened
        PROVE  hist'[proc'[q].map].sem = proc'[q].sid
    <3>1. CASE q = p
      BY <1>10, <1>12, <1>13, <3>1
    <3>2. CASE q # p
      <4>1. ~InUse(p)
        BY <1>4, <1>7, <1>10, <1>12, <2>3 DEF Undisturbed
      <4>2. /\ proc'[q] = proc[q] /\ proc[q].at \in Opened
            /\ proc[q].map \in Regions /\ proc[q].map # g
        BY <1>13, <1>21, <1>22, <2>3, <3>2, <4>1
      <4>3. hist[proc[q].map].sem = proc[q].sid
        BY <4>2, Typed DEF OpenInv
      <4> QED BY <1>12, <4>2, <4>3
    <3> QED BY <3>1, <3>2
  <2> QED BY <1>11, <2>1, <2>2, <2>3 DEF OpenInv, Procs, None
<1>24. RegionsInv'
  <2>1. ASSUME b PROVE RegionInv(g)'
    BY <1>10, <1>12, <2>1, RegionAfter
  <2>2. ASSUME ~b PROVE RegionInv(g)'
    <3>1. ~InUse(p) /\ ~hist[g].disturbed
      BY <1>7, <2>2
    <3>2. RegionInv(g)
      BY <1>4, Typed DEF RegionsInv
    <3>3. h.sent = 0 /\ h.lost = 0 /\ h.got = <<>>
      BY <1>9, <1>10, <1>19, <3>1, <3>2 DEF RegionInv
    <3>4. WriterIn(g)' \in Quiet
      <4>1. CASE p = Writer
        BY <1>13, <4>1 DEF WriterIn, Quiet
      <4>2. CASE p # Writer
        <5>1. proc'[Writer] = proc[Writer] /\ proc[Writer] \in ProcType
          BY <1>13, <4>2, Sizes, Typed
        <5>2. proc[Writer].map = g => proc[Writer].at \notin Opened
          BY <1>22, <3>1, <4>2, Sizes
        <5>3. proc[Writer].at \in Places
          BY <5>1 DEF ProcType
        <5> QED BY <5>1, <5>2, <5>3
                DEF WriterIn, Quiet, Places, Opened, Out
      <4> QED BY <4>1, <4>2
    <3>5. Idle(WorkerIn(g)')
      <4>1. Idle(NoWorker)
        BY NewTyped DEF Idle, NoWorker, Holds
      <4>2. WorkerIn(g)' = IF proc'[Reader].map = g THEN worker ELSE NoWorker
        BY <1>2 DEF WorkerIn, NoWorker
      <4>3. proc'[Reader].map = g => worker.at = "off"
        <5>1. CASE p = Reader
          BY <1>15, <5>1
        <5>2. CASE p # Reader
          <6>1. proc[Reader].map = g => proc[Reader].at \notin Opened
            BY <1>22, <3>1, <5>2, Sizes
          <6> QED BY <1>16, <5>2, <6>1, Typed DEF ApiTyped, Opened, Stopping
        <5> QED BY <5>1, <5>2
      <4>4. worker \in WorkerType
        BY Typed DEF ApiTyped
      <4> QED BY <4>1, <4>2, <4>3, <4>4 DEF Idle, Holds
    <3>6. PICK n, at, hd, k : /\ n = sems'[hist'[g].sem] /\ at = WriterIn(g)'
                              /\ hd = head' /\ k = WorkerIn(g)'
      OBVIOUS
    <3>7. n \in Nat /\ at \in Quiet /\ Idle(k)
      BY <1>2, <1>4, <1>10, <1>12, <3>4, <3>5, <3>6
    <3>8. r.head = 0 /\ r.tail = 0
      BY <1>6, <1>19
    <3>9. Sound(r, h, n, at, hd, k)
      BY <3>3, <3>7, <3>8, FreshIsSound
    <3>10. h.sem # None
      BY <1>4, <1>10
    <3> QED BY <1>11, <1>12, <3>6, <3>9, <3>10, RegionAfter
  <2>3. ASSUME NEW d \in Regions, d # g PROVE RegionInv(d)'
    <3>1. RegionInv(d)
      BY Typed DEF RegionsInv
    <3>2. WriterIn(d)' = WriterIn(d)
      <4>1. CASE p = Writer
        BY <1>1, <1>13, <2>3, <4>1 DEF WriterIn
      <4>2. CASE p # Writer
        <5>1. proc'[Writer] = proc[Writer]
          BY <1>13, <4>2, Sizes
        <5> QED BY <5>1 DEF WriterIn
      <4> QED BY <4>1, <4>2
    <3>3. WorkerIn(d)' = WorkerIn(d)
      <4>1. proc'[Reader].map = proc[Reader].map
        BY <1>1, <1>13, <1>16
      <4> QED BY <1>2, <4>1 DEF WorkerIn, NoWorker
    <3> QED BY <1>2, <1>11, <1>12, <2>3, <3>1, <3>2, <3>3, Frame
  <2> QED BY <1>11, <2>1, <2>2, <2>3 DEF RegionsInv
<1> QED BY <1>17, <1>18, <1>20, <1>23, <1>24 DEF IInv

LEMMA CheckMagicInv ==
    ASSUME IInv, Undisturbed, NEW p \in Procs, CheckMagic(p)
    PROVE  IInv'
<1>1. PICK g, s : g = proc[p].map /\ s = proc[p].sid
  OBVIOUS
<1>2. /\ proc[p].at = "magic" /\ Goto(p, "open") /\ regions[g].magic
      /\ creator' = creator /\ names' = names /\ count' = count
      /\ sems' = sems /\ head' = head /\ regions' = regions
      /\ running' = running /\ handlers' = handlers /\ worker' = worker
  BY <1>1 DEF CheckMagic, At, api, fixed, ring
<1>3. /\ g \in Regions /\ s \in DOMAIN sems /\ DOMAIN hist = Regions
      /\ \A d \in Regions : hist[d] \in HistType
  BY <1>1, <1>2, Typed, HistDomain DEF HasObjects, Out
<1>4. Regions' = Regions
  BY <1>2 DEF Regions
<1>5. hist' = [d \in Regions |-> [hist[d] EXCEPT !.disturbed =
                    @ \/ (g = d) # (s = hist[d].sem)]]
  BY <1>1, <1>3 DEF CheckMagic
<1>6. ASSUME NEW d \in Regions
      PROVE  /\ hist'[d] \in HistType /\ hist'[d].sem = hist[d].sem
             /\ ~hist'[d].disturbed => /\ hist'[d] = hist[d]
                                       /\ g = d => s = hist[d].sem
  <2>1. PICK b : b = (hist[d].disturbed \/ (g = d) # (s = hist[d].sem))
    OBVIOUS
  <2>2. hist[d].disturbed \in BOOLEAN
    BY <1>3 DEF HistType
  <2>3. b \in BOOLEAN
    BY <2>1, <2>2
  <2>4. PICK x : x = hist[d]
    OBVIOUS
  <2>5. hist'[d] = [x EXCEPT !.disturbed = b]
    BY <1>5, <2>1, <2>4
  <2>6. x \in HistType
    BY <1>3, <2>4
  <2>7. hist'[d] \in HistType /\ hist'[d].sem = x.sem /\ hist'[d].disturbed = b
    BY <2>3, <2>5, <2>6 DEF HistType
  <2>8. ~b => x.disturbed = b
    BY <2>1, <2>2, <2>3, <2>4
  <2>9. x.disturbed = b => [x EXCEPT !.disturbed = b] = x
    BY <2>3, <2>6 DEF HistType
  <2>10. ~b => (g = d => s = hist[d].sem)
    BY <2>1
  <2> QED BY <2>4, <2>5, <2>7, <2>8, <2>9, <2>10
<1>7. /\ hist' \in Seq(HistType) /\ Len(hist') = Len(hist)
      /\ DOMAIN hist' = Regions
  <2>1. Len(hist) \in Nat /\ Regions = 1..Len(hist)
    BY Typed DEF MemoryTyped, Regions
  <2>2. hist' \in [1..Len(hist) -> HistType]
    BY <1>5, <1>6, <2>1
  <2> QED BY <2>1, <2>2, SeqDef
<1>8. /\ ProcTyped' /\ proc'[p].at = "open"
      /\ proc'[p].map = g /\ proc'[p].sid = s
      /\ \A q \in Procs : q # p => proc'[q] = proc[q]
  <2>1. DOMAIN sems' = DOMAIN sems
    BY <1>2
  <2> QED BY <1>1, <1>2, <1>4, <2>1, Typed, GotoTyped
<1>9. MemoryTyped'
  BY <1>2, <1>4, <1>6, <1>7, Typed DEF MemoryTyped
<1>10. p = Reader => worker.at = "off" /\ ~running
  BY <1>2, Typed DEF ApiTyped, At
<1>11. p # Reader => proc'[Reader] = proc[Reader]
  BY <1>8, Sizes
<1>12. ApiTyped' /\ StopInv'
  BY <1>2, <1>8, <1>10, <1>11, Typed DEF ApiTyped, StopInv, At
<1>13. TypeOK'
  BY <1>2, <1>8, <1>9, <1>12, Typed DEF TypeOK, Procs
<1>14. CreatorInv'
  <2>1. \A q \in Procs : proc'[q].at \in Creating => proc'[q] = proc[q]
    BY <1>8 DEF Creating
  <2>2. \A q \in Procs : proc[q].at \in Creating => proc[q].map \in Regions
    BY Typed DEF HasObjects, Creating, Out
  <2>3. ASSUME NEW q \in Procs, proc'[q].at = "reset_tail"
        PROVE  /\ regions'[proc'[q].map].head = 0
               /\ hist'[proc'[q].map].sem = None
    <3>1. proc'[q] = proc[q] /\ proc[q].map \in Regions
      BY <2>1, <2>2, <2>3 DEF Creating
    <3> QED BY <1>2, <1>6, <2>3, <3>1, Typed DEF CreatorInv, At
  <2>4. ASSUME NEW q \in Procs, proc'[q].at \in {"reset_head", "reset_tail"},
               NEW d \in Regions
        PROVE  hist'[d].sem # proc'[q].sid
    <3>1. proc'[q] = proc[q]
      BY <2>1, <2>4 DEF Creating
    <3> QED BY <1>6, <2>4, <3>1, Typed DEF CreatorInv
  <2>5. ASSUME NEW q \in Procs, proc'[q].at \in Creating PROVE q = creator'
    BY <1>2, <2>1, <2>5, Typed DEF CreatorInv
  <2> QED BY <1>4, <2>3, <2>4, <2>5 DEF CreatorInv, At, Procs, None
<1>15. OpenInv'
  <2>1. \A q \in Procs : q # p /\ proc[q].at \in Opened =>
            proc[q].map \in Regions
    BY Typed DEF Opened, HasObjects, Out, Publishing, Stopping
  <2>2. ASSUME NEW q \in Procs, proc'[q].at \in Opened
        PROVE  regions'[proc'[q].map].magic
    <3>1. CASE q = p
      BY <1>2, <1>8, <3>1
    <3>2. CASE q # p
      BY <1>2, <1>8, <2>2, <3>2, Typed DEF OpenInv
    <3> QED BY <3>1, <3>2
  <2>3. ASSUME NEW d \in Regions, NEW e \in Regions,
               hist'[d].sem = hist'[e].sem, hist'[d].sem # None
        PROVE  d = e
    BY <1>6, <2>3, Typed DEF OpenInv
  <2>4. ASSUME Undisturbed', NEW q \in Procs, proc'[q].at \in Opened
        PROVE  hist'[proc'[q].map].sem = proc'[q].sid
    <3>1. \A d \in Regions : ~hist'[d].disturbed
      BY <1>7, <2>4 DEF Undisturbed
    <3>2. CASE q = p
      BY <1>3, <1>6, <1>8, <3>1, <3>2
    <3>3. CASE q # p
      <4>1. /\ proc'[q] = proc[q] /\ proc[q].map \in Regions
            /\ proc[q].at \in Opened
        BY <1>8, <2>1, <2>4, <3>3
      <4>2. hist[proc[q].map].sem = proc[q].sid
        BY <4>1, Typed DEF OpenInv
      <4> QED BY <1>6, <4>1, <4>2
    <3> QED BY <3>2, <3>3
  <2> QED BY <1>4, <2>2, <2>3, <2>4 DEF OpenInv, Procs, None
<1>16. RegionsInv'
  <2>1. ASSUME NEW d \in Regions PROVE RegionInv(d)'
    <3>1. CASE hist'[d].disturbed
      BY <3>1, RegionAfter
    <3>2. CASE ~hist'[d].disturbed
      <4>1. RegionInv(d)
        BY Typed DEF RegionsInv
      <4>2. \/ WriterIn(d)' = WriterIn(d)
            \/ WriterIn(d) # "post" /\ WriterIn(d)' \in Quiet
        <5>1. CASE p = Writer
          BY <1>1, <1>2, <1>8, <5>1 DEF WriterIn, Quiet
        <5>2. CASE p # Writer
          <6>1. proc'[Writer] = proc[Writer]
            BY <1>8, <5>2, Sizes
          <6> QED BY <6>1 DEF WriterIn
        <5> QED BY <5>1, <5>2
      <4>3. WorkerIn(d)' = WorkerIn(d)
        <5>1. proc'[Reader].map = proc[Reader].map
          BY <1>1, <1>8, <1>11
        <5> QED BY <1>2, <5>1 DEF WorkerIn, NoWorker
      <4> QED BY <1>2, <1>6, <3>2, <4>1, <4>2, <4>3, Frame
    <3> QED BY <3>1, <3>2
  <2> QED BY <1>4, <2>1 DEF RegionsInv
<1> QED BY <1>12, <1>13, <1>14, <1>15, <1>16 DEF IInv

\* A crash: whose token is lost, if one is.
LEMMA CrashInv ==
    ASSUME IInv, Undisturbed, NEW p \in Procs, Crash(p)
    PROVE  IInv'
<1>1. /\ proc' = [proc EXCEPT ![p] = Closed]
      /\ creator' = creator /\ names' = names /\ regions' = regions
      /\ sems' = sems
  BY DEF Crash, ring
<1>2. count' \in [opens : Nat, crashes : Nat, starts : Nat]
  BY Typed, CountKept DEF Crash
<1>3. Regions' = Regions
  BY <1>1 DEF Regions
<1>4. /\ ProcTyped' /\ proc'[p] = Closed
      /\ \A q \in Procs : q # p => proc'[q] = proc[q]
  <2>1. HasObjects(Closed)'
    BY ClosedTyped DEF HasObjects, Out, None, Closed
  <2>2. Closed \in ProcType
    BY ClosedTyped
  <2>3. PICK x : x = Closed
    OBVIOUS
  <2>4. x \in ProcType /\ HasObjects(x)' /\ proc' = [proc EXCEPT ![p] = x]
    BY <1>1, <2>1, <2>2, <2>3 DEF HasObjects, Closed
  <2>5. Regions \subseteq Regions' /\ DOMAIN sems \subseteq DOMAIN sems'
    BY <1>1, <1>3
  <2> QED BY <2>3, <2>4, <2>5, Typed, ProcSet
<1>5. \A q \in Procs : \/ proc'[q] = proc[q]
                       \/ proc'[q].at \in Out \cup Attaching
  BY <1>4, ClosedTyped DEF Out
<1>6. p = Reader => /\ running' = FALSE /\ handlers' = FALSE
                    /\ worker' = NoWorker
                    /\ head' = head /\ proc'[Writer] = proc[Writer]
  BY <1>4, Sizes DEF Crash
<1>7. p # Reader => /\ running' = running /\ handlers' = handlers
                    /\ worker' = worker /\ proc'[Reader] = proc[Reader]
                    /\ head' = 0 /\ p = Writer
  BY <1>4, Sizes DEF Crash, api
<1>8. ApiTyped' /\ StopInv'
  <2>1. CASE p = Reader
    <3>1. /\ running' = FALSE /\ handlers' = FALSE
          /\ worker' \in WorkerType /\ worker'.at = "off"
          /\ proc'[Reader].at = "closed"
      <4>1. NoWorker \in WorkerType /\ NoWorker.at = "off"
        BY NewTyped DEF NoWorker
      <4>2. Closed.at = "closed"
        BY ClosedTyped
      <4>3. proc'[Reader] = Closed
        BY <1>4, <2>1
      <4> QED BY <1>6, <2>1, <4>1, <4>2, <4>3
    <3> QED BY <3>1 DEF ApiTyped, StopInv, At
  <2>2. CASE p # Reader
    BY <1>7, <2>2, Typed DEF ApiTyped, StopInv, At
  <2> QED BY <2>1, <2>2
<1>9. head' \in Counts
  BY <1>6, <1>7, NewTyped, Typed DEF TypeOK
<1>10. Idle(NoWorker) /\ "closed" \in Quiet
  BY NewTyped DEF Idle, NoWorker, Holds, Quiet
<1>11. CASE ~(At(p, "post") \/ (p = Reader /\ Holding))
  <2>1. hist' = hist
    BY <1>11 DEF Crash
  <2>2. MemoryTyped'
    BY <1>1, <1>3, <2>1, Typed DEF MemoryTyped
  <2>3. TypeOK'
    BY <1>1, <1>2, <1>4, <1>8, <1>9, <2>2, Typed DEF TypeOK, Procs
  <2>4. \/ proc'[Writer] = proc[Writer] /\ head' = head
        \/ proc[Writer].at # "post" /\ proc'[Writer].at \in Quiet
    BY <1>4, <1>6, <1>7, <1>10, <1>11, ClosedTyped DEF At
  <2>5. \/ proc'[Reader].map = proc[Reader].map /\ worker' = worker
        \/ Idle(worker) /\ Idle(worker')
    <3>1. p = Reader => Idle(worker)
      BY <1>11, Typed DEF Idle, ApiTyped, Holding
    <3> QED BY <1>6, <1>7, <1>10, <3>1
  <2> QED BY <1>1, <1>5, <1>8, <2>1, <2>3, <2>4, <2>5, MoveStep DEF ring
<1>12. CASE At(p, "post") \/ (p = Reader /\ Holding)
  <2>1. PICK g : g = proc[p].map
    OBVIOUS
  <2>2. proc[p].at \in Opened
    BY <1>12, Typed
       DEF At, ApiTyped, Opened, Publishing, Stopping, Holding, Holds
  <2>3. /\ g \in Regions /\ hist[g] \in HistType /\ hist[g].sem # None
        /\ sems[hist[g].sem] \in Nat /\ DOMAIN hist = Regions
        /\ Sound(regions[g], hist[g], sems[hist[g].sem], WriterIn(g), head,
                 WorkerIn(g))
    BY <2>1, <2>2, InTheOpen, HistDomain, Typed
  <2>4. PICK x, h : x = hist[g] /\ h = [x EXCEPT !.lost = x.lost + 1]
    OBVIOUS
  <2>5. /\ h \in HistType /\ h.lost = x.lost + 1 /\ h.sent = x.sent
        /\ h.got = x.got /\ h.sem = x.sem /\ h.disturbed = x.disturbed
    <3>1. PICK l : l = x.lost + 1
      OBVIOUS
    <3>2. x \in HistType /\ l \in Nat
      BY <2>3, <2>4, <3>1 DEF HistType
    <3>3. h = [x EXCEPT !.lost = l]
      BY <2>4, <3>1
    <3>4. /\ h \in HistType /\ h.lost = l /\ h.sent = x.sent
          /\ h.got = x.got /\ h.sem = x.sem /\ h.disturbed = x.disturbed
      BY <3>2, <3>3 DEF HistType
    <3> QED BY <3>1, <3>4
  <2>6. /\ hist' \in Seq(HistType) /\ Len(hist') = Len(hist)
        /\ DOMAIN hist' = Regions /\ hist'[g] = h
        /\ \A d \in Regions : d # g => hist'[d] = hist[d]
    <3>1. hist' = [hist EXCEPT ![g] = h]
      BY <1>12, <2>1, <2>3, <2>4 DEF Crash
    <3> QED BY <2>3, <2>5, <3>1, Typed, HistSet
  <2>7. \A d \in Regions : /\ hist'[d].sem = hist[d].sem
                           /\ hist'[d].disturbed = hist[d].disturbed
    BY <2>4, <2>5, <2>6
  <2>8. MemoryTyped'
    BY <1>1, <1>3, <2>6, <2>7, Typed DEF MemoryTyped
  <2>9. TypeOK'
    BY <1>1, <1>2, <1>4, <1>8, <1>9, <2>8, Typed DEF TypeOK, Procs
  <2>10. CreatorInv' /\ OpenInv'
    BY <1>1, <1>3, <1>5, <2>3, <2>6, <2>7, Typed, SameOpen
  <2>11. \A d \in Regions : /\ p # Writer => WriterIn(d)' = WriterIn(d)
                            /\ p = Writer => WriterIn(d)' \in Quiet
                            /\ p = Writer /\ d # g => WriterIn(d) = "closed"
    BY <1>4, <1>6, <1>7, <1>10, <2>1, ClosedTyped DEF WriterIn
  <2>12. \A d \in Regions : /\ p # Reader => WorkerIn(d)' = WorkerIn(d)
                            /\ p = Reader => WorkerIn(d)' = NoWorker
                            /\ p = Reader /\ d # g => WorkerIn(d) = NoWorker
    BY <1>4, <1>6, <1>7, <2>1, ClosedTyped, Typed DEF WorkerIn, NoWorker
  <2>13. RegionInv(g)'
    <3>1. PICK r, n, at, hd, k, to, nd, w :
             /\ r = regions[g] /\ n = sems[hist[g].sem]
             /\ at = WriterIn(g) /\ hd = head /\ k = WorkerIn(g)
             /\ to = WriterIn(g)' /\ nd = head' /\ w = WorkerIn(g)'
      OBVIOUS
    <3>2. /\ Sound(r, x, n, at, hd, k) /\ x \in HistType /\ n \in Nat
      BY <2>3, <2>4, <3>1
    <3>3. /\ r = regions'[g] /\ h = hist'[g] /\ n = sems'[hist'[g].sem]
          /\ h.sem # None
      BY <1>1, <2>3, <2>4, <2>5, <2>6, <3>1
    <3>4. CASE p = Writer
      <4>1. to \in Quiet /\ w = k
        BY <2>3, <2>11, <2>12, <3>1, <3>4, Sizes
      <4>2. Sound(r, h, n, to, nd, k)
        BY <2>5, <3>2, <4>1, WriterLost
      <4> QED BY <3>1, <3>3, <4>1, <4>2, RegionAfter
    <3>5. CASE p = Reader
      <4>1. to = at /\ nd = hd /\ w = NoWorker
        BY <1>6, <2>3, <2>11, <2>12, <3>1, <3>5, Sizes
      <4>2. Sound(r, h, n, at, hd, w)
        BY <1>10, <2>5, <3>2, <4>1, WorkerLost
      <4> QED BY <3>1, <3>3, <4>1, <4>2, RegionAfter
    <3> QED BY <1>7, <3>4, <3>5
  <2>14. ASSUME NEW d \in Regions, d # g PROVE RegionInv(d)'
    <3>1. RegionInv(d)
      BY Typed DEF RegionsInv
    <3>2. \/ WriterIn(d)' = WriterIn(d) /\ head' = head
          \/ WriterIn(d) # "post" /\ WriterIn(d)' \in Quiet
      BY <1>6, <1>7, <2>11, <2>14
    <3>3. WorkerIn(d)' = WorkerIn(d)
      BY <2>12, <2>14
    <3> QED BY <1>1, <2>6, <2>14, <3>1, <3>2, <3>3, Frame
  <2> QED BY <1>3, <1>8, <2>9, <2>10, <2>13, <2>14 DEF IInv, RegionsInv
<1> QED BY <1>11, <1>12

-----------------------------------------------------------------------------
(* The theorems. *)

LEMMA Initial == Init => IInv
<1> SUFFICES ASSUME Init PROVE IInv
  OBVIOUS
<1>1. /\ regions = <<>> /\ sems = <<>> /\ hist = <<>> /\ head = 0
      /\ proc = [p \in Procs |-> Closed] /\ creator \in Procs
      /\ ~running /\ ~handlers /\ worker = NoWorker
      /\ running = FALSE /\ handlers = FALSE
  BY DEF Init
<1>2. Regions = {} /\ DOMAIN sems = {} /\ DOMAIN hist = {}
  BY <1>1 DEF Regions
<1>3. MemoryTyped
  BY <1>1, <1>2 DEF Init, MemoryTyped
<1>4. ProcTyped /\ \A p \in Procs : proc[p].at = "closed"
  BY <1>1, ClosedTyped DEF ProcTyped
<1>5. ApiTyped
  BY <1>1, NewTyped DEF ApiTyped, NoWorker
<1>6. TypeOK
  BY <1>1, <1>3, <1>4, <1>5, NewTyped DEF TypeOK, Init
<1>7. StopInv
  BY <1>4, Sizes DEF StopInv, At
<1>8. CreatorInv
  BY <1>4 DEF CreatorInv, At, Creating
<1>9. OpenInv
  BY <1>2, <1>4 DEF OpenInv, Opened, Publishing, Stopping
<1>10. RegionsInv
  BY <1>2 DEF RegionsInv
<1> QED BY <1>6, <1>7, <1>8, <1>9, <1>10 DEF IInv

LEMMA NextKeeps == IInv /\ Next => IInv'
<1> SUFFICES ASSUME IInv, Next PROVE IInv'
  OBVIOUS
<1>1. Undisturbed
  BY DEF Next
<1>2. ASSUME NEW p \in Procs, Construct(p) PROVE IInv'
  BY <1>1, <1>2, NewShmInv, OldShmInv, SemUnlinkInv, SemCreateInv, ResetHeadInv,
     ResetTailInv, ShmAttachInv, SemAttachInv, CheckMagicInv, AttachFailsInv
     DEF Construct
<1>3. ASSUME NEW p \in Procs, Close(p) \/ Unlink(p) \/ Crash(p) PROVE IInv'
  BY <1>1, <1>3, CloseInv, UnlinkInv, CrashInv
<1>4. CASE PublishLoad \/ Publish
  BY <1>1, <1>4, PublishLoadInv, PublishFullInv, PublishPayloadInv,
     PublishSizeInv, PublishHeadInv, PublishPostInv DEF Publish
<1>5. CASE Subscribe \/ Reset \/ StopFlag \/ StopPost \/ StopJoin
  BY <1>1, <1>5, SubscribeInv, ResetInv, StopFlagInv, StopPostInv, StopJoinInv
<1>6. CASE Worker
  BY <1>1, <1>6, LoopTestInv, WaitTokenInv, WaitTimeoutInv, LoadTailInv,
     LoadHeadInv, LoadSizeInv, CopyHandlersInv, DeliverInv, StoreTailInv
     DEF Worker
<1> QED BY <1>2, <1>3, <1>4, <1>5, <1>6 DEF Next

LEMMA StutterKeeps == IInv /\ UNCHANGED vars => IInv'
<1> SUFFICES ASSUME IInv, UNCHANGED vars PROVE IInv'
  OBVIOUS
<1>1. /\ creator' = creator /\ names' = names /\ regions' = regions
      /\ sems' = sems /\ proc' = proc /\ head' = head /\ running' = running
      /\ handlers' = handlers /\ worker' = worker /\ hist' = hist
      /\ count' = count
  BY DEF vars, fixed, ring, api
<1>2. MemoryTyped'
  BY <1>1, Typed DEF MemoryTyped, Regions
<1>3. ProcTyped'
  BY <1>1, Typed DEF ProcTyped, HasObjects, Regions, Procs
<1>4. ApiTyped' /\ StopInv'
  BY <1>1, Typed DEF ApiTyped, StopInv, At
<1>5. TypeOK'
  BY <1>1, <1>2, <1>3, <1>4, Typed DEF TypeOK, Procs
<1> QED BY <1>1, <1>4, <1>5, MoveStep DEF ring

\* All of the inductive invariant.
THEOREM Invariance == Spec => []IInv
<1>1. Init => IInv
  BY Initial
<1>2. IInv /\ [Next]_vars => IInv'
  BY NextKeeps, StutterKeeps
<1> QED BY <1>1, <1>2, PTL DEF Spec

\* The types of the variables, and that a process has a region and a semaphore
\* open exactly where the code says so.
THEOREM TypeCorrect == Spec => []TypeOK
<1>1. IInv => TypeOK
  BY DEF IInv
<1> QED BY <1>1, Invariance, PTL

LEMMA CoveredByTokens == IInv => TokensCover
<1> SUFFICES ASSUME IInv, NEW g \in Regions, ~hist[g].disturbed,
                    hist[g].sem # None
             PROVE  Unread(g) <= sems[hist[g].sem]
                       + One(proc[Writer].map = g /\ At(Writer, "post"))
                       + One(proc[Reader].map = g /\ Holding)
                       + hist[g].lost
  BY DEF TokensCover
<1>1. Sound(regions[g], hist[g], sems[hist[g].sem], WriterIn(g), head,
            WorkerIn(g))
  BY Typed DEF RegionsInv, RegionInv
<1>2. PICK t \in 0..hist[g].sent :
          Taken(regions[g], hist[g], sems[hist[g].sem], WriterIn(g), head,
                WorkerIn(g), t)
  BY <1>1 DEF Sound
<1>3. hist[g].sent \in Nat
  BY Typed, HistDomain DEF HistType
<1>4. Unread(g) = hist[g].sent - t
  <2>1. /\ hist[g].sent - t <= Capacity
        /\ regions[g].head = hist[g].sent % Width
        /\ regions[g].tail = t % Width
    BY <1>2 DEF Taken, Contents
  <2> QED BY <1>3, <2>1, Between DEF Unread
<1>5. One(WriterIn(g) = "post") = One(/\ proc[Writer].map = g
                                      /\ At(Writer, "post"))
  BY DEF WriterIn, At, One
<1>6. One(WorkerIn(g).at \in Holds) = One(proc[Reader].map = g /\ Holding)
  BY DEF WorkerIn, Holding, One, NoWorker, Holds
<1> QED BY <1>2, <1>4, <1>5, <1>6 DEF Taken, Covered

\* Every message in the ring has a token, in the semaphore, about to be posted
\* or in the worker's hands, but for as many as went down with a process.
THEOREM TokensCoverTheorem == Spec => []TokensCover
BY CoveredByTokens, Invariance, PTL

LEMMA AllWhole == IInv => WholeInOrder
<1> SUFFICES ASSUME IInv, NEW g \in Regions, ~hist[g].disturbed
             PROVE  Whole(hist[g])
  BY DEF WholeInOrder, Whole
<1>1. RegionInv(g)
  BY Typed DEF RegionsInv
<1>2. CASE hist[g].got = <<>>
  BY <1>2 DEF Whole
<1>3. CASE Sound(regions[g], hist[g], sems[hist[g].sem], WriterIn(g), head,
                 WorkerIn(g))
  BY <1>3 DEF Sound, Taken, Delivered
<1> QED BY <1>1, <1>2, <1>3 DEF RegionInv

\* The handlers get the messages whole, in order, and none is passed over; only
\* one whose delivery a crash cut short comes again.
THEOREM WholeInOrderTheorem == Spec => []WholeInOrder
BY AllWhole, Invariance, PTL

=============================================================================
