----------------------------- MODULE NodeProofs -----------------------------
(***************************************************************************)
(* What Node keeps, proved for any worlds: any entities in any groups made  *)
(* by any overload, any timers, rules and faults, and any number of workers *)
(* and messages.                                                           *)
(***************************************************************************)
EXTENDS Node, FiniteSetTheorems, SequenceTheorems, TLAPS

-----------------------------------------------------------------------------
(* The inductive invariant. *)

Kinds == {"event", "text", "service", "client"}

\* Where what concerns e runs: the scheduler of its group, for a timer the
\* default strand, and for the faults the executor.
On(e) == IF e \in Entities THEN SchedulerOf(Info(e).group)
         ELSE IF e \in Timers THEN Default ELSE Executor

\* What a closure is given: nothing, or a fault as publish_fault stamps it.
Stamped(f) == [f EXCEPT !.service = IF @ = "" THEN world.service ELSE @]
Whats == {None} \cup {Stamped(world.faults[n]) : n \in Nat}

Tasks == [to : Callees, what : Whats]
Drains == [drain : Exclusive]
TasksOn(s) == {c \in Tasks : On(c.to) = s}
Slots == [at : {"idle", "pop", "enter", "call", "run"},
          strand : Exclusive \cup {None}, task : Tasks \cup {None}]
Strands == [q : Seq(Tasks), scheduled : BOOLEAN]
Counters == [recv : Nat, decode : Nat, schema : Nat, user : Nat]

\* The entities and what was made of them.
MadeInv ==
    /\ world \in Worlds
    /\ todo \in Seq({world.entities[i] : i \in DOMAIN world.entities})
    /\ DOMAIN made = Entities
    /\ \A e \in Entities : made[e] # None => made[e].runs = On(e)
    /\ firing \subseteq DOMAIN world.timers
    /\ faults \in Nat

\* A queue has closures of its own scheduler only.
QueueInv ==
    /\ queue \in Seq(TasksOn(Executor) \cup Drains)
    /\ strand \in [Exclusive -> Strands]
    /\ \A s \in Exclusive : strand[s].q \in Seq(TasksOn(s))

\* What a thread runs belongs to the scheduler on which it runs it, and it is
\* in the callback of that kind of entity.
Sound(x) ==
    /\ x.at = "idle" => x = Idle
    /\ x.at = "pop" => x.strand # None
    /\ x.at \in {"enter", "call", "run"} =>
          /\ x.task \in Tasks
          /\ On(x.task.to) = IF x.strand = None THEN Executor ELSE x.strand
    /\ x.at = "call" => Kind(x.task.to) \in {"event", "text"}
    /\ x.at = "run" => \/ x.task.to \in Timers
                       \/ Kind(x.task.to) \in {"service", "client"}

SlotInv ==
    /\ slot \in [Threads -> Slots]
    /\ \A t \in Threads : Sound(slot[t])
    /\ spin # "inside" => slot[Main] = Idle

\* A strand has one drain at most, queued or on a thread, and is scheduled
\* while it has.
DrainInv == \A s \in Exclusive :
    /\ \A i, j \in DOMAIN queue :
          queue[i] = [drain |-> s] /\ queue[j] = [drain |-> s] => i = j
    /\ \A t, u \in Threads :
          slot[t].strand = s /\ slot[u].strand = s => t = u
    /\ \A i \in DOMAIN queue, t \in Threads :
          queue[i] = [drain |-> s] => slot[t].strand # s
    /\ ~strand[s].scheduled =>
          /\ \A i \in DOMAIN queue : queue[i] # [drain |-> s]
          /\ \A t \in Threads : slot[t].strand # s

CountInv ==
    /\ done \in [Callees -> Nat] /\ calls \in [Entities -> Nat]
    /\ stats \in [Entities -> Counters]
    /\ Counted

IInv == MadeInv /\ QueueInv /\ SlotInv /\ DrainInv /\ CountInv
-----------------------------------------------------------------------------
(* The wiring, and the names of a world. *)

(* Whichever overload asks for a group, what it creates runs on the          *)
(* scheduler of that group.                                                 *)
THEOREM Wired ==
    ASSUME NEW group \in Groups, NEW how \in Ways(group),
           NEW kind \in Kinds, NEW opts, NEW where \in RunsOn(kind, how, opts)
    PROVE  where = SchedulerOf(group)
<1> DEFINE g == SchedulerOf(group)
<1>1. Default \in Exclusive /\ SchedulerOf(Default) = Default
  BY WiringAssumption DEF SchedulerOf
<1>2. group # Null
  BY WiringAssumption DEF Groups
<1>3. /\ how.by \in {"none", "group", "pointer", "strand", "executor"}
      /\ how.by = "none" => g = Default
      /\ how.by \in {"group", "pointer"} => OnGroup(how) = g
      /\ how.by = "strand" => how.to = g
      /\ how.by = "executor" => g = Executor
  <2>1. CASE how = [by |-> "group", to |-> group]
    BY <2>1 DEF OnGroup
  <2>2. CASE how = [by |-> "pointer", to |-> group]
    BY <1>2, <2>2 DEF OnGroup, resolve_group
  <2>3. CASE group = Default /\ how = [by |-> "none"]
    BY <1>1, <2>3
  <2>4. CASE group = Default /\ how = [by |-> "pointer", to |-> Null]
    BY <1>1, <2>4 DEF OnGroup, resolve_group
  <2>5. CASE group \in Exclusive /\ how = [by |-> "strand", to |-> group]
    BY <2>5 DEF SchedulerOf
  <2>6. CASE group \notin Exclusive /\ how = [by |-> "executor"]
    BY <2>6 DEF SchedulerOf
  <2> QED  BY <2>1, <2>2, <2>3, <2>4, <2>5, <2>6 DEF Ways
<1>4. CASE kind = "event"
  BY <1>3, <1>4 DEF RunsOn, EventSubscription, EventSubscriptionShared,
                    EventSubscriptionOn
<1>5. CASE kind = "text"
  BY <1>3, <1>5 DEF RunsOn, TextSubscription, TextSubscriptionShared,
                    TextSubscriptionOn
<1>6. CASE kind = "service"
  BY <1>1, <1>3, <1>6 DEF RunsOn, ServiceByOptions, ServiceByName,
                          ServiceShared
<1>7. CASE kind = "client"
  BY <1>1, <1>3, <1>7 DEF RunsOn, ClientByOptions, ClientByName,
                          ClientShared
<1> QED  BY <1>4, <1>5, <1>6, <1>7 DEF Kinds

LEMMA Named ==
    ASSUME world \in Worlds
    PROVE  /\ \A i \in DOMAIN world.entities :
                 /\ world.entities[i].name \in Entities
                 /\ Info(world.entities[i].name) = world.entities[i]
           /\ \A e \in Entities :
                 /\ Info(e).group \in Groups
                 /\ Kind(e) \in Kinds /\ Kind(e) = Info(e).kind
                 /\ On(e) = SchedulerOf(Info(e).group)
                 /\ e \notin Timers /\ e # Recovery
           /\ \A t \in Timers : /\ t \notin Entities /\ t # Recovery
                                /\ On(t) = Default /\ Kind(t) = "other"
           /\ On(Recovery) = Executor /\ Kind(Recovery) = "other"
<1>1. \A i \in DOMAIN world.entities : world.entities[i].name \in Entities
  BY DEF Entities
<1>2. \A i, j \in DOMAIN world.entities :
         world.entities[i].name = world.entities[j].name => i = j
  BY WorldAssumption
<1>3. ASSUME NEW i \in DOMAIN world.entities
      PROVE  Info(world.entities[i].name) = world.entities[i]
  <2> DEFINE R == {world.entities[j] : j \in DOMAIN world.entities}
             n == world.entities[i].name
  <2>1. world.entities[i] \in R /\ world.entities[i].name = n
    OBVIOUS
  <2>2. \A r \in R : r.name = n => r = world.entities[i]
    BY <1>2
  <2>3. Info(n) \in R /\ Info(n).name = n
    BY <2>1 DEF Info
  <2> QED  BY <2>2, <2>3
<1>4. ASSUME NEW e \in Entities
      PROVE  \E i \in DOMAIN world.entities :
                e = world.entities[i].name /\ Info(e) = world.entities[i]
  BY <1>3 DEF Entities
<1>5. \A i \in DOMAIN world.entities :
         /\ world.entities[i].kind \in Kinds
         /\ world.entities[i].group \in Groups
         /\ world.entities[i].name # Recovery
         /\ \A j \in DOMAIN world.timers :
               world.entities[i].name # world.timers[j].name
  BY WorldAssumption DEF Kinds, Recovery
<1>6. \A j \in DOMAIN world.timers : world.timers[j].name # Recovery
  BY WorldAssumption DEF Recovery
<1>7. \A e \in Entities : e \notin Timers /\ e # Recovery
  BY <1>4, <1>5 DEF Timers
<1>8. \A t \in Timers : t \notin Entities /\ t # Recovery
  BY <1>6, <1>7 DEF Timers
<1>9. Recovery \notin Entities /\ Recovery \notin Timers
  BY <1>7, <1>8
<1> QED  BY <1>1, <1>3, <1>4, <1>5, <1>7, <1>8, <1>9 DEF Kind, On

LEMMA Scheduled ==
    ASSUME world \in Worlds
    PROVE  /\ Executor \notin Exclusive /\ None \notin Exclusive
           /\ Default \in Exclusive
           /\ \A e \in Callees : On(e) \in Exclusive \cup {Executor}
           /\ Recovery \in Callees /\ Entities \subseteq Callees
           /\ Timers \subseteq Callees
<1>1. \A e \in Callees : On(e) \in Exclusive \cup {Executor}
  BY WiringAssumption, Named DEF Callees, On, SchedulerOf
<1> QED  BY <1>1, WiringAssumption, WorldAssumption DEF Callees

\* What only depends on the world stays as it is.
LEMMA WorldFixed ==
    ASSUME world' = world
    PROVE  /\ Entities' = Entities /\ Timers' = Timers
           /\ Callees' = Callees /\ Threads' = Threads
           /\ Whats' = Whats /\ Tasks' = Tasks /\ Slots' = Slots
           /\ Strands' = Strands /\ Drains' = Drains
           /\ \A e : Kind(e)' = Kind(e) /\ On(e)' = On(e)
           /\ \A s : TasksOn(s)' = TasksOn(s)
           /\ \A x : Sound(x)' = Sound(x)
<1>1. Entities' = Entities /\ Timers' = Timers /\ Threads' = Threads
  BY DEF Entities, Timers, Threads
<1>2. Callees' = Callees
  BY <1>1 DEF Callees
<1>3. \A e : Info(e)' = Info(e)
  BY DEF Info
<1>4. \A e : Kind(e)' = Kind(e) /\ On(e)' = On(e)
  BY <1>1, <1>3 DEF Kind, On
<1>5. Whats' = Whats
  BY DEF Whats, Stamped
<1>6. Tasks' = Tasks
  BY <1>2, <1>5 DEF Tasks
<1>7. Slots' = Slots /\ Strands' = Strands /\ Drains' = Drains
  BY <1>6 DEF Slots, Strands, Drains
<1>8. \A s : TasksOn(s)' = TasksOn(s)
  BY <1>4, <1>6 DEF TasksOn
<1>9. \A x : Sound(x)' = Sound(x)
  BY <1>1, <1>4, <1>6 DEF Sound
<1> QED  BY <1>1, <1>2, <1>4, <1>5, <1>6, <1>7, <1>8, <1>9

LEMMA Apart ==
    /\ \A c \in Tasks : "drain" \notin DOMAIN c
    /\ \A d \in Drains : "drain" \in DOMAIN d
    /\ \A s, c : c = [drain |-> s] => "drain" \in DOMAIN c /\ c.drain = s
    /\ \A c \in Tasks : \A s : c # [drain |-> s]
BY DEF Tasks, Drains

-----------------------------------------------------------------------------
(* Sequences. *)

LEMMA Appended ==
    ASSUME NEW S, NEW s \in Seq(S), NEW x \in S
    PROVE  /\ Append(s, x) \in Seq(S)
           /\ \A i \in DOMAIN Append(s, x) :
                 \/ i \in DOMAIN s /\ Append(s, x)[i] = s[i]
                 \/ i = Len(s) + 1 /\ Append(s, x)[i] = x
           /\ Len(s) + 1 \notin DOMAIN s
OBVIOUS

LEMMA Beheaded ==
    ASSUME NEW S, NEW s \in Seq(S), s # <<>>
    PROVE  /\ Head(s) \in S /\ Tail(s) \in Seq(S)
           /\ Head(s) = s[1] /\ 1 \in DOMAIN s
           /\ \A i \in DOMAIN Tail(s) :
                 /\ i \in Nat \ {0} /\ i + 1 \in DOMAIN s
                 /\ Tail(s)[i] = s[i + 1]
<1>1. Len(s) \in Nat \ {0} /\ Len(Tail(s)) = Len(s) - 1 /\ Tail(s) \in Seq(S)
  OBVIOUS
<1>2. DOMAIN s = 1..Len(s) /\ DOMAIN Tail(s) = 1..(Len(s) - 1)
  BY <1>1
<1>3. \A i \in 1..(Len(s) - 1) : Tail(s)[i] = s[i + 1]
  OBVIOUS
<1> QED  BY <1>1, <1>2, <1>3

-----------------------------------------------------------------------------
(* Posting, and the drains. *)

\* A closure is posted to a scheduler; no thread gets or loses a drain.
Placed(runs, task) ==
    LET after == Posted(runs, task, strand, queue) IN
    strand' = after.strand /\ queue' = after.queue
SameDrains == \A t \in Threads : slot'[t].strand = slot[t].strand

LEMMA NoNewDrain ==
    ASSUME world' = world, DrainInv, SameDrains,
           \A i \in DOMAIN queue' : \A s \in Exclusive :
               queue'[i] = [drain |-> s] =>
                   i \in DOMAIN queue /\ queue[i] = [drain |-> s],
           \A s \in Exclusive : strand[s].scheduled => strand'[s].scheduled
    PROVE  DrainInv'
<1> SUFFICES ASSUME NEW s \in Exclusive
             PROVE
    /\ \A i, j \in DOMAIN queue' :
          queue'[i] = [drain |-> s] /\ queue'[j] = [drain |-> s] => i = j
    /\ \A t, u \in Threads :
          slot'[t].strand = s /\ slot'[u].strand = s => t = u
    /\ \A i \in DOMAIN queue', t \in Threads :
          queue'[i] = [drain |-> s] => slot'[t].strand # s
    /\ ~strand'[s].scheduled =>
          /\ \A i \in DOMAIN queue' : queue'[i] # [drain |-> s]
          /\ \A t \in Threads : slot'[t].strand # s
  BY WorldFixed DEF DrainInv
<1> QED  BY DEF DrainInv, SameDrains

LEMMA PostKeeps ==
    ASSUME world \in Worlds, world' = world, QueueInv, DrainInv, SameDrains,
           NEW e \in Callees, NEW what \in Whats,
           Placed(On(e), Task(e, what))
    PROVE  QueueInv' /\ DrainInv'
<1> DEFINE k == Task(e, what)
           S == TasksOn(Executor) \cup Drains
<1>1. /\ k \in TasksOn(On(e)) /\ k \in Tasks
      /\ \A s : k # [drain |-> s]
  <2>1. k \in Tasks /\ k.to = e
    BY DEF Task, Tasks
  <2> QED  BY <2>1, Apart DEF TasksOn
<1>2. /\ queue \in Seq(S) /\ strand \in [Exclusive -> Strands]
      /\ \A s \in Exclusive : strand[s].q \in Seq(TasksOn(s))
  BY DEF QueueInv
<1>3. On(e) = Executor \/ (On(e) \in Exclusive /\ On(e) # Executor)
  BY Scheduled
<1>4. /\ queue' \in Seq(S) /\ strand' \in [Exclusive -> Strands]
      /\ \A s \in Exclusive : strand'[s].q \in Seq(TasksOn(s))
      => QueueInv'
  BY WorldFixed DEF QueueInv
<1> HIDE DEF k, S
<1>5. CASE On(e) = Executor
  <2>1. strand' = strand /\ queue' = IF open THEN Append(queue, k) ELSE queue
    BY <1>5 DEF Placed, Posted, k
  <2>2. k \in S
    BY <1>1, <1>5 DEF S
  <2>3. /\ queue' \in Seq(S)
        /\ \A i \in DOMAIN queue' :
              \/ queue'[i] = k
              \/ i \in DOMAIN queue /\ queue'[i] = queue[i]
    BY <1>2, <2>1, <2>2, Appended
  <2>4. DrainInv'
    BY <1>1, <2>1, <2>3, NoNewDrain
  <2> QED  BY <1>2, <1>4, <2>1, <2>3, <2>4
<1>6. CASE On(e) \in Exclusive /\ On(e) # Executor
  <2>1. PICK s \in Exclusive : s = On(e)
    BY <1>6
  <2>2. /\ strand' = [strand EXCEPT ![s] = [q |-> Append(@.q, k),
                                            scheduled |-> TRUE]]
        /\ queue' = IF open /\ ~strand[s].scheduled
                    THEN Append(queue, [drain |-> s]) ELSE queue
    BY <1>6, <2>1 DEF Placed, Posted, k
  <2>3. /\ strand[s] \in Strands /\ strand[s].q \in Seq(Tasks)
        /\ strand[s].q \in Seq(TasksOn(s)) /\ k \in TasksOn(s)
    BY <1>1, <1>2, <2>1 DEF Strands
  <2>4. /\ Append(strand[s].q, k) \in Seq(Tasks)
        /\ Append(strand[s].q, k) \in Seq(TasksOn(s))
    BY <1>1, <2>3, Appended
  <2>5. [q |-> Append(strand[s].q, k), scheduled |-> TRUE] \in Strands
    BY <2>4 DEF Strands
  <2>6. /\ strand' \in [Exclusive -> Strands]
        /\ strand'[s].q = Append(strand[s].q, k) /\ strand'[s].scheduled
        /\ \A u \in Exclusive : u # s => strand'[u] = strand[u]
    BY <1>2, <2>2, <2>5
  <2>7. \A u \in Exclusive : strand'[u].q \in Seq(TasksOn(u))
    BY <1>2, <2>4, <2>6
  <2>8. CASE ~(open /\ ~strand[s].scheduled)
    <3>1. queue' = queue
      BY <2>2, <2>8
    <3>2. DrainInv'
      BY <2>6, <3>1, NoNewDrain
    <3> QED  BY <1>2, <1>4, <2>6, <2>7, <3>1, <3>2
  <2>9. CASE open /\ ~strand[s].scheduled
    <3>1. queue' = Append(queue, [drain |-> s]) /\ [drain |-> s] \in S
      BY <2>2, <2>9 DEF S, Drains
    <3>2. /\ queue' \in Seq(S)
          /\ \A i \in DOMAIN queue' :
                \/ i \in DOMAIN queue /\ queue'[i] = queue[i]
                \/ i = Len(queue) + 1 /\ queue'[i] = [drain |-> s]
      BY <1>2, <3>1, Appended
    <3>3. /\ \A i \in DOMAIN queue : queue[i] # [drain |-> s]
          /\ \A t \in Threads : slot[t].strand # s
      BY <2>9 DEF DrainInv
    <3>4. DrainInv'
      <4> SUFFICES ASSUME NEW u \in Exclusive
                   PROVE
          /\ \A i, j \in DOMAIN queue' :
                queue'[i] = [drain |-> u] /\ queue'[j] = [drain |-> u]
                    => i = j
          /\ \A t, v \in Threads :
                slot'[t].strand = u /\ slot'[v].strand = u => t = v
          /\ \A i \in DOMAIN queue', t \in Threads :
                queue'[i] = [drain |-> u] => slot'[t].strand # u
          /\ ~strand'[u].scheduled =>
                /\ \A i \in DOMAIN queue' : queue'[i] # [drain |-> u]
                /\ \A t \in Threads : slot'[t].strand # u
        BY WorldFixed DEF DrainInv
      <4>1. \A t \in Threads : slot'[t].strand = slot[t].strand
        BY DEF SameDrains
      <4>2. CASE u = s
        <5>1. \A i \in DOMAIN queue' :
                 queue'[i] = [drain |-> u] => i = Len(queue) + 1
          BY <3>2, <3>3, <4>2
        <5> QED  BY <2>6, <3>3, <4>1, <4>2, <5>1
      <4>3. CASE u # s
        <5>0. [drain |-> s] # [drain |-> u]
          BY <4>3, Apart
        <5>1. \A i \in DOMAIN queue' : queue'[i] = [drain |-> u] =>
                 i \in DOMAIN queue /\ queue[i] = [drain |-> u]
          BY <3>2, <5>0
        <5> QED  BY <2>6, <4>1, <4>3, <5>1 DEF DrainInv
      <4> QED  BY <4>2, <4>3
    <3> QED  BY <1>4, <2>6, <2>7, <3>2, <3>4
  <2> QED  BY <2>8, <2>9
<1> QED  BY <1>3, <1>5, <1>6

-----------------------------------------------------------------------------
(* What a thread runs. *)

LEMMA SlotKeeps ==
    ASSUME world' = world, SlotInv, NEW t \in Threads, NEW x \in Slots,
           Sound(x), slot' = [slot EXCEPT ![t] = x],
           spin' # "inside" => t # Main /\ spin # "inside"
    PROVE  SlotInv'
<1>1. slot \in [Threads -> Slots] /\ \A u \in Threads : Sound(slot[u])
  BY DEF SlotInv
<1>2. /\ slot' \in [Threads -> Slots] /\ slot'[t] = x
      /\ \A u \in Threads : u # t => slot'[u] = slot[u]
  BY <1>1
<1>3. \A u \in Threads : Sound(slot'[u])
  BY <1>1, <1>2
<1>4. Main \in Threads
  BY DEF Threads
<1>5. spin' # "inside" => slot'[Main] = Idle
  BY <1>2, <1>4 DEF SlotInv
<1>6. Idle' = Idle
  BY DEF Idle
<1> QED  BY <1>2, <1>3, <1>5, <1>6, WorldFixed DEF SlotInv

LEMMA SlotIs ==
    ASSUME SlotInv, NEW t \in Threads
    PROVE  /\ slot \in [Threads -> Slots]
           /\ slot[t] \in Slots /\ Sound(slot[t])
           /\ slot[t] = [at |-> slot[t].at, strand |-> slot[t].strand,
                         task |-> slot[t].task]
           /\ slot[t].strand \in Exclusive \cup {None}
           /\ slot[t].at # "idle" => slot[t] # Idle
           /\ slot[t].at # "idle" /\ t = Main => spin = "inside"
           /\ Idle \in Slots /\ Sound(Idle) /\ Idle.strand = None
<1>1. slot \in [Threads -> Slots] /\ Sound(slot[t])
  BY DEF SlotInv
<1>2. slot[t] \in Slots
  BY <1>1
<1>3. slot[t].at # "idle" => slot[t] # Idle
  BY DEF Idle
<1>4. Idle \in Slots /\ Sound(Idle) /\ Idle.strand = None
  BY DEF Idle, Slots, Sound
<1>5. slot[t].at # "idle" /\ t = Main => spin = "inside"
  BY <1>3 DEF SlotInv
<1> QED  BY <1>1, <1>2, <1>3, <1>4, <1>5 DEF Slots

\* The end of a task.
LEMMA OverKeeps ==
    ASSUME world' = world, SlotInv, NEW t \in Threads, Over(t), spin' = spin,
           slot[t].at \in {"enter", "call", "run"}
    PROVE  /\ SlotInv' /\ SameDrains
           /\ slot'[t].at # "call"
           /\ \A u \in Threads : u # t => slot'[u] = slot[u]
<1> DEFINE x == IF slot[t].strand = None THEN Idle
                ELSE [slot[t] EXCEPT !.at = "pop", !.task = None]
<1>1. /\ slot \in [Threads -> Slots] /\ slot[t] \in Slots
      /\ slot[t] = [at |-> slot[t].at, strand |-> slot[t].strand,
                    task |-> slot[t].task]
      /\ slot[t].strand \in Exclusive \cup {None}
      /\ t = Main => spin = "inside"
      /\ Idle \in Slots /\ Sound(Idle) /\ Idle.strand = None
  BY SlotIs
<1>2. slot' = [slot EXCEPT ![t] = x]
  BY DEF Over
<1>3. CASE slot[t].strand = None
  <2>1. x = Idle
    BY <1>3
  <2> HIDE DEF x
  <2>2. SlotInv'
    BY <1>1, <1>2, <2>1, SlotKeeps
  <2>3. slot'[t] = Idle /\ \A u \in Threads : u # t => slot'[u] = slot[u]
    BY <1>1, <1>2, <2>1
  <2> QED  BY <1>1, <1>3, <2>2, <2>3 DEF SameDrains, Idle
<1>4. CASE slot[t].strand # None
  <2>1. x = [at |-> "pop", strand |-> slot[t].strand, task |-> None]
    BY <1>1, <1>4
  <2>2. x \in Slots /\ Sound(x) /\ x.strand = slot[t].strand /\ x.at = "pop"
    BY <1>1, <1>4, <2>1 DEF Slots, Sound
  <2> HIDE DEF x
  <2>3. SlotInv'
    BY <1>1, <1>2, <2>2, SlotKeeps
  <2>4. slot'[t] = x /\ \A u \in Threads : u # t => slot'[u] = slot[u]
    BY <1>1, <1>2
  <2> QED  BY <2>2, <2>3, <2>4 DEF SameDrains
<1> QED  BY <1>3, <1>4

\* A thread takes the closure at the head of the queue.
LEMMA TakeKeeps ==
    ASSUME world \in Worlds, world' = world, QueueInv, SlotInv, DrainInv,
           NEW t \in Threads, slot[t] = Idle, queue # <<>>,
           slot' = [slot EXCEPT ![t] = Begin(Head(queue))],
           queue' = Tail(queue), strand' = strand,
           spin' # "inside" => t # Main /\ spin # "inside"
    PROVE  /\ QueueInv' /\ SlotInv' /\ DrainInv'
           /\ slot[t].at # "call" /\ slot'[t].at # "call"
           /\ \A u \in Threads : u # t => slot'[u] = slot[u]
<1> DEFINE c == Head(queue)
           x == Begin(c)
           S == TasksOn(Executor) \cup Drains
<1>1. queue \in Seq(S)
  BY DEF QueueInv
<1>2. /\ c \in S /\ Tail(queue) \in Seq(S) /\ c = queue[1]
      /\ 1 \in DOMAIN queue
      /\ \A i \in DOMAIN Tail(queue) :
            /\ i \in Nat \ {0} /\ i + 1 \in DOMAIN queue
            /\ Tail(queue)[i] = queue[i + 1]
  <2> HIDE DEF S
  <2> QED  BY <1>1, Beheaded
<1>3. QueueInv'
  BY <1>2, WorldFixed DEF QueueInv
<1>4. /\ x \in Slots /\ Sound(x) /\ x.at \in {"pop", "enter"}
      /\ \A s \in Exclusive : x.strand = s => c = [drain |-> s]
  <2>1. CASE c \in Drains
    <3>1. c.drain \in Exclusive /\ c = [drain |-> c.drain]
      BY <2>1 DEF Drains
    <3>2. x = [at |-> "pop", strand |-> c.drain, task |-> None]
      BY <2>1, Apart DEF Begin
    <3>3. c.drain # None
      BY <3>1, Scheduled
    <3> QED  BY <3>1, <3>2, <3>3 DEF Slots, Sound
  <2>2. CASE c \in TasksOn(Executor)
    <3>1. c \in Tasks /\ On(c.to) = Executor
      BY <2>2 DEF TasksOn
    <3>2. x = [at |-> "enter", strand |-> None, task |-> c]
      BY <3>1, Apart DEF Begin
    <3>3. None \notin Exclusive
      BY Scheduled
    <3> QED  BY <3>1, <3>2, <3>3 DEF Slots, Sound
  <2> QED  BY <1>2, <2>1, <2>2
<1> HIDE DEF x
<1>5. SlotInv'
  BY <1>4, SlotKeeps DEF x
<1>6. /\ slot'[t] = x /\ \A u \in Threads : u # t => slot'[u] = slot[u]
  BY SlotIs DEF x
<1>7. slot[t].at # "call" /\ slot[t].strand = None
  BY DEF Idle
<1>8. DrainInv'
  <2> SUFFICES ASSUME NEW s \in Exclusive
               PROVE
      /\ \A i, j \in DOMAIN queue' :
            queue'[i] = [drain |-> s] /\ queue'[j] = [drain |-> s] => i = j
      /\ \A u, v \in Threads :
            slot'[u].strand = s /\ slot'[v].strand = s => u = v
      /\ \A i \in DOMAIN queue', u \in Threads :
            queue'[i] = [drain |-> s] => slot'[u].strand # s
      /\ ~strand'[s].scheduled =>
            /\ \A i \in DOMAIN queue' : queue'[i] # [drain |-> s]
            /\ \A u \in Threads : slot'[u].strand # s
    BY WorldFixed DEF DrainInv
  <2>1. /\ \A i, j \in DOMAIN queue :
              queue[i] = [drain |-> s] /\ queue[j] = [drain |-> s] => i = j
        /\ \A u, v \in Threads :
              slot[u].strand = s /\ slot[v].strand = s => u = v
        /\ \A i \in DOMAIN queue, u \in Threads :
              queue[i] = [drain |-> s] => slot[u].strand # s
        /\ ~strand[s].scheduled =>
              /\ \A i \in DOMAIN queue : queue[i] # [drain |-> s]
              /\ \A u \in Threads : slot[u].strand # s
    BY DEF DrainInv
  <2>2. \A i \in DOMAIN queue' : queue'[i] = [drain |-> s] =>
           /\ i + 1 \in DOMAIN queue /\ queue[i + 1] = [drain |-> s]
           /\ c # [drain |-> s]
    <3> SUFFICES ASSUME NEW i \in DOMAIN queue', queue'[i] = [drain |-> s]
                 PROVE  /\ i + 1 \in DOMAIN queue
                        /\ queue[i + 1] = [drain |-> s]
                        /\ c # [drain |-> s]
      OBVIOUS
    <3>1. /\ i \in Nat \ {0} /\ i + 1 \in DOMAIN queue /\ i + 1 # 1
          /\ queue[i + 1] = [drain |-> s]
      BY <1>2
    <3> QED  BY <1>2, <2>1, <3>1
  <2>3. \A i, j \in DOMAIN queue' :
           queue'[i] = [drain |-> s] /\ queue'[j] = [drain |-> s] => i = j
    <3> SUFFICES ASSUME NEW i \in DOMAIN queue', NEW j \in DOMAIN queue',
                        queue'[i] = [drain |-> s], queue'[j] = [drain |-> s]
                 PROVE  i = j
      OBVIOUS
    <3>1. i + 1 = j + 1
      BY <2>1, <2>2
    <3> QED  BY <1>2, <3>1
  <2>4. \A u \in Threads : slot'[u].strand = s =>
           \/ u = t /\ c = [drain |-> s]
           \/ u # t /\ slot[u].strand = s
    BY <1>4, <1>6
  <2>5. c = [drain |-> s] => \A u \in Threads : slot[u].strand # s
    BY <1>2, <2>1
  <2>6. c = [drain |-> s] => strand[s].scheduled
    BY <1>2, <2>1
  <2>7. \A i \in DOMAIN queue', u \in Threads :
            queue'[i] = [drain |-> s] => slot'[u].strand # s
    BY <2>1, <2>2, <2>4
  <2>8. \A u, v \in Threads :
              slot'[u].strand = s /\ slot'[v].strand = s => u = v
    BY <2>1, <2>4, <2>5
  <2>9. ~strand'[s].scheduled =>
            /\ \A i \in DOMAIN queue' : queue'[i] # [drain |-> s]
            /\ \A u \in Threads : slot'[u].strand # s
    BY <2>1, <2>2, <2>4, <2>6
  <2> QED  BY <2>3, <2>7, <2>8, <2>9
<1> QED  BY <1>3, <1>4, <1>5, <1>6, <1>7, <1>8

-----------------------------------------------------------------------------
(* What is counted. *)

Callers(e) == {t \in Threads : slot[t].at = "call" /\ Callee(t) = e}

LEMMA BusyMoves ==
    ASSUME world \in Worlds, world' = world, NEW t \in Threads,
           \A u \in Threads : u # t => slot'[u] = slot[u]
    PROVE  /\ \A e : Busy(e) \in Nat
           /\ slot[t].at # "call" /\ slot'[t].at # "call"
                 => \A e : Busy(e)' = Busy(e)
           /\ /\ slot[t].at # "call" /\ slot'[t].at = "call"
              /\ slot'[t].task = slot[t].task
              => \A e : Busy(e)' = Busy(e) + IF e = Callee(t) THEN 1 ELSE 0
           /\ slot[t].at = "call" /\ slot'[t].at # "call"
                 => \A e : Busy(e)' = Busy(e) - IF e = Callee(t) THEN 1 ELSE 0
<1>1. Threads' = Threads /\ IsFiniteSet(Threads)
  <2>1. IsFiniteSet(world.workers)
    BY WorldAssumption
  <2> QED  BY <2>1, WorldFixed, FS_AddElement DEF Threads
<1>2. \A e : Busy(e) = Cardinality(Callers(e))
  BY DEF Busy, Callers
<1>3. \A e : Busy(e)' = Cardinality(Callers(e)')
  BY DEF Busy, Callers
<1>4. \A e : /\ IsFiniteSet(Callers(e)) /\ Cardinality(Callers(e)) \in Nat
  <2> SUFFICES ASSUME NEW e
               PROVE  /\ IsFiniteSet(Callers(e))
                      /\ Cardinality(Callers(e)) \in Nat
    OBVIOUS
  <2>1. Callers(e) \subseteq Threads
    BY DEF Callers
  <2> QED  BY <1>1, <2>1, FS_Subset, FS_CardinalityType
<1>5. \A e, u : u # t => (u \in Callers(e)' <=> u \in Callers(e))
  BY <1>1 DEF Callers, Callee
<1>6. \A e : t \in Callers(e) <=> slot[t].at = "call" /\ e = Callee(t)
  BY DEF Callers
<1>7. \A e : t \in Callers(e)' <=> slot'[t].at = "call" /\ e = slot'[t].task.to
  BY <1>1 DEF Callers, Callee
<1>8. ASSUME slot[t].at # "call", slot'[t].at # "call", NEW e
      PROVE  Busy(e)' = Busy(e)
  <2>1. Callers(e)' = Callers(e)
    BY <1>5, <1>6, <1>7, <1>8
  <2> QED  BY <1>2, <1>3, <2>1
<1>9. ASSUME slot[t].at # "call", slot'[t].at = "call",
             slot'[t].task = slot[t].task, NEW e
      PROVE  Busy(e)' = Busy(e) + IF e = Callee(t) THEN 1 ELSE 0
  <2>1. CASE e = Callee(t)
    <3>1. t \notin Callers(e) /\ Callers(e)' = Callers(e) \cup {t}
      BY <1>5, <1>6, <1>7, <1>9, <2>1 DEF Callee
    <3> QED  BY <1>2, <1>3, <1>4, <2>1, <3>1, FS_AddElement
  <2>2. CASE e # Callee(t)
    <3>1. Callers(e)' = Callers(e)
      BY <1>5, <1>6, <1>7, <1>9, <2>2 DEF Callee
    <3> QED  BY <1>2, <1>3, <1>4, <2>2, <3>1
  <2> QED  BY <2>1, <2>2
<1>10. ASSUME slot[t].at = "call", slot'[t].at # "call", NEW e
       PROVE  Busy(e)' = Busy(e) - IF e = Callee(t) THEN 1 ELSE 0
  <2>1. CASE e = Callee(t)
    <3>1. t \in Callers(e) /\ Callers(e)' = Callers(e) \ {t}
      BY <1>5, <1>6, <1>7, <1>10, <2>1
    <3> QED  BY <1>2, <1>3, <1>4, <2>1, <3>1, FS_RemoveElement
  <2>2. CASE e # Callee(t)
    <3>1. Callers(e)' = Callers(e)
      BY <1>5, <1>6, <1>7, <1>10, <2>2
    <3> QED  BY <1>2, <1>3, <1>4, <2>2, <3>1
  <2> QED  BY <2>1, <2>2
<1> QED  BY <1>2, <1>4, <1>8, <1>9, <1>10

\* The books of e balance, with so many of its callbacks called at present.
Balanced(e, n) ==
    /\ stats[e].recv + stats[e].decode + stats[e].schema = done[e] + n
    /\ calls[e] + n = stats[e].recv
    /\ stats[e].user <= calls[e]
Subscribed == {e \in Entities : Kind(e) \in {"event", "text"}}

LEMMA CountedIs ==
    /\ Counted <=> \A e \in Subscribed : Balanced(e, Busy(e))
    /\ world' = world =>
          (Counted' <=> \A e \in Subscribed : Balanced(e, Busy(e))')
<1>1. Counted <=> \A e \in Subscribed : Balanced(e, Busy(e))
  BY DEF Counted, Balanced, Subscribed
<1>2. ASSUME world' = world
      PROVE  Counted' <=> \A e \in Subscribed : Balanced(e, Busy(e))'
  BY <1>2, WorldFixed DEF Counted, Balanced, Subscribed
<1> QED  BY <1>1, <1>2

CountTypes == /\ done \in [Callees -> Nat] /\ calls \in [Entities -> Nat]
              /\ stats \in [Entities -> Counters]

\* Nothing that concerns a subscription is counted.
LEMMA NothingCounted ==
    ASSUME world \in Worlds, world' = world, CountInv,
           UNCHANGED <<stats, calls>>,
           done' \in [Callees -> Nat],
           \A e \in Subscribed : done'[e] = done[e],
           NEW t \in Threads, \A u \in Threads : u # t => slot'[u] = slot[u],
           slot[t].at # "call", slot'[t].at # "call"
    PROVE  CountInv'
<1>1. \A e : Busy(e)' = Busy(e)
  BY BusyMoves
<1>2. Counted'
  BY <1>1, CountedIs DEF CountInv, Balanced
<1> QED  BY <1>2, WorldFixed DEF CountInv, Counters

-----------------------------------------------------------------------------
(* The steps of a thread that runs closures. *)

LEMMA MadeKeeps ==
    ASSUME MadeInv, UNCHANGED <<world, todo, made, firing, faults>>
    PROVE  MadeInv'
BY WorldFixed DEF MadeInv

LEMMA QueueKeeps ==
    ASSUME QueueInv, world' = world, UNCHANGED <<strand, queue>>
    PROVE  QueueInv'
BY WorldFixed DEF QueueInv

LEMMA DrainKeeps ==
    ASSUME DrainInv, world' = world, UNCHANGED <<strand, queue>>, SameDrains
    PROVE  DrainInv'
BY NoNewDrain

\* The task that a thread is in.
LEMMA TaskIs ==
    ASSUME IInv, NEW t \in Threads, slot[t].at \in {"enter", "call", "run"}
    PROVE  /\ slot[t].task \in Tasks /\ Callee(t) \in Callees
           /\ Kind(Callee(t)) \in {"event", "text"} => Callee(t) \in Subscribed
           /\ slot[t].at = "run" => Callee(t) \notin Subscribed
           /\ Recovery \notin Subscribed
<1>1. slot[t].task \in Tasks /\ Callee(t) \in Callees
  BY SlotIs DEF IInv, Sound, Callee, Tasks
<1>2. world \in Worlds
  BY DEF IInv, MadeInv
<1>3. Kind(Callee(t)) \in {"event", "text"} => Callee(t) \in Subscribed
  BY DEF Kind, Subscribed
<1>4. slot[t].at = "run" => Callee(t) \notin Subscribed
  <2>1. slot[t].at = "run" =>
           Callee(t) \in Timers \/ Kind(Callee(t)) \in {"service", "client"}
    BY SlotIs DEF IInv, Sound, Callee
  <2> QED  BY <1>2, <2>1, Named DEF Subscribed
<1>5. Recovery \notin Subscribed
  BY <1>2, Named DEF Subscribed
<1> QED  BY <1>1, <1>3, <1>4, <1>5

LEMMA Entered ==
    ASSUME NEW r \in Slots, NEW k
    PROVE  [[r EXCEPT !.at = "enter"] EXCEPT !.task = k]
               = [at |-> "enter", strand |-> r.strand, task |-> k]
<1>1. PICK a, s, c : r = [at |-> a, strand |-> s, task |-> c]
  BY DEF Slots
<1>2. [r EXCEPT !.at = "enter"] = [at |-> "enter", strand |-> s, task |-> c]
  BY <1>1
<1>3. [[at |-> "enter", strand |-> s, task |-> c] EXCEPT !.task = k]
        = [at |-> "enter", strand |-> s, task |-> k]
  OBVIOUS
<1> QED  BY <1>1, <1>2, <1>3

LEMMA PopKeeps ==
    ASSUME IInv, NEW t \in Threads, Pop(t)
    PROVE  IInv'
<1> USE DEF IInv
<1>0. /\ world \in Worlds /\ world' = world /\ spin' = spin
      /\ UNCHANGED <<todo, made, firing, faults, queue, stats, calls, done>>
  BY DEF Pop, Elsewhere, timerVars, countVars, MadeInv
<1>1. MadeInv'
  BY <1>0, MadeKeeps
<1>2. PICK s \in Exclusive : s = slot[t].strand
  BY SlotIs DEF Pop, Sound
<1>3. /\ slot \in [Threads -> Slots] /\ slot[t] \in Slots
      /\ slot[t] = [at |-> slot[t].at, strand |-> s, task |-> slot[t].task]
      /\ slot[t].at = "pop"
      /\ Idle \in Slots /\ Sound(Idle) /\ Idle.strand = None
      /\ spin' # "inside" => t # Main /\ spin # "inside"
  BY <1>0, <1>2, SlotIs DEF Pop
<1>4. /\ strand \in [Exclusive -> Strands] /\ strand[s] \in Strands
      /\ strand[s].q \in Seq(TasksOn(s)) /\ strand[s].q \in Seq(Tasks)
      /\ strand[s].scheduled \in BOOLEAN
  BY DEF QueueInv, Strands
<1>n. None \notin Exclusive /\ s # Executor
  BY <1>0, Scheduled
<1>5. CASE strand[s].q = <<>>
  <2>1. /\ strand' = [strand EXCEPT ![s].scheduled = FALSE]
        /\ slot' = [slot EXCEPT ![t] = Idle]
    BY <1>2, <1>5 DEF Pop
  <2>2. /\ slot'[t] = Idle
        /\ \A u \in Threads : u # t => slot'[u] = slot[u]
    BY <1>3, <2>1
  <2>3. /\ strand' \in [Exclusive -> Strands]
        /\ \A u \in Exclusive : strand'[u].q = strand[u].q
        /\ \A u \in Exclusive : u # s => strand'[u] = strand[u]
    BY <1>4, <2>1 DEF Strands
  <2>4. QueueInv'
    BY <1>0, <2>3, WorldFixed DEF QueueInv
  <2>5. SlotInv'
    BY <1>0, <1>3, <2>1, SlotKeeps
  <2>6. DrainInv'
    <3> SUFFICES ASSUME NEW u \in Exclusive
                 PROVE
        /\ \A i, j \in DOMAIN queue :
              queue[i] = [drain |-> u] /\ queue[j] = [drain |-> u] => i = j
        /\ \A v, w \in Threads :
              slot'[v].strand = u /\ slot'[w].strand = u => v = w
        /\ \A i \in DOMAIN queue, v \in Threads :
              queue[i] = [drain |-> u] => slot'[v].strand # u
        /\ ~strand'[u].scheduled =>
              /\ \A i \in DOMAIN queue : queue[i] # [drain |-> u]
              /\ \A v \in Threads : slot'[v].strand # u
      BY <1>0, WorldFixed DEF DrainInv
    <3>1. \A v \in Threads :
             slot'[v].strand = u => v # t /\ slot[v].strand = u
      BY <1>3, <1>n, <2>2
    <3>2. CASE u # s
      BY <2>3, <3>1, <3>2 DEF DrainInv
    <3>3. CASE u = s
      BY <1>2, <3>1, <3>3 DEF DrainInv
    <3> QED  BY <3>2, <3>3
  <2>7. CountInv'
    <3>1. slot[t].at # "call" /\ slot'[t].at # "call"
      BY <1>3, <2>2 DEF Idle
    <3>2. done' \in [Callees -> Nat]
      BY <1>0 DEF CountInv
    <3> QED  BY <1>0, <2>2, <3>1, <3>2, NothingCounted
  <2> QED  BY <1>1, <2>4, <2>5, <2>6, <2>7
<1>6. CASE strand[s].q # <<>>
  <2> DEFINE k == Head(strand[s].q)
             x == [at |-> "enter", strand |-> s, task |-> k]
  <2>1. /\ strand' = [strand EXCEPT ![s].q = Tail(@)]
        /\ slot' = [slot EXCEPT ![t].at = "enter", ![t].task = k]
    BY <1>2, <1>6 DEF Pop
  <2>2. slot' = [slot EXCEPT ![t] = x]
    <3> HIDE DEF k
    <3>1. [[slot[t] EXCEPT !.at = "enter"] EXCEPT !.task = k] = x
      BY <1>2, <1>3, Entered
    <3>2. slot' = [slot EXCEPT ![t] = [[slot[t] EXCEPT !.at = "enter"]
                                          EXCEPT !.task = k]]
      BY <1>3, <2>1
    <3> QED  BY <3>1, <3>2
  <2>3. /\ k \in TasksOn(s) /\ Tail(strand[s].q) \in Seq(TasksOn(s))
        /\ Tail(strand[s].q) \in Seq(Tasks)
    BY <1>4, <1>6, Beheaded
  <2>4. x \in Slots /\ Sound(x) /\ x.strand = s /\ x.at = "enter"
    BY <1>n, <2>3 DEF Slots, Sound, TasksOn
  <2> HIDE DEF x, k
  <2>5. /\ slot'[t] = x
        /\ \A u \in Threads : u # t => slot'[u] = slot[u]
    BY <1>3, <2>2
  <2>6. /\ strand' \in [Exclusive -> Strands]
        /\ strand'[s].q = Tail(strand[s].q)
        /\ \A u \in Exclusive : strand'[u].scheduled = strand[u].scheduled
        /\ \A u \in Exclusive : u # s => strand'[u] = strand[u]
    BY <1>4, <2>1, <2>3 DEF Strands
  <2>7. QueueInv'
    BY <1>0, <2>3, <2>6, WorldFixed DEF QueueInv
  <2>8. SlotInv'
    BY <1>0, <1>3, <2>2, <2>4, SlotKeeps
  <2>9. DrainInv'
    <3>1. SameDrains
      BY <1>2, <2>4, <2>5 DEF SameDrains
    <3> QED  BY <1>0, <2>6, <3>1, NoNewDrain
  <2>10. CountInv'
    <3>1. slot[t].at # "call" /\ slot'[t].at # "call"
      BY <1>3, <2>4, <2>5
    <3>2. done' \in [Callees -> Nat]
      BY <1>0 DEF CountInv
    <3> QED  BY <1>0, <2>5, <3>1, <3>2, NothingCounted
  <2> QED  BY <1>1, <2>7, <2>8, <2>9, <2>10
<1> QED  BY <1>5, <1>6

\* A thread enters the callback of its task.
LEMMA CallKeeps ==
    ASSUME world' = world, SlotInv, NEW t \in Threads, slot[t].at = "enter",
           NEW a \in {"call", "run"}, slot' = [slot EXCEPT ![t].at = a],
           spin' = spin,
           a = "call" => Kind(Callee(t)) \in {"event", "text"},
           a = "run" => \/ Callee(t) \in Timers
                        \/ Kind(Callee(t)) \in {"service", "client"}
    PROVE  /\ SlotInv' /\ SameDrains
           /\ slot'[t].at = a /\ slot'[t].task = slot[t].task
           /\ \A u \in Threads : u # t => slot'[u] = slot[u]
<1> DEFINE x == [at |-> a, strand |-> slot[t].strand, task |-> slot[t].task]
<1>1. /\ slot \in [Threads -> Slots] /\ slot[t] \in Slots /\ Sound(slot[t])
      /\ spin' # "inside" => t # Main /\ spin # "inside"
  BY SlotIs
<1>2. \A r \in Slots : [r EXCEPT !.at = a]
                          = [at |-> a, strand |-> r.strand, task |-> r.task]
  BY DEF Slots
<1>3. slot' = [slot EXCEPT ![t] = x]
  BY <1>1, <1>2
<1>4. x \in Slots /\ Sound(x)
  BY <1>1 DEF Slots, Sound, Callee
<1>5. x.strand = slot[t].strand /\ x.at = a /\ x.task = slot[t].task
  OBVIOUS
<1> HIDE DEF x
<1>6. SlotInv'
  BY <1>1, <1>3, <1>4, SlotKeeps
<1>7. slot'[t] = x /\ \A u \in Threads : u # t => slot'[u] = slot[u]
  BY <1>1, <1>3
<1> QED  BY <1>5, <1>6, <1>7 DEF SameDrains

LEMMA RunsKeeps ==
    ASSUME IInv, NEW t \in Threads, Runs(t)
    PROVE  IInv'
<1> USE DEF IInv
<1>1. /\ world \in Worlds /\ world' = world /\ spin' = spin
      /\ UNCHANGED <<todo, made, firing, faults, queue, strand, stats, calls,
                     done>>
  BY DEF Runs, Elsewhere, OnlyCounts, timerVars, MadeInv
<1>2. /\ SlotInv' /\ SameDrains /\ slot'[t].at = "run"
      /\ \A u \in Threads : u # t => slot'[u] = slot[u]
  BY <1>1, CallKeeps DEF Runs
<1>3. slot[t].at # "call" /\ done' \in [Callees -> Nat]
  BY <1>1 DEF Runs, CountInv
<1>4. CountInv'
  BY <1>1, <1>2, <1>3, NothingCounted
<1> QED  BY <1>1, <1>2, <1>4, MadeKeeps, QueueKeeps, DrainKeeps

LEMMA ReceivedKeeps ==
    ASSUME IInv, NEW t \in Threads, Received(t)
    PROVE  IInv'
<1> USE DEF IInv
<1>1. /\ world \in Worlds /\ world' = world /\ spin' = spin
      /\ slot[t].at = "enter" /\ Kind(Callee(t)) \in {"event", "text"}
      /\ UNCHANGED <<todo, made, firing, faults, queue, strand, calls, done>>
  BY DEF Received, Entering, Elsewhere, OnlyCounts, timerVars, MadeInv
<1>2. /\ SlotInv' /\ SameDrains /\ slot'[t].at = "call"
      /\ slot'[t].task = slot[t].task
      /\ \A u \in Threads : u # t => slot'[u] = slot[u]
  BY <1>1, CallKeeps DEF Received
<1>3. /\ \A e : Busy(e) \in Nat
      /\ \A e : Busy(e)' = Busy(e) + IF e = Callee(t) THEN 1 ELSE 0
  BY <1>1, <1>2, BusyMoves
<1>4. PICK c \in Subscribed : c = Callee(t)
  BY <1>1, TaskIs
<1>5. c \in Entities /\ Subscribed \subseteq Entities
      /\ Entities \subseteq Callees
  BY <1>1, Scheduled DEF Subscribed
<1>6. /\ done \in [Callees -> Nat] /\ calls \in [Entities -> Nat]
      /\ stats \in [Entities -> Counters]
  BY DEF CountInv
<1>7. stats' = [stats EXCEPT ![c] = [stats[c] EXCEPT !.recv = @ + 1]]
  BY <1>4 DEF Received
<1>8. /\ [stats[c] EXCEPT !.recv = @ + 1] \in Counters
      /\ [stats[c] EXCEPT !.recv = @ + 1]
            = [recv |-> stats[c].recv + 1, decode |-> stats[c].decode,
               schema |-> stats[c].schema, user |-> stats[c].user]
  BY <1>5, <1>6 DEF Counters
<1>9. /\ stats' \in [Entities -> Counters]
      /\ \A e \in Entities : e # c => stats'[e] = stats[e]
      /\ stats'[c] = [recv |-> stats[c].recv + 1, decode |-> stats[c].decode,
                      schema |-> stats[c].schema, user |-> stats[c].user]
  BY <1>5, <1>6, <1>7, <1>8
<1>10. ASSUME NEW e \in Subscribed
       PROVE  Balanced(e, Busy(e))'
  <2>1. Balanced(e, Busy(e))
    BY CountedIs DEF CountInv
  <2>2. /\ stats[e].recv \in Nat /\ stats[e].decode \in Nat
        /\ stats[e].schema \in Nat /\ done[e] \in Nat /\ calls[e] \in Nat
    BY <1>5, <1>6 DEF Counters
  <2>3. CASE e = c
    <3>1. Busy(e)' = Busy(e) + 1 /\ Busy(e) \in Nat
      BY <1>3, <1>4, <2>3
    <3>2. /\ stats'[e].recv = stats[e].recv + 1
          /\ stats'[e].decode = stats[e].decode
          /\ stats'[e].schema = stats[e].schema
          /\ stats'[e].user = stats[e].user
      BY <1>9, <2>3
    <3> QED  BY <1>1, <2>1, <2>2, <3>1, <3>2 DEF Balanced
  <2>4. CASE e # c
    <3>1. Busy(e)' = Busy(e)
      BY <1>3, <1>4, <2>4
    <3>2. stats'[e] = stats[e]
      BY <1>5, <1>9, <2>4
    <3> QED  BY <1>1, <2>1, <3>1, <3>2 DEF Balanced
  <2> QED  BY <2>3, <2>4
<1>11. CountInv'
  BY <1>1, <1>6, <1>9, <1>10, CountedIs, WorldFixed DEF CountInv, Counters
<1> QED  BY <1>1, <1>2, <1>11, MadeKeeps, QueueKeeps, DrainKeeps

LEMMA DroppedKeeps ==
    ASSUME IInv, NEW t \in Threads, Dropped(t)
    PROVE  IInv'
<1> USE DEF IInv
<1>1. /\ world \in Worlds /\ world' = world /\ spin' = spin
      /\ slot[t].at = "enter" /\ Kind(Callee(t)) \in {"event", "text"}
      /\ Over(t) /\ Did(t)
      /\ UNCHANGED <<todo, made, firing, faults, queue, strand, calls>>
  BY DEF Dropped, Entering, Elsewhere, OnlyCounts, timerVars, MadeInv
<1>2. /\ SlotInv' /\ SameDrains /\ slot'[t].at # "call"
      /\ \A u \in Threads : u # t => slot'[u] = slot[u]
  BY <1>1, OverKeeps
<1>3. \A e : Busy(e) \in Nat /\ Busy(e)' = Busy(e)
  BY <1>1, <1>2, BusyMoves
<1>4. PICK c \in Subscribed : c = Callee(t)
  BY <1>1, TaskIs
<1>5. c \in Entities /\ Subscribed \subseteq Entities
      /\ Entities \subseteq Callees
  BY <1>1, Scheduled DEF Subscribed
<1>6. /\ done \in [Callees -> Nat] /\ calls \in [Entities -> Nat]
      /\ stats \in [Entities -> Counters] /\ stats[c] \in Counters
  BY <1>5 DEF CountInv
<1>7. PICK r \in Counters :
         /\ stats' = [stats EXCEPT ![c] = r]
         /\ r.recv = stats[c].recv /\ r.user = stats[c].user
         /\ r.decode + r.schema = stats[c].decode + stats[c].schema + 1
  <2>1. CASE stats' = [stats EXCEPT ![c].decode = @ + 1]
    <3>0. [stats[c] EXCEPT !.decode = @ + 1] \in Counters
      BY <1>6 DEF Counters
    <3>1. PICK r \in Counters : r = [stats[c] EXCEPT !.decode = @ + 1]
      BY <3>0
    <3>2. /\ r.recv = stats[c].recv /\ r.user = stats[c].user
          /\ r.decode = stats[c].decode + 1 /\ r.schema = stats[c].schema
          /\ stats[c].decode \in Nat /\ stats[c].schema \in Nat
      BY <1>6, <3>1 DEF Counters
    <3>3. stats' = [stats EXCEPT ![c] = r]
      BY <2>1, <3>1
    <3>4. r.decode + r.schema = stats[c].decode + stats[c].schema + 1
      BY <3>2
    <3> QED  BY <3>2, <3>3, <3>4
  <2>2. CASE stats' = [stats EXCEPT ![c].schema = @ + 1]
    <3>0. [stats[c] EXCEPT !.schema = @ + 1] \in Counters
      BY <1>6 DEF Counters
    <3>1. PICK r \in Counters : r = [stats[c] EXCEPT !.schema = @ + 1]
      BY <3>0
    <3>2. /\ r.recv = stats[c].recv /\ r.user = stats[c].user
          /\ r.schema = stats[c].schema + 1 /\ r.decode = stats[c].decode
          /\ stats[c].decode \in Nat /\ stats[c].schema \in Nat
      BY <1>6, <3>1 DEF Counters
    <3>3. stats' = [stats EXCEPT ![c] = r]
      BY <2>2, <3>1
    <3>4. r.decode + r.schema = stats[c].decode + stats[c].schema + 1
      BY <3>2
    <3> QED  BY <3>2, <3>3, <3>4
  <2> QED  BY <1>4, <2>1, <2>2 DEF Dropped
<1>8. done' = [done EXCEPT ![c] = @ + 1]
  BY <1>1, <1>4 DEF Did
<1>9. /\ stats' \in [Entities -> Counters] /\ done' \in [Callees -> Nat]
      /\ \A e \in Entities : e # c => stats'[e] = stats[e] /\ done'[e] = done[e]
      /\ stats'[c] = r /\ done'[c] = done[c] + 1
  BY <1>5, <1>6, <1>7, <1>8
<1>10. ASSUME NEW e \in Subscribed
       PROVE  Balanced(e, Busy(e))'
  <2>1. Balanced(e, Busy(e)) /\ Busy(e)' = Busy(e) /\ Busy(e) \in Nat
    BY <1>3, CountedIs DEF CountInv
  <2>2. CASE e = c
    <3>1. /\ stats[e].recv \in Nat /\ stats[e].decode \in Nat
          /\ stats[e].schema \in Nat /\ done[e] \in Nat /\ calls[e] \in Nat
          /\ r.decode \in Nat /\ r.schema \in Nat
      BY <1>5, <1>6 DEF Counters
    <3>2. /\ stats[e].recv + stats[e].decode + stats[e].schema
                 = done[e] + Busy(e)
          /\ calls[e] + Busy(e) = stats[e].recv /\ stats[e].user <= calls[e]
      BY <2>1 DEF Balanced
    <3>3. /\ r.recv + r.decode + r.schema = done[e] + 1 + Busy(e)
          /\ calls[e] + Busy(e) = r.recv /\ r.user <= calls[e]
      BY <1>7, <2>1, <2>2, <3>1, <3>2
    <3> QED  BY <1>1, <1>9, <2>1, <2>2, <3>3 DEF Balanced
  <2>3. CASE e # c
    <3>1. stats'[e] = stats[e] /\ done'[e] = done[e]
      BY <1>5, <1>9, <2>3
    <3> QED  BY <1>1, <2>1, <3>1 DEF Balanced
  <2> QED  BY <2>2, <2>3
<1>11. CountInv'
  BY <1>1, <1>6, <1>9, <1>10, CountedIs, WorldFixed DEF CountInv, Counters
<1> QED  BY <1>1, <1>2, <1>11, MadeKeeps, QueueKeeps, DrainKeeps

LEMMA ReturnsKeeps ==
    ASSUME IInv, NEW t \in Threads, Returns(t)
    PROVE  IInv'
<1> USE DEF IInv
<1>1. /\ world \in Worlds /\ world' = world /\ spin' = spin
      /\ slot[t].at = "call" /\ Kind(Callee(t)) \in {"event", "text"}
      /\ Over(t) /\ Did(t)
      /\ UNCHANGED <<todo, made, firing, faults, queue, strand>>
  BY DEF Returns, Elsewhere, OnlyCounts, timerVars, MadeInv
<1>2. /\ SlotInv' /\ SameDrains /\ slot'[t].at # "call"
      /\ \A u \in Threads : u # t => slot'[u] = slot[u]
  BY <1>1, OverKeeps
<1>3. /\ \A e : Busy(e) \in Nat
      /\ \A e : Busy(e)' = Busy(e) - IF e = Callee(t) THEN 1 ELSE 0
  BY <1>1, <1>2, BusyMoves
<1>4. PICK c \in Subscribed : c = Callee(t)
  BY <1>1, TaskIs
<1>5. c \in Entities /\ Subscribed \subseteq Entities
      /\ Entities \subseteq Callees
  BY <1>1, Scheduled DEF Subscribed
<1>6. /\ done \in [Callees -> Nat] /\ calls \in [Entities -> Nat]
      /\ stats \in [Entities -> Counters] /\ stats[c] \in Counters
  BY <1>5 DEF CountInv
<1>7. PICK r \in Counters :
         /\ stats' = [stats EXCEPT ![c] = r]
         /\ r.recv = stats[c].recv /\ r.decode = stats[c].decode
         /\ r.schema = stats[c].schema
         /\ r.user \in {stats[c].user, stats[c].user + 1}
  <2>1. CASE UNCHANGED stats
    <3>1. stats[c] \in Counters
      BY <1>6 DEF Counters
    <3> QED  BY <1>6, <2>1, <3>1
  <2>2. CASE stats' = [stats EXCEPT ![c].user = @ + 1]
    <3>1. [stats[c] EXCEPT !.user = @ + 1] \in Counters
      BY <1>6 DEF Counters
    <3> QED  BY <1>6, <2>2, <3>1 DEF Counters
  <2> QED  BY <1>4, <2>1, <2>2 DEF Returns
<1>8. done' = [done EXCEPT ![c] = @ + 1] /\ calls' = [calls EXCEPT ![c] = @ + 1]
  BY <1>1, <1>4 DEF Did, Returns
<1>9. /\ stats' \in [Entities -> Counters] /\ done' \in [Callees -> Nat]
      /\ calls' \in [Entities -> Nat]
      /\ \A e \in Entities : e # c => /\ stats'[e] = stats[e]
                                      /\ done'[e] = done[e]
                                      /\ calls'[e] = calls[e]
      /\ stats'[c] = r /\ done'[c] = done[c] + 1 /\ calls'[c] = calls[c] + 1
  BY <1>5, <1>6, <1>7, <1>8
<1>10. ASSUME NEW e \in Subscribed
       PROVE  Balanced(e, Busy(e))'
  <2>1. Balanced(e, Busy(e)) /\ Busy(e) \in Nat
        /\ Busy(e)' = Busy(e) - IF e = c THEN 1 ELSE 0
    BY <1>3, <1>4, CountedIs DEF CountInv
  <2>2. CASE e = c
    <3>1. /\ stats[e].recv \in Nat /\ stats[e].decode \in Nat
          /\ stats[e].schema \in Nat /\ stats[e].user \in Nat
          /\ done[e] \in Nat /\ calls[e] \in Nat
      BY <1>5, <1>6 DEF Counters
    <3>2. /\ stats[e].recv + stats[e].decode + stats[e].schema
                 = done[e] + Busy(e)
          /\ calls[e] + Busy(e) = stats[e].recv /\ stats[e].user <= calls[e]
      BY <2>1 DEF Balanced
    <3>3. Busy(e)' = Busy(e) - 1
      BY <2>1, <2>2
    <3>4. /\ r.recv + r.decode + r.schema = done[e] + 1 + (Busy(e) - 1)
          /\ calls[e] + 1 + (Busy(e) - 1) = r.recv /\ r.user <= calls[e] + 1
      BY <1>7, <2>1, <2>2, <3>1, <3>2
    <3> QED  BY <1>9, <2>2, <3>3, <3>4 DEF Balanced
  <2>3. CASE e # c
    <3>1. /\ stats'[e] = stats[e] /\ done'[e] = done[e] /\ calls'[e] = calls[e]
          /\ Busy(e)' = Busy(e)
      BY <1>5, <1>9, <2>1, <2>3
    <3> QED  BY <2>1, <3>1 DEF Balanced
  <2> QED  BY <2>2, <2>3
<1>11. CountInv'
  BY <1>1, <1>9, <1>10, CountedIs, WorldFixed DEF CountInv, Counters
<1> QED  BY <1>1, <1>2, <1>11, MadeKeeps, QueueKeeps, DrainKeeps

\* The end of a task that no subscription counts.
LEMMA OtherDone ==
    ASSUME IInv, world' = world, NEW t \in Threads, Did(t),
           slot[t].at \in {"enter", "call", "run"},
           Callee(t) \notin Subscribed
    PROVE  /\ done' \in [Callees -> Nat]
           /\ \A e \in Subscribed : done'[e] = done[e]
<1>1. Callee(t) \in Callees
  BY TaskIs
<1>2. done \in [Callees -> Nat] /\ Subscribed \subseteq Callees
  BY Scheduled DEF IInv, CountInv, MadeInv, Subscribed
<1>3. done' = [done EXCEPT ![Callee(t)] = @ + 1]
  BY DEF Did
<1> QED  BY <1>1, <1>2, <1>3

LEMMA DeliverPlaces ==
    ASSUME MadeInv, NEW e \in Entities, NEW what, Deliver(e, what)
    PROVE  Placed(On(e), Task(e, what))
BY DEF MadeInv, Deliver, Placed

LEMMA RanKeeps ==
    ASSUME IInv, NEW t \in Threads, Ran(t)
    PROVE  IInv'
<1> USE DEF IInv
<1>1. /\ world \in Worlds /\ world' = world /\ spin' = spin
      /\ slot[t].at = "run" /\ Over(t) /\ Did(t)
      /\ UNCHANGED <<todo, made, firing, faults, stats, calls>>
  BY DEF Ran, Elsewhere, timerVars, MadeInv
<1>2. /\ SlotInv' /\ SameDrains /\ slot'[t].at # "call"
      /\ \A u \in Threads : u # t => slot'[u] = slot[u]
  BY <1>1, OverKeeps
<1>3. /\ done' \in [Callees -> Nat]
      /\ \A e \in Subscribed : done'[e] = done[e]
  BY <1>1, TaskIs, OtherDone
<1>4. CountInv'
  BY <1>1, <1>2, <1>3, NothingCounted
<1>5. QueueInv' /\ DrainInv'
  <2>1. CASE UNCHANGED <<strand, queue, arrived>>
    BY <1>1, <1>2, <2>1, QueueKeeps, DrainKeeps
  <2>2. CASE \E c \in Clients(Callee(t)) : Deliver(c, None)
    <3>1. PICK c \in Clients(Callee(t)) : Deliver(c, None)
      BY <2>2
    <3>2. c \in Entities /\ c \in Callees /\ None \in Whats
      BY <1>1, Scheduled DEF Clients, Whats
    <3> QED  BY <1>1, <1>2, <3>1, <3>2, DeliverPlaces, PostKeeps
  <2> QED  BY <2>1, <2>2 DEF Ran
<1> QED  BY <1>1, <1>2, <1>4, <1>5, MadeKeeps

LEMMA HandleKeeps ==
    ASSUME IInv, NEW t \in Threads, handle_message(t)
    PROVE  IInv'
<1> USE DEF IInv
<1>1. /\ world \in Worlds /\ world' = world /\ spin' = spin
      /\ slot[t].at = "enter" /\ Callee(t) = Recovery /\ Over(t) /\ Did(t)
      /\ UNCHANGED <<todo, made, firing, faults, strand, queue, stats, calls>>
  BY DEF handle_message, Elsewhere, timerVars, MadeInv
<1>2. /\ SlotInv' /\ SameDrains /\ slot'[t].at # "call"
      /\ \A u \in Threads : u # t => slot'[u] = slot[u]
  BY <1>1, OverKeeps
<1>3. /\ done' \in [Callees -> Nat]
      /\ \A e \in Subscribed : done'[e] = done[e]
  BY <1>1, TaskIs, OtherDone
<1>4. CountInv'
  BY <1>1, <1>2, <1>3, NothingCounted
<1> QED  BY <1>1, <1>2, <1>4, MadeKeeps, QueueKeeps, DrainKeeps

LEMMA WorkerTakesKeeps ==
    ASSUME IInv, NEW t \in Threads, WorkerTakes(t)
    PROVE  IInv'
<1> USE DEF IInv
<1>1. /\ world \in Worlds /\ world' = world /\ spin' = spin /\ strand' = strand
      /\ t # Main /\ slot[t] = Idle /\ queue # <<>>
      /\ slot' = [slot EXCEPT ![t] = Begin(Head(queue))]
      /\ queue' = Tail(queue)
      /\ UNCHANGED <<todo, made, firing, faults, stats, calls, done>>
  BY DEF WorkerTakes, Elsewhere, timerVars, countVars, MadeInv
<1>2. /\ QueueInv' /\ SlotInv' /\ DrainInv'
      /\ slot[t].at # "call" /\ slot'[t].at # "call"
      /\ \A u \in Threads : u # t => slot'[u] = slot[u]
  BY <1>1, TakeKeeps
<1>3. CountInv'
  BY <1>1, <1>2, NothingCounted DEF CountInv
<1> QED  BY <1>1, <1>2, <1>3, MadeKeeps

LEMMA StepKeeps ==
    ASSUME IInv, NEW t \in Threads, Step(t)
    PROVE  IInv'
BY PopKeeps, DroppedKeeps, ReceivedKeeps, ReturnsKeeps, RunsKeeps, RanKeeps,
   HandleKeeps, WorkerTakesKeeps DEF Step

-----------------------------------------------------------------------------
(* Creation, the main loop, and what comes from outside. *)

\* No closure is posted, taken or run.
LEMMA QuietKeeps ==
    ASSUME IInv, UNCHANGED <<world, todo, made, faults, strand, queue, slot,
                             stats, calls, done>>,
           firing' \subseteq DOMAIN world.timers,
           spin' # "inside" => slot[Main] = Idle
    PROVE  IInv'
<1> USE DEF IInv
<1>1. MadeInv'
  BY WorldFixed DEF MadeInv
<1>2. SlotInv'
  BY WorldFixed DEF SlotInv, Idle
<1>3. SameDrains
  BY DEF SameDrains
<1>4. CountInv'
  BY WorldFixed DEF CountInv, Counted, Busy, Callee
<1> QED  BY <1>1, <1>2, <1>3, <1>4, QueueKeeps, DrainKeeps

\* A closure is posted and nothing else happens.
LEMMA PostStepKeeps ==
    ASSUME IInv,
           UNCHANGED <<world, todo, made, spin, slot, stats, calls, done>>,
           firing' \subseteq firing, faults' \in Nat,
           NEW e \in Callees, NEW what \in Whats, Placed(On(e), Task(e, what))
    PROVE  IInv'
<1> USE DEF IInv
<1>1. MadeInv' /\ world \in Worlds
  BY WorldFixed DEF MadeInv
<1>2. SlotInv'
  BY WorldFixed DEF SlotInv, Idle
<1>3. QueueInv' /\ DrainInv'
  BY <1>1, PostKeeps DEF SameDrains
<1>4. CountInv'
  BY WorldFixed DEF CountInv, Counted, Busy, Callee
<1> QED  BY <1>1, <1>2, <1>3, <1>4

LEMMA CreateKeeps ==
    ASSUME IInv, Create
    PROVE  IInv'
<1> USE DEF IInv
<1>1. /\ world \in Worlds /\ world' = world /\ spin' = spin
      /\ UNCHANGED <<firing, faults, strand, queue, slot, stats, calls, done>>
      /\ todo # <<>> /\ todo' = Tail(todo)
  BY DEF Create, MadeInv, loopVars, runVars, countVars
<1> DEFINE R == {world.entities[i] : i \in DOMAIN world.entities}
<1>2. todo \in Seq(R)
  BY DEF MadeInv
<1>3. Head(todo) \in R /\ Tail(todo) \in Seq(R)
  <2> HIDE DEF R
  <2> QED  BY <1>1, <1>2, Beheaded
<1>4. PICK i \in DOMAIN world.entities : Head(todo) = world.entities[i]
  BY <1>3
<1>5. PICK r : r = world.entities[i]
  OBVIOUS
<1>6. /\ r.name \in Entities /\ r.kind \in Kinds /\ r.group \in Groups
      /\ On(r.name) = SchedulerOf(r.group)
  BY <1>1, <1>5, Named
<1> DEFINE x == IF r.kind \in {"service", "client"} THEN Topics(r.opts)
                ELSE None
<1>a. PICK how \in Ways(r.group) : \E where \in RunsOn(r.kind, how, r.opts) :
         made' = [made EXCEPT ![r.name] =
                     [kind |-> r.kind, runs |-> where, topics |-> x]]
  BY <1>4, <1>5 DEF Create
<1> HIDE DEF x
<1>7. PICK where \in RunsOn(r.kind, how, r.opts) :
         made' = [made EXCEPT ![r.name] =
                     [kind |-> r.kind, runs |-> where, topics |-> x]]
  BY <1>a
<1>8. where = On(r.name)
  BY <1>6, Wired
<1>9. /\ DOMAIN made' = Entities
      /\ \A e \in Entities : made'[e] # None => made'[e].runs = On(e)
  BY <1>6, <1>7, <1>8 DEF MadeInv
<1>10. MadeInv'
  BY <1>1, <1>3, <1>9, WorldFixed DEF MadeInv
<1>11. SlotInv'
  BY <1>1, WorldFixed DEF SlotInv, Idle
<1>12. CountInv'
  BY <1>1, WorldFixed DEF CountInv, Counted, Busy, Callee
<1>13. SameDrains
  BY <1>1 DEF SameDrains
<1> QED  BY <1>1, <1>10, <1>11, <1>12, <1>13, QueueKeeps, DrainKeeps

LEMMA SetupKeeps ==
    ASSUME IInv, Setup
    PROVE  IInv'
<1> USE DEF IInv, loopVars, timerVars, runVars, countVars
<1>1. firing \subseteq DOMAIN world.timers
  BY DEF MadeInv
<1>2. spin # "inside" => slot[Main] = Idle
  BY DEF SlotInv
<1>3. CASE install_signal_handlers
  BY <1>1, <1>2, <1>3, QuietKeeps DEF install_signal_handlers
<1>4. CASE start_on
  BY <1>1, <1>2, <1>4, QuietKeeps DEF start_on
<1>5. CASE stop
  BY <1>1, <1>2, <1>5, QuietKeeps DEF stop
<1>6. ASSUME NEW t \in Timers, create_wall_timer(t)
      PROVE  IInv'
  BY <1>1, <1>2, <1>6, QuietKeeps DEF create_wall_timer
<1>7. ASSUME NEW t \in Timers, cancel(t)
      PROVE  IInv'
  BY <1>1, <1>2, <1>7, QuietKeeps DEF cancel
<1> QED  BY <1>3, <1>4, <1>5, <1>6, <1>7, CreateKeeps DEF Setup

LEMMA LoopKeeps ==
    ASSUME IInv, Loop
    PROVE  IInv'
<1> USE DEF IInv, countVars
<1>1. firing \subseteq DOMAIN world.timers /\ faults \in Nat /\ world \in Worlds
  BY DEF MadeInv
<1>2. spin # "inside" => slot[Main] = Idle
  BY DEF SlotInv
<1>3. CASE Turn
  BY <1>1, <1>2, <1>3, QuietKeeps DEF Turn, To, LoopUnchanged, runVars
<1>4. CASE TimersTick
  BY <1>2, <1>4, QuietKeeps DEF TimersTick, To, LoopUnchanged, runVars
<1>5. CASE Dispatch
  <2>1. PICK i \in firing :
           /\ firing' = firing \ {i}
           /\ Placed(Default, Task(world.timers[i].name, None))
    BY <1>5 DEF Dispatch, Placed
  <2>2. /\ world.timers[i].name \in Timers /\ world.timers[i].name \in Callees
        /\ On(world.timers[i].name) = Default
    BY <1>1, <2>1, Named DEF Timers, Callees
  <2>3. None \in Whats /\ firing' \subseteq firing
    BY <2>1 DEF Whats
  <2>4. UNCHANGED <<world, todo, made, spin, slot, stats, calls, done, faults>>
    BY <1>5 DEF Dispatch
  <2> QED  BY <1>1, <2>1, <2>2, <2>3, <2>4, PostStepKeeps
<1>6. CASE SpinOnce
  <2>1. /\ spin = "dispatch" /\ slot[Main] = Idle /\ world' = world
        /\ UNCHANGED <<todo, made, faults, firing, strand, stats, calls, done>>
    BY <1>2, <1>6 DEF SpinOnce, LoopUnchanged
  <2>2. CASE open /\ queue # <<>>
    <3>1. /\ slot' = [slot EXCEPT ![Main] = Begin(Head(queue))]
          /\ queue' = Tail(queue) /\ spin' = "inside" /\ Main \in Threads
      BY <1>6, <2>2 DEF SpinOnce, To, Threads
    <3>2. /\ QueueInv' /\ SlotInv' /\ DrainInv'
          /\ slot[Main].at # "call" /\ slot'[Main].at # "call"
          /\ \A u \in Threads : u # Main => slot'[u] = slot[u]
      BY <1>1, <2>1, <2>2, <3>1, TakeKeeps
    <3>3. CountInv'
      BY <1>1, <2>1, <3>1, <3>2, NothingCounted DEF CountInv
    <3> QED  BY <2>1, <3>2, <3>3, MadeKeeps
  <2>3. CASE ~(open /\ queue # <<>>)
    <3>1. UNCHANGED <<slot, queue>>
      BY <1>6, <2>3 DEF SpinOnce
    <3> QED  BY <1>1, <2>1, <3>1, QuietKeeps
  <2> QED  BY <2>2, <2>3
<1>7. CASE OnceReturns
  BY <1>1, <1>7, QuietKeeps DEF OnceReturns, To, LoopUnchanged, runVars
<1> QED  BY <1>3, <1>4, <1>5, <1>6, <1>7 DEF Loop

LEMMA WorldKeeps ==
    ASSUME IInv, World
    PROVE  IInv'
<1> USE DEF IInv, Outside
<1>1. /\ firing \subseteq DOMAIN world.timers /\ faults \in Nat
      /\ world \in Worlds /\ None \in Whats /\ MadeInv
  BY DEF MadeInv, Whats
<1>2. spin # "inside" => slot[Main] = Idle
  BY DEF SlotInv
<1>3. ASSUME NEW e \in Entities, Deliver(e, None), Outside, LoopKept,
             UNCHANGED faults
      PROVE  IInv'
  <2>1. Placed(On(e), Task(e, None)) /\ e \in Callees
    BY <1>1, <1>3, DeliverPlaces, Scheduled
  <2>2. /\ UNCHANGED <<world, todo, made, spin, slot, stats, calls, done>>
        /\ firing' \subseteq firing /\ faults' \in Nat
    BY <1>1, <1>3 DEF LoopKept, loopVars
  <2> QED  BY <1>1, <2>1, <2>2, PostStepKeeps
<1>4. ASSUME NEW e \in Entities, Arrive(e)
      PROVE  IInv'
  BY <1>3, <1>4 DEF Arrive
<1>5. ASSUME NEW c \in Entities, Request(c)
      PROVE  IInv'
  <2>1. PICK v \in Entities : /\ Deliver(v, None)
                              /\ Outside /\ LoopKept /\ UNCHANGED faults
    BY <1>5 DEF Request
  <2> QED  BY <1>3, <2>1
<1>6. CASE publish_fault
  <2>1. /\ UNCHANGED <<world, todo, made, spin, firing, slot, stats, calls,
                       done>>
        /\ faults' = faults + 1
    BY <1>6 DEF publish_fault, LoopKept, loopVars
  <2>2. faults' \in Nat
    BY <1>1, <2>1
  <2> DEFINE st == Stamped(world.faults[faults + 1])
  <2>3. st \in Whats
    BY <1>1, <2>1, <2>2 DEF Whats
  <2>4. CASE UNCHANGED <<strand, queue, arrived>>
    <3>1. MadeInv'
      BY <2>1, <2>2, WorldFixed DEF MadeInv
    <3>2. SlotInv'
      BY <2>1, WorldFixed DEF SlotInv, Idle
    <3>3. CountInv'
      BY <2>1, WorldFixed DEF CountInv, Counted, Busy, Callee
    <3>4. SameDrains
      BY <2>1 DEF SameDrains
    <3> QED  BY <2>1, <2>4, <3>1, <3>2, <3>3, <3>4, QueueKeeps, DrainKeeps
  <2>5. CASE /\ open /\ queue' = Append(queue, Task(Recovery, st))
             /\ UNCHANGED strand
    <3>1. Recovery \in Callees /\ On(Recovery) = Executor
      BY <1>1, Named, Scheduled
    <3>2. Placed(On(Recovery), Task(Recovery, st))
      BY <2>5, <3>1 DEF Placed, Posted
    <3> HIDE DEF st
    <3> QED  BY <2>1, <2>2, <2>3, <3>1, <3>2, PostStepKeeps
  <2> QED  BY <1>6, <2>4, <2>5 DEF publish_fault, Stamped
<1>7. CASE on_signal
  BY <1>1, <1>2, <1>7, QuietKeeps DEF on_signal, Signalled
<1>8. CASE request_stop
  BY <1>1, <1>2, <1>8, QuietKeeps DEF request_stop, Signalled
<1>9. CASE Pass
  BY <1>1, <1>2, <1>9, QuietKeeps DEF Pass, loopVars
<1>10. CASE StopExecutor
  BY <1>1, <1>2, <1>10, QuietKeeps DEF StopExecutor, loopVars, countVars
<1> QED  BY <1>4, <1>5, <1>6, <1>7, <1>8, <1>9, <1>10 DEF World

-----------------------------------------------------------------------------
(* The theorems. *)

LEMMA Initially == Init => IInv
<1> SUFFICES ASSUME Init  PROVE  IInv
  OBVIOUS
<1>1. MadeInv
  BY WorldAssumption DEF Init, MadeInv
<1>2. QueueInv
  <2>1. /\ queue = <<>>
        /\ strand = [s \in Exclusive |-> [q |-> <<>>, scheduled |-> FALSE]]
    BY DEF Init
  <2>2. \A S : <<>> \in Seq(S)
    OBVIOUS
  <2>3. [q |-> <<>>, scheduled |-> FALSE] \in Strands
    BY <2>2 DEF Strands
  <2>4. \A s \in Exclusive : strand[s].q = <<>>
    BY <2>1
  <2> QED  BY <2>1, <2>2, <2>3, <2>4 DEF QueueInv
<1>3. SlotInv
  BY DEF Init, SlotInv, Slots, Sound, Idle, Threads
<1>4. DrainInv
  BY WorldAssumption DEF Init, DrainInv, Idle
<1>5. CountInv
  <2>1. \A e \in Entities : Busy(e) = 0
    <3> SUFFICES ASSUME NEW e \in Entities  PROVE  Busy(e) = 0
      OBVIOUS
    <3>1. {t \in Threads : slot[t].at = "call" /\ Callee(t) = e} = {}
      BY DEF Init, Idle
    <3> QED  BY <3>1, FS_EmptySet DEF Busy
  <2>2. Entities \subseteq Callees
    BY DEF Callees
  <2> QED  BY <2>1, <2>2 DEF Init, CountInv, Counted, Counters, Zero
<1> QED  BY <1>1, <1>2, <1>3, <1>4, <1>5 DEF IInv

LEMMA Inductive == IInv /\ [Next]_vars => IInv'
<1> SUFFICES ASSUME IInv, [Next]_vars  PROVE  IInv'
  OBVIOUS
<1>1. CASE UNCHANGED vars
  <2>1. firing \subseteq DOMAIN world.timers
    BY DEF IInv, MadeInv
  <2>2. spin # "inside" => slot[Main] = Idle
    BY DEF IInv, SlotInv
  <2> QED  BY <1>1, <2>1, <2>2, QuietKeeps
           DEF vars, loopVars, timerVars, runVars, countVars
<1> QED  BY <1>1, SetupKeeps, LoopKeeps, StepKeeps, WorldKeeps DEF Next

THEOREM Invariance == Spec => []IInv
BY Initially, Inductive, PTL DEF Spec

(* Callbacks of one mutually exclusive group never overlap, though several   *)
(* threads run closures of the executor and any overload may have placed    *)
(* what they belong to: they all run on the one strand of the group, which  *)
(* has one drain at most.                                                  *)
THEOREM OneAtATimeTheorem == Spec => []OneAtATime
<1>1. IInv => OneAtATime
  <2> SUFFICES ASSUME IInv, NEW t1 \in Threads, NEW t2 \in Threads, t1 # t2,
                      Called(t1), Called(t2),
                      GroupOf(Callee(t1)) = GroupOf(Callee(t2)),
                      GroupOf(Callee(t1)) \notin Reentrant
               PROVE  FALSE
    BY DEF OneAtATime
  <2>1. world \in Worlds
    BY DEF IInv, MadeInv
  <2>2. ASSUME NEW t \in {t1, t2}
        PROVE  \/ /\ Callee(t) \in Entities /\ GroupOf(Callee(t)) \in Groups
                  /\ On(Callee(t)) = SchedulerOf(GroupOf(Callee(t)))
               \/ /\ Callee(t) \in Timers /\ GroupOf(Callee(t)) = Default
                  /\ On(Callee(t)) = Default
    <3>1. \/ Kind(Callee(t)) \in {"event", "text", "service", "client"}
          \/ Callee(t) \in Timers
      BY SlotIs DEF IInv, Called, Sound, Callee
    <3>2. CASE Callee(t) \in Timers
      BY <2>1, <3>2, Named DEF GroupOf
    <3>3. CASE Kind(Callee(t)) \in {"event", "text", "service", "client"}
      <4>1. Callee(t) \in Entities
        BY <3>3 DEF Kind
      <4> QED  BY <2>1, <4>1, Named DEF GroupOf
    <3> QED  BY <3>1, <3>2, <3>3
  <2>3. PICK s \in Exclusive : On(Callee(t1)) = s /\ On(Callee(t2)) = s
    BY <2>2, Scheduled, <2>1 DEF Groups, SchedulerOf
  <2>4. slot[t1].strand = s /\ slot[t2].strand = s
    <3>1. \A t \in {t1, t2} : On(Callee(t)) =
              IF slot[t].strand = None THEN Executor ELSE slot[t].strand
      BY SlotIs DEF IInv, Called, Sound, Callee
    <3> QED  BY <2>1, <2>3, <3>1, Scheduled
  <2> QED  BY <2>4 DEF IInv, DrainInv
<1> QED  BY <1>1, Invariance, PTL

(* Every message that a subscription has been run for is counted once, as    *)
(* received or as dropped for one reason, and the user's callback is called *)
(* for those received and for no other, for any number of messages.         *)
THEOREM CountedTheorem == Spec => []Counted
<1>1. IInv => Counted
  BY DEF IInv, CountInv
<1> QED  BY <1>1, Invariance, PTL
-----------------------------------------------------------------------------
(* Timers, whose invariant is apart from the others'. *)

\* The next time of a timer lies on the grid that begins with its creation,
\* behind the period in which it was collected last.
PaceInv ==
    /\ world \in Worlds /\ now \in Nat
    /\ timer \in [Timers -> [enabled : BOOLEAN, next : Int] \cup {None}]
    /\ born \in [Timers -> Nat]
    /\ fires \in [Timers -> Nat] /\ firedIn \in [Timers -> Nat]
    /\ \A t \in Timers :
          /\ timer[t] = None => firedIn[t] = 0
          /\ timer[t] # None /\ Length(t) > 0 =>
                \E k \in Nat : /\ timer[t].next = born[t] + Length(t) * (k + 1)
                               /\ firedIn[t] <= k

\* The quotient and the remainder, and that there is one of each.
LEMMA Divided ==
    ASSUME NEW a \in Nat, NEW d \in Nat \ {0}
    PROVE  /\ a % d \in 0..(d - 1) /\ a \div d \in Nat
           /\ a = d * (a \div d) + (a % d)
OBVIOUS

LEMMA Multiples ==
    ASSUME NEW d \in Nat \ {0}, NEW q \in Nat, NEW p \in Nat, q < p
    PROVE  d * q + d <= d * p
<1>1. PICK e \in Nat : p = q + 1 + e
  <2>1. p - q - 1 \in Nat /\ p = q + 1 + (p - q - 1)
    OBVIOUS
  <2> QED  BY <2>1
<1>2. d * p = d * q + d + d * e
  BY <1>1
<1>3. d * e \in Nat /\ d * q \in Nat
  OBVIOUS
<1> QED  BY <1>2, <1>3

LEMMA Quotient ==
    ASSUME NEW d \in Nat \ {0}, NEW q \in Nat, NEW r \in 0..(d - 1),
           NEW a \in Nat, a = d * q + r
    PROVE  a \div d = q /\ a % d = r
<1>1. PICK p, s : p = a \div d /\ s = a % d
  OBVIOUS
<1>2. p \in Nat /\ s \in 0..(d - 1) /\ a = d * p + s
  BY <1>1, Divided
<1>3. d * p \in Nat /\ d * q \in Nat
  BY <1>2
<1>4. ~(p < q)
  BY <1>2, <1>3, Multiples
<1>5. ~(q < p)
  BY <1>2, <1>3, Multiples
<1>6. p = q
  BY <1>2, <1>4, <1>5
<1> QED  BY <1>1, <1>2, <1>3, <1>6

LEMMA LengthIs ==
    ASSUME world \in Worlds, NEW t \in Timers
    PROVE  Length(t) \in Int
<1> DEFINE R == {world.timers[i] : i \in DOMAIN world.timers}
<1>1. \A r \in R : r.period \in Int
  BY WorldAssumption
<1>2. \E r \in R : r.name = t
  BY DEF Timers
<1>3. (CHOOSE r \in R : r.name = t) \in R
  BY <1>2
<1> QED  BY <1>1, <1>3 DEF Length

\* Where a timer that has expired stands: in period m it is collected, which
\* is later than it was collected before, and its next time is period m + 1.
LEMMA Collected ==
    ASSUME PaceInv, NEW t \in Timers, Expired(t)
    PROVE  /\ Period(t) \in Nat /\ Period(t) > firedIn[t]
           /\ CatchUp(t) = born[t] + Length(t) * (Period(t) + 1)
<1>1. PICK d, b, x : d = Length(t) /\ b = born[t] /\ x = timer[t].next
  OBVIOUS
<1>2. d \in Nat \ {0} /\ b \in Nat /\ now \in Nat /\ now >= x
  BY <1>1, LengthIs DEF PaceInv, Expired
<1>3. PICK k \in Nat : x = b + d * (k + 1) /\ firedIn[t] <= k
  BY <1>1 DEF PaceInv, Expired
<1>4. d * (k + 1) \in Nat
  BY <1>2
<1>5. PICK a : a = now - x
  OBVIOUS
<1>6. a \in Nat
  BY <1>2, <1>3, <1>4, <1>5
<1>7. PICK q, r : q = a \div d /\ r = a % d
  OBVIOUS
<1>8. q \in Nat /\ r \in 0..(d - 1) /\ a = d * q + r
  BY <1>2, <1>6, <1>7, Divided
<1>9. PICK m : m = k + 1 + q
  OBVIOUS
<1>10. m \in Nat /\ d * m = d * (k + 1) + d * q /\ d * q \in Nat
  BY <1>2, <1>8, <1>9
<1>11. PICK n : n = now - b
  OBVIOUS
<1>12. n \in Nat /\ n = d * m + r
  BY <1>2, <1>3, <1>4, <1>5, <1>6, <1>8, <1>10, <1>11
<1>13. n \div d = m
  BY <1>2, <1>8, <1>10, <1>12, Quotient
<1>14. Period(t) = m
  BY <1>1, <1>11, <1>13 DEF Period
<1>15. CatchUp(t) = x + d * (q + 1)
  BY <1>1, <1>5, <1>7 DEF CatchUp
<1>16. d * (m + 1) = d * (k + 1) + d * (q + 1)
  BY <1>2, <1>8, <1>9
<1>17. x + d * (q + 1) = b + d * (m + 1)
  BY <1>2, <1>3, <1>4, <1>8, <1>16
<1>18. firedIn[t] \in Nat
  BY DEF PaceInv
<1> QED  BY <1>1, <1>3, <1>8, <1>9, <1>10, <1>14, <1>15, <1>17, <1>18

\* TimersTick collects those that have expired and moves them on.
LEMMA TickPaces ==
    ASSUME PaceInv, TimersTick
    PROVE  PaceInv' /\ \A t \in Timers : fires'[t] # fires[t] => Expired(t)
<1>1. world' = world /\ now' = now /\ born' = born /\ Timers' = Timers
  BY WorldFixed DEF TimersTick, LoopUnchanged
<1>2. \A t : Length(t)' = Length(t)
  BY <1>1 DEF Length
<1>3. ASSUME NEW t \in Timers, Expired(t)
      PROVE  /\ timer[t] \in [enabled : BOOLEAN, next : Int]
             /\ timer'[t] = [timer[t] EXCEPT !.next = CatchUp(t)]
             /\ firedIn'[t] = Period(t) /\ fires'[t] = fires[t] + 1
  BY <1>3 DEF TimersTick, PaceInv, Expired
<1>4. ASSUME NEW t \in Timers, ~Expired(t)
      PROVE  /\ timer'[t] = timer[t] /\ firedIn'[t] = firedIn[t]
             /\ fires'[t] = fires[t] + 0
  BY <1>4 DEF TimersTick
<1>5. ASSUME NEW t \in Timers, Expired(t)
      PROVE  /\ timer'[t] \in [enabled : BOOLEAN, next : Int]
             /\ timer'[t].next = born[t] + Length(t) * (Period(t) + 1)
             /\ Period(t) \in Nat /\ firedIn'[t] = Period(t)
             /\ timer'[t] # None
  <2>1. /\ Period(t) \in Nat
        /\ CatchUp(t) = born[t] + Length(t) * (Period(t) + 1)
    BY <1>5, Collected
  <2>2. CatchUp(t) \in Int
    BY <2>1, LengthIs DEF PaceInv
  <2>3. PICK y : y = CatchUp(t)
    OBVIOUS
  <2>4. PICK z \in [enabled : BOOLEAN, next : Int] : z = timer[t]
    BY <1>3, <1>5
  <2>5. timer'[t] = [z EXCEPT !.next = y] /\ y \in Int
    BY <1>3, <1>5, <2>2, <2>3, <2>4
  <2>6. /\ timer'[t] \in [enabled : BOOLEAN, next : Int] /\ timer'[t].next = y
    BY <2>5
  <2>7. timer'[t] # None
    BY <2>6, WorldAssumption
  <2> QED  BY <1>3, <1>5, <2>1, <2>3, <2>6, <2>7
<1>6. timer' \in [Timers -> [enabled : BOOLEAN, next : Int] \cup {None}]
  <2>1. \A t \in Timers :
            timer'[t] \in [enabled : BOOLEAN, next : Int] \cup {None}
    BY <1>4, <1>5 DEF PaceInv
  <2>2. timer' = [t \in Timers |-> timer'[t]]
    BY DEF TimersTick
  <2> QED  BY <2>1, <2>2
<1>7. fires' \in [Timers -> Nat] /\ firedIn' \in [Timers -> Nat]
  <2>1. ASSUME NEW t \in Timers  PROVE  fires'[t] \in Nat /\ firedIn'[t] \in Nat
    <3>1. fires[t] \in Nat /\ firedIn[t] \in Nat
      BY DEF PaceInv
    <3>2. CASE Expired(t)
      <4>1. Period(t) \in Nat /\ firedIn'[t] = Period(t)
        BY <1>5, <3>2
      <4>2. fires'[t] = fires[t] + 1
        BY <1>3, <3>2
      <4> QED  BY <3>1, <4>1, <4>2
    <3>3. CASE ~Expired(t)
      BY <1>4, <3>1, <3>3
    <3> QED  BY <3>2, <3>3
  <2>2. fires' = [t \in Timers |-> fires'[t]]
    BY DEF TimersTick
  <2>3. firedIn' = [t \in Timers |-> firedIn'[t]]
    BY DEF TimersTick
  <2> QED  BY <2>1, <2>2, <2>3
<1>8. ASSUME NEW t \in Timers
      PROVE  /\ timer'[t] = None => firedIn'[t] = 0
             /\ timer'[t] # None /\ Length(t) > 0 =>
                   \E k \in Nat :
                      /\ timer'[t].next = born[t] + Length(t) * (k + 1)
                      /\ firedIn'[t] <= k
  <2>1. CASE Expired(t)
    BY <1>5, <2>1
  <2>2. CASE ~Expired(t)
    BY <1>4, <2>2 DEF PaceInv
  <2> QED  BY <2>1, <2>2
<1>9. PaceInv'
  BY <1>1, <1>2, <1>6, <1>7, <1>8 DEF PaceInv
<1>10. \A t \in Timers : fires'[t] # fires[t] => Expired(t)
  BY <1>4 DEF PaceInv
<1> QED  BY <1>9, <1>10

LEMMA CreatePaces ==
    ASSUME PaceInv, NEW t \in Timers, create_wall_timer(t)
    PROVE  PaceInv' /\ fires' = fires
<1>1. /\ world' = world /\ now' = now /\ fires' = fires /\ firedIn' = firedIn
      /\ Timers' = Timers /\ timer[t] = None
      /\ timer' = [timer EXCEPT ![t] = [enabled |-> TRUE,
                                        next |-> now + Length(t)]]
      /\ born' = [born EXCEPT ![t] = now]
  BY WorldFixed DEF create_wall_timer
<1>2. \A u : Length(u)' = Length(u)
  BY <1>1 DEF Length
<1>3. PICK d : d = Length(t)
  OBVIOUS
<1>4. d \in Int /\ now + d = now + d * (0 + 1) /\ now + d \in Int
  BY <1>3, LengthIs DEF PaceInv
<1>5. PICK z : z = [enabled |-> TRUE, next |-> now + d]
  OBVIOUS
<1>6. z \in [enabled : BOOLEAN, next : Int] /\ z.next = now + d * (0 + 1)
  BY <1>4, <1>5
<1>7. timer' = [timer EXCEPT ![t] = z]
  BY <1>1, <1>3, <1>5
<1>8. timer' \in [Timers -> [enabled : BOOLEAN, next : Int] \cup {None}]
  BY <1>6, <1>7 DEF PaceInv
<1>9. born' \in [Timers -> Nat]
  BY <1>1 DEF PaceInv
<1>10. ASSUME NEW u \in Timers
       PROVE  /\ timer'[u] = None => firedIn[u] = 0
              /\ timer'[u] # None /\ Length(u) > 0 =>
                    \E k \in Nat :
                       /\ timer'[u].next = born'[u] + Length(u) * (k + 1)
                       /\ firedIn[u] <= k
  <2>1. CASE u = t
    <3>1. timer'[u] = z /\ born'[u] = now /\ firedIn[u] = 0
      BY <1>1, <1>7, <2>1 DEF PaceInv
    <3> QED  BY <1>3, <1>6, <2>1, <3>1
  <2>2. CASE u # t
    <3>1. timer'[u] = timer[u] /\ born'[u] = born[u]
      BY <1>1, <1>7, <2>2 DEF PaceInv
    <3> QED  BY <3>1 DEF PaceInv
  <2> QED  BY <2>1, <2>2
<1> QED  BY <1>1, <1>2, <1>8, <1>9, <1>10 DEF PaceInv

LEMMA CancelPaces ==
    ASSUME PaceInv, NEW t \in Timers, cancel(t)
    PROVE  PaceInv' /\ fires' = fires
<1>1. /\ world' = world /\ now' = now /\ fires' = fires /\ firedIn' = firedIn
      /\ Timers' = Timers /\ born' = born /\ timer[t] # None
      /\ timer' = [timer EXCEPT ![t].enabled = FALSE]
  BY WorldFixed DEF cancel
<1>2. \A u : Length(u)' = Length(u)
  BY <1>1 DEF Length
<1>3. PICK y \in [enabled : BOOLEAN, next : Int] : y = timer[t]
  BY <1>1 DEF PaceInv
<1>4. PICK z : z = [y EXCEPT !.enabled = FALSE]
  OBVIOUS
<1>5. z \in [enabled : BOOLEAN, next : Int] /\ z.next = y.next
  BY <1>4
<1>6. timer' = [timer EXCEPT ![t] = z]
  BY <1>1, <1>3, <1>4
<1>7. timer' \in [Timers -> [enabled : BOOLEAN, next : Int] \cup {None}]
  BY <1>5, <1>6 DEF PaceInv
<1>8. ASSUME NEW u \in Timers
      PROVE  \/ timer'[u] = timer[u]
             \/ /\ timer'[u] # None /\ timer[u] # None
                /\ timer'[u].next = timer[u].next
  BY <1>1, <1>3, <1>5, <1>6, WorldAssumption DEF PaceInv
<1>9. ASSUME NEW u \in Timers
      PROVE  /\ timer'[u] = None => firedIn[u] = 0
             /\ timer'[u] # None /\ Length(u) > 0 =>
                   \E k \in Nat :
                      /\ timer'[u].next = born[u] + Length(u) * (k + 1)
                      /\ firedIn[u] <= k
  BY <1>8, <1>9 DEF PaceInv
<1> QED  BY <1>1, <1>2, <1>7, <1>9 DEF PaceInv

\* Nothing else touches a timer; the clock goes on by steps.
LEMMA OthersPace ==
    ASSUME PaceInv, [Next]_vars, ~TimersTick,
           \A t \in Timers : ~create_wall_timer(t) /\ ~cancel(t)
    PROVE  PaceInv' /\ fires' = fires
<1>1. UNCHANGED <<world, timerVars>> /\ now' \in {now, now + 1}
  <2>1. CASE Setup
    BY <2>1 DEF Setup, Create, install_signal_handlers, start_on, stop
  <2>2. CASE Loop
    BY <2>2 DEF Loop, Turn, Dispatch, SpinOnce, OnceReturns, LoopUnchanged,
                timerVars
  <2>3. ASSUME NEW t \in Threads, Step(t)
        PROVE  UNCHANGED <<world, timerVars>> /\ now' \in {now, now + 1}
    BY <2>3 DEF Step, WorkerTakes, Pop, Dropped, Received, Returns, Runs, Ran,
                handle_message, Elsewhere
  <2>4. CASE World
    <3>1. publish_fault => UNCHANGED <<world, timerVars, now>>
      BY Zenon DEF publish_fault, Outside, LoopKept
    <3> QED  BY <2>4, <3>1 DEF World, Arrive, Request, on_signal, request_stop,
                               Pass, StopExecutor, Outside, LoopKept, Signalled
  <2>5. CASE UNCHANGED vars
    BY <2>5 DEF vars
  <2> QED  BY <2>1, <2>2, <2>3, <2>4, <2>5 DEF Next
<1>2. /\ Timers' = Timers /\ now' \in Nat /\ fires' = fires /\ timer' = timer
      /\ born' = born /\ firedIn' = firedIn /\ world' = world
  BY <1>1, WorldFixed DEF PaceInv, timerVars
<1>3. \A u : Length(u)' = Length(u)
  BY <1>2 DEF Length
<1> QED  BY <1>2, <1>3 DEF PaceInv

LEMMA Paces ==
    PaceInv /\ [Next]_vars =>
        PaceInv' /\ \A t \in Timers : fires'[t] # fires[t] => Expired(t)
BY TickPaces, CreatePaces, CancelPaces, OthersPace

LEMMA PacesInitially == Init => PaceInv
BY DEF Init, PaceInv

(* A timer fires at most once for each of its periods, never early, however  *)
(* late the loop comes round, and its next time stays on the grid that      *)
(* begins with its creation, for any period and any number of late ticks.   *)
THEOREM PacedTheorem == Spec => Paced
<1> DEFINE Once == \A t \in Timers :
                      fires'[t] # fires[t] => Period(t) > firedIn[t]
           OnGrid == \A t \in Timers : timer[t] # None /\ Length(t) > 0 =>
                        (timer[t].next - born[t]) % Length(t) = 0
<1>1. PaceInv /\ [Next]_vars => PaceInv' /\ [Once]_vars
  BY Paces, Collected
<1>2. PaceInv => OnGrid
  <2> SUFFICES ASSUME PaceInv, NEW t \in Timers, timer[t] # None, Length(t) > 0
               PROVE  (timer[t].next - born[t]) % Length(t) = 0
    OBVIOUS
  <2>1. PICK d, b, x : d = Length(t) /\ b = born[t] /\ x = timer[t].next
    OBVIOUS
  <2>2. PICK k \in Nat : x = b + d * (k + 1)
    BY <2>1 DEF PaceInv
  <2>3. d \in Nat \ {0} /\ b \in Nat /\ d * (k + 1) \in Nat
    BY <2>1, LengthIs DEF PaceInv
  <2>4. PICK n : n = x - b
    OBVIOUS
  <2>5. n \in Nat /\ n = d * (k + 1) + 0 /\ k + 1 \in Nat /\ 0 \in 0..(d - 1)
    BY <2>2, <2>3, <2>4
  <2>6. n % d = 0
    BY <2>3, <2>5, Quotient
  <2> QED  BY <2>1, <2>4, <2>6
<1> HIDE DEF Once, OnGrid
<1>3. Spec => [][Once]_vars /\ []OnGrid
  BY <1>1, <1>2, PacesInitially, PTL DEF Spec
<1> QED  BY <1>3 DEF Paced, Once, OnGrid
=============================================================================
