----------------------------- MODULE ShmChannel -----------------------------
(***************************************************************************)
(* wxz::core::ShmChannel (src/shm_channel.cpp): a ring of slots in a shared *)
(* memory object and a named semaphore that counts its messages, between a  *)
(* process that publishes and one that subscribes ("SPSC",                  *)
(* shm_channel.h:18).  One of the two creates the objects, the other        *)
(* attaches.  Either may close its channel, or crash, and open it again.    *)
(*                                                                         *)
(* Each access to the shared memory is a step, and so is each system call.  *)
(* Memory is sequentially consistent.  A name refers to an object or to     *)
(* None (0); an object outlives its name while a process has it open.  A    *)
(* message is its number, of which the size and the payload are two copies  *)
(* that are written and read apart.                                        *)
(***************************************************************************)
EXTENDS Naturals, Sequences

CONSTANTS Writer, Reader, \* the processes
          Capacity,       \* hdr_->capacity
          Width,          \* head and tail are counted modulo this (2^32)
          MaxMsgs,        \* bound: how many messages a region is sent
          MaxOpens,       \* bound: how often a channel is constructed
          MaxCrashes,     \* bound: how often a process crashes
          MaxStarts       \* bound: how often the worker is started

Procs == {Writer, Reader}
None == 0
Slots == 0..(Capacity - 1)

ASSUME ShmAssumption ==
    /\ Writer # Reader
    /\ \E k \in 0..31 : Capacity = 2 ^ k /\ \E j \in (k + 1)..32 : Width = 2 ^ j
    /\ Capacity \in Nat \ {0} /\ Width \in Nat  \* and, as that implies,
    /\ 2 * Capacity <= Width /\ Width % Capacity = 0
    /\ {MaxMsgs, MaxOpens, MaxCrashes, MaxStarts} \subseteq Nat

VARIABLES creator,  \* the process that constructs its channel with create
          names,    \* the objects that the two names refer to
          regions,  \* the shared memory objects: the header and the slots
          sems,     \* the values of the semaphores
          proc,     \* where each process is, and the two objects it has open
          head,     \* the head that publish() has read
          running, handlers, \* running_ of the reader, handlers_ # {}
          worker,   \* where worker_ is, and what it has read
          hist,     \* per region: what happened to it (nothing reads this)
          count     \* what the bounds bound

ring == <<regions, sems>>
api == <<running, handlers, worker>>
fixed == <<creator, names, count>>
vars == <<fixed, ring, proc, head, api, hist>>

Closed == [at |-> "closed", map |-> None, sid |-> None]
NoWorker == [at |-> "off", tail |-> 0, size |-> 0, copied |-> FALSE]
NewRegion == [head |-> 0, tail |-> 0, magic |-> FALSE,
              size |-> [i \in Slots |-> 0], data |-> [i \in Slots |-> 0]]

\* The semaphore that belongs to the region, once it is set up; the number of
\* messages sent; what was delivered; the tokens that went down with a crash; and
\* whether a process used the region while it was set up again, after that was
\* cut short, or one of the two objects without the other: the constructor opens
\* the two names one after the other.
NewHist == [sem |-> None, sent |-> 0, got |-> <<>>, lost |-> 0,
            disturbed |-> FALSE]

Init == /\ creator \in Procs
        /\ names = [shm |-> None, sem |-> None]
        /\ regions = <<>> /\ sems = <<>> /\ hist = <<>>
        /\ proc = [p \in Procs |-> Closed]
        /\ head = 0
        /\ running = FALSE /\ handlers = FALSE /\ worker = NoWorker
        /\ count = [opens |-> 0, crashes |-> 0, starts |-> 0]

At(p, place) == proc[p].at = place
Goto(p, place) == proc' = [proc EXCEPT ![p].at = place]

\* Adds one to a counter that has not reached its bound.
Counted(c, bound) == count[c] < bound /\ count' = [count EXCEPT ![c] = @ + 1]

-----------------------------------------------------------------------------
(* The constructor with create: shm_open and ftruncate, sem_unlink,         *)
(* sem_open, and the header.  A region that a crash left behind keeps its   *)
(* contents until then, magic included.                                    *)

ShmCreate(p) ==
    /\ p = creator /\ At(p, "closed") /\ Counted("opens", MaxOpens)
    /\ IF names.shm = None
       THEN /\ regions' = Append(regions, NewRegion)
            /\ hist' = Append(hist, NewHist)
            /\ names' = [names EXCEPT !.shm = Len(regions')]
       ELSE UNCHANGED <<regions, hist, names>>
    /\ proc' = [proc EXCEPT ![p].at = "sem_unlink", ![p].map = names'.shm]
    /\ UNCHANGED <<creator, sems, head, api>>

SemUnlink(p) ==
    /\ At(p, "sem_unlink") /\ Goto(p, "sem_create")
    /\ names' = [names EXCEPT !.sem = None]
    /\ UNCHANGED <<creator, count, ring, head, api, hist>>

SemCreate(p) ==
    /\ At(p, "sem_create")
    /\ sems' = Append(sems, 0)
    /\ names' = [names EXCEPT !.sem = Len(sems')]
    /\ proc' = [proc EXCEPT ![p].at = "reset_head", ![p].sid = names'.sem]
    /\ UNCHANGED <<creator, count, regions, head, api, hist>>

\* Whether the other process uses the region, with its header in place, or
\* the semaphore with another region.
InUse(p) == \E q \in Procs \ {p} :
                \/ proc[q].map = proc[p].map /\ regions[proc[p].map].magic
                \/ proc[q].map # proc[p].map /\ proc[q].sid = proc[p].sid

ResetHead(p) == LET g == proc[p].map IN
    /\ At(p, "reset_head") /\ Goto(p, "reset_tail")
    /\ regions' = [regions EXCEPT ![g].head = 0]
    /\ hist' = [hist EXCEPT ![g] = [NewHist EXCEPT !.disturbed = InUse(p)]]
    /\ UNCHANGED <<fixed, sems, head, api>>

ResetTail(p) == LET g == proc[p].map IN
    /\ At(p, "reset_tail") /\ Goto(p, "open")
    /\ regions' = [regions EXCEPT ![g].tail = 0, ![g].magic = TRUE]
    /\ hist' = [hist EXCEPT ![g].sem = proc[p].sid,
                            ![g].disturbed = @ \/ InUse(p)]
    /\ UNCHANGED <<fixed, sems, head, api>>

-----------------------------------------------------------------------------
(* The constructor without create: it throws when there is no object or no  *)
(* magic.                                                                  *)

ShmAttach(p) ==
    /\ p # creator /\ At(p, "closed") /\ names.shm # None
    /\ Counted("opens", MaxOpens)
    /\ proc' = [proc EXCEPT ![p].at = "sem_open", ![p].map = names.shm]
    /\ UNCHANGED <<creator, names, ring, head, api, hist>>

SemAttach(p) ==
    /\ At(p, "sem_open") /\ names.sem # None
    /\ proc' = [proc EXCEPT ![p].at = "magic", ![p].sid = names.sem]
    /\ UNCHANGED <<fixed, ring, head, api, hist>>

CheckMagic(p) ==
    /\ At(p, "magic") /\ regions[proc[p].map].magic
    /\ Goto(p, "open")
    /\ hist' = [g \in DOMAIN hist |-> [hist[g] EXCEPT !.disturbed =
                    @ \/ (proc[p].map = g) # (proc[p].sid = hist[g].sem)]]
    /\ UNCHANGED <<fixed, ring, head, api>>

Throws(p) == \/ At(p, "sem_open") /\ names.sem = None
             \/ At(p, "magic") /\ ~regions[proc[p].map].magic

AttachFails(p) == /\ Throws(p)
                  /\ proc' = [proc EXCEPT ![p] = Closed]
                  /\ UNCHANGED <<fixed, ring, head, api, hist>>

-----------------------------------------------------------------------------
(* publish().  A local variable that has gone out of scope is 0.            *)

Mine == proc[Writer].map
Cell == head % Capacity

PublishLoad ==
    /\ At(Writer, "open") /\ hist[Mine].sent < MaxMsgs
    /\ Goto(Writer, "check")
    /\ head' = regions[Mine].head
    /\ UNCHANGED <<fixed, ring, api, hist>>

\* Mutation: the ring is full at one message more than it has slots.
Bug_Full(tail) == (head + Width - tail) % Width > Capacity

Full(tail) == (head + Width - tail) % Width >= Capacity

PublishFull ==
    /\ At(Writer, "check") /\ Full(regions[Mine].tail)
    /\ Goto(Writer, "open")
    /\ head' = 0
    /\ UNCHANGED <<fixed, ring, api, hist>>

PublishPayload ==
    /\ At(Writer, "check") /\ ~Full(regions[Mine].tail)
    /\ Goto(Writer, "size")
    /\ regions' = [regions EXCEPT ![Mine].data[Cell] = hist[Mine].sent + 1]
    /\ UNCHANGED <<fixed, sems, head, api, hist>>

PublishSize ==
    /\ At(Writer, "size") /\ Goto(Writer, "store")
    /\ regions' = [regions EXCEPT ![Mine].size[Cell] = hist[Mine].sent + 1]
    /\ UNCHANGED <<fixed, sems, head, api, hist>>

PublishHead ==
    /\ At(Writer, "store") /\ Goto(Writer, "post")
    /\ regions' = [regions EXCEPT ![Mine].head = (head + 1) % Width]
    /\ hist' = [hist EXCEPT ![Mine].sent = @ + 1]
    /\ head' = 0
    /\ UNCHANGED <<fixed, sems, api>>

Post(p) == sems' = [sems EXCEPT ![proc[p].sid] = @ + 1]

\* Mutation: the semaphore is posted only for a message that is alone.
Bug_PublishPost ==
    /\ At(Writer, "post") /\ Goto(Writer, "open")
    /\ IF regions[Mine].head = (regions[Mine].tail + 1) % Width
       THEN Post(Writer) ELSE UNCHANGED sems
    /\ UNCHANGED <<fixed, regions, head, api, hist>>

PublishPost == /\ At(Writer, "post") /\ Goto(Writer, "open")
               /\ Post(Writer)
               /\ UNCHANGED <<fixed, regions, head, api, hist>>

Publish == \/ PublishFull \/ PublishPayload \/ PublishSize \/ PublishHead
           \/ PublishPost

-----------------------------------------------------------------------------
(* subscribe_scoped(), the token it returns, and stop(), in the reader.     *)

Subscribe ==
    /\ At(Reader, "open")
    /\ handlers' = TRUE /\ running' = TRUE
    /\ IF running THEN UNCHANGED <<worker, count>>
       ELSE /\ Counted("starts", MaxStarts)
            /\ worker' = [NoWorker EXCEPT !.at = "loop"]
    /\ UNCHANGED <<creator, names, ring, proc, head, hist>>

Reset == /\ At(Reader, "open") /\ handlers
         /\ handlers' = FALSE
         /\ UNCHANGED <<fixed, ring, proc, head, running, worker, hist>>

StopFlag == /\ At(Reader, "open") /\ running
            /\ Goto(Reader, "stop_post")
            /\ running' = FALSE
            /\ UNCHANGED <<fixed, ring, head, handlers, worker, hist>>

StopPost == /\ At(Reader, "stop_post") /\ Goto(Reader, "join")
            /\ Post(Reader)
            /\ UNCHANGED <<fixed, regions, head, api, hist>>

StopJoin == /\ At(Reader, "join") /\ worker.at = "off"
            /\ Goto(Reader, "open")
            /\ handlers' = FALSE
            /\ UNCHANGED <<fixed, ring, head, running, worker, hist>>

-----------------------------------------------------------------------------
(* dispatch_loop() in the reader.  sem_timedwait() does not time out while  *)
(* the semaphore has a value.                                              *)

Source == proc[Reader].map
Token == sems[proc[Reader].sid]

Step(from, to) == worker.at = from /\ worker' = [worker EXCEPT !.at = to]
WorkerOnly == UNCHANGED <<fixed, ring, proc, head, running, handlers, hist>>

LoopTest == Step("loop", IF running THEN "wait" ELSE "off") /\ WorkerOnly

WaitToken ==
    /\ Step("wait", "tail") /\ Token > 0
    /\ sems' = [sems EXCEPT ![proc[Reader].sid] = @ - 1]
    /\ UNCHANGED <<fixed, regions, proc, head, running, handlers, hist>>

\* Mutation: a wait that fails ends the loop.
Bug_WaitTimeout == Step("wait", "off") /\ Token = 0 /\ WorkerOnly

WaitTimeout == Step("wait", "loop") /\ Token = 0 /\ WorkerOnly

LoadTail == /\ worker.at = "tail"
            /\ worker' = [worker EXCEPT !.at = "head",
                                        !.tail = regions[Source].tail]
            /\ WorkerOnly

LoadHead == /\ worker.at = "head"
            /\ worker' = IF regions[Source].head = worker.tail
                         THEN [NoWorker EXCEPT !.at = "loop"]
                         ELSE [worker EXCEPT !.at = "size"]
            /\ WorkerOnly

Front == worker.tail % Capacity

LoadSize == /\ worker.at = "size"
            /\ worker' = [worker EXCEPT !.at = "copy",
                                        !.size = regions[Source].size[Front]]
            /\ WorkerOnly

CopyHandlers ==
    /\ worker.at = "copy"
    /\ worker' = [worker EXCEPT !.at = "deliver", !.copied = handlers]
    /\ WorkerOnly

\* The handlers that were copied read the payload where it is, in the slot.
Deliver ==
    /\ Step("deliver", "store")
    /\ hist' = [hist EXCEPT ![Source].got =
                    Append(@, [size |-> worker.size,
                               data |-> regions[Source].data[Front]])]
    /\ UNCHANGED <<fixed, ring, proc, head, running, handlers>>

StoreTail ==
    /\ worker.at = "store"
    /\ worker' = [NoWorker EXCEPT !.at = "loop"]
    /\ regions' = [regions EXCEPT ![Source].tail = (worker.tail + 1) % Width]
    /\ UNCHANGED <<fixed, sems, proc, head, running, handlers, hist>>

Worker == \/ LoopTest \/ WaitToken \/ WaitTimeout \/ LoadTail \/ LoadHead
          \/ LoadSize \/ CopyHandlers \/ Deliver \/ StoreTail

-----------------------------------------------------------------------------
(* The destructor, once its stop() is through, and a crash.                 *)

Close(p) ==
    /\ At(p, "open")
    /\ p = Writer \/ ~running
    /\ proc' = [proc EXCEPT ![p] = [Closed EXCEPT !.at =
                    IF p = creator THEN "unlink" ELSE "closed"]]
    /\ UNCHANGED <<fixed, ring, head, api, hist>>

Unlink(p) ==
    /\ \/ At(p, "unlink") /\ Goto(p, "unlink_sem")
          /\ names' = [names EXCEPT !.shm = None]
       \/ At(p, "unlink_sem") /\ Goto(p, "closed")
          /\ names' = [names EXCEPT !.sem = None]
    /\ UNCHANGED <<creator, count, ring, head, api, hist>>

\* Whether the worker has taken a token and not yet the message.
Holds == {"tail", "head", "size", "copy", "deliver", "store"}
Holding == worker.at \in Holds

Crash(p) ==
    /\ ~At(p, "closed") /\ Counted("crashes", MaxCrashes)
    /\ proc' = [proc EXCEPT ![p] = Closed]
    /\ hist' = IF At(p, "post") \/ (p = Reader /\ Holding)
               THEN [hist EXCEPT ![proc[p].map].lost = @ + 1]
               ELSE hist
    /\ IF p = Reader
       THEN running' = FALSE /\ handlers' = FALSE /\ worker' = NoWorker
            /\ UNCHANGED head
       ELSE head' = 0 /\ UNCHANGED api
    /\ UNCHANGED <<creator, names, ring>>

-----------------------------------------------------------------------------
Construct(p) == \/ ShmCreate(p) \/ SemUnlink(p) \/ SemCreate(p)
                \/ ResetHead(p) \/ ResetTail(p)
                \/ ShmAttach(p) \/ SemAttach(p) \/ CheckMagic(p)
                \/ AttachFails(p)

\* A behaviour is not followed beyond a disturbance: nothing is claimed of it.
Undisturbed == \A g \in DOMAIN hist : ~hist[g].disturbed

Next == /\ Undisturbed
        /\ \/ \E p \in Procs : Construct(p) \/ Close(p) \/ Unlink(p) \/ Crash(p)
           \/ PublishLoad \/ Publish
           \/ Subscribe \/ Reset \/ StopFlag \/ StopPost \/ StopJoin
           \/ Worker

Spec == Init /\ [][Next]_vars

\* Threads run: publish(), the worker and its wait of 50 ms go on.  Nobody has
\* to open, to subscribe or to publish.
FairSpec == Spec /\ WF_vars(Publish) /\ WF_vars(Worker)

-----------------------------------------------------------------------------
(* Properties *)

Regions == DOMAIN regions
Counts == 0..(Width - 1)

Out == {"closed", "unlink", "unlink_sem"}
Creating == {"sem_unlink", "sem_create", "reset_head", "reset_tail"}
Attaching == {"sem_open", "magic"}
Publishing == {"check", "size", "store", "post"}
Stopping == {"stop_post", "join"}
Places == Out \cup Creating \cup Attaching \cup {"open"}
          \cup Publishing \cup Stopping

RegionType == [head : Counts, tail : Counts, magic : BOOLEAN,
               size : [Slots -> Nat], data : [Slots -> Nat]]
HistType == [sem : Nat, sent : Nat, got : Seq([size : Nat, data : Nat]),
             lost : Nat, disturbed : BOOLEAN]
ProcType == [at : Places, map : Nat, sid : Nat]
WorkerType == [at : {"off", "loop", "wait"} \cup Holds, tail : Counts,
               size : Nat, copied : BOOLEAN]

MemoryTyped ==
    /\ names \in [shm : {None} \cup Regions, sem : {None} \cup DOMAIN sems]
    /\ regions \in Seq(RegionType) /\ sems \in Seq(Nat)
    /\ hist \in Seq(HistType) /\ Len(hist) = Len(regions)
    /\ \A g \in Regions : hist[g].sem \in {None} \cup DOMAIN sems

\* A process has a region and a semaphore open exactly where the code says so.
HasObjects(x) ==
    /\ IF x.at \in Out THEN x.map = None ELSE x.map \in Regions
    /\ IF x.at \in Out \cup {"sem_open", "sem_unlink", "sem_create"}
       THEN x.sid = None ELSE x.sid \in DOMAIN sems

ProcTyped == /\ proc \in [Procs -> ProcType]
             /\ \A p \in Procs : HasObjects(proc[p])

\* There is a worker only in an open channel.
ApiTyped ==
    /\ running \in BOOLEAN /\ handlers \in BOOLEAN /\ worker \in WorkerType
    /\ running => At(Reader, "open")
    /\ worker.at # "off" => proc[Reader].at \in {"open", "stop_post", "join"}

TypeOK ==
    /\ creator \in Procs /\ MemoryTyped /\ ProcTyped /\ ApiTyped
    /\ head \in Counts
    /\ count \in [opens : Nat, crashes : Nat, starts : Nat]

Unread(g) == (regions[g].head + Width - regions[g].tail) % Width

One(b) == IF b THEN 1 ELSE 0

(* "The writer posts the semaphore once for each message"                   *)
(* (shm_channel.h:19): every message in the ring has a token, in the        *)
(* semaphore, about to be posted by publish() or in the worker's hands,     *)
(* but for as many as went down with a process.  A crash strands at most    *)
(* one message, and that one until the next is published.  The tokens of    *)
(* stop() and of messages taken with another's token are over and above.    *)
TokensCover ==
    \A g \in Regions :
        hist[g].disturbed \/ hist[g].sem = None \/
        Unread(g) <= sems[hist[g].sem]
                     + One(proc[Writer].map = g /\ At(Writer, "post"))
                     + One(proc[Reader].map = g /\ Holding)
                     + hist[g].lost

(* The handlers get the messages whole, in order, and none is passed over,  *)
(* through the wrap of head and tail, a full ring, stop() and start, and    *)
(* the crash and return of either process.  Only a message whose delivery   *)
(* a crash cut short comes again.                                          *)
WholeInOrder ==
    \A g \in Regions : LET got == hist[g].got IN
        hist[g].disturbed \/
        \A i \in DOMAIN got :
            LET prev == IF i = 1 THEN 0 ELSE got[i - 1].data
            IN  /\ got[i].size = got[i].data
                /\ got[i].data \in 1..hist[g].sent
                /\ \/ got[i].data = prev + 1
                   \/ got[i].data = prev /\ hist[g].lost > 0

(* What publish() has accepted is delivered, as long as the reader has its  *)
(* worker running and no token went down with a process.                    *)
AcceptedIsDelivered ==
    \A n \in 1..MaxMsgs :
        (running /\ hist[Source].sent >= n)
        ~> \/ ~running
           \/ hist[Source].disturbed \/ hist[Source].lost > 0
           \/ \E i \in DOMAIN hist[Source].got : hist[Source].got[i].data = n
=============================================================================
