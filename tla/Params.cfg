CONSTANTS
    t1 = t1
    t2 = t2
    u1 = u1
    u2 = u2
    obs = obs
    Threads = {t1, t2}
    Users = {u1, u2}
    Observers = {obs}
    Keys = {"gain", "id"}
    Desc <- MCDesc
    Inputs <- MCInputs
    Wire <- MCWire
    MaxQueue = 1
    Snapshot = "lines"
    MaxInt = 2
    Worlds <- MCWorlds

SPECIFICATION FairSpec

INVARIANT PublicSettles
INVARIANT DistributedSettles
INVARIANT AnsweredOnce
PROPERTY MessagesAreServed

\* A program that makes no more calls is idle for good.
CHECK_DEADLOCK FALSE
