CONSTANTS
    w1 = w1
    g0 = g0
    g1 = g1
    g2 = g2
    Main = Main
    None = None
    Null = Null
    Executor = Executor
    Default = g0
    Exclusive = {g0, g1}
    Reentrant = {g2}
    Worlds <- MCWorlds
    MaxTime = 3
    MaxMsgs = 2

SPECIFICATION FairSpec

INVARIANT OneAtATime
INVARIANT Counted
PROPERTY Paced
PROPERTY Settles

\* A node that has left its loop may have nothing more to do.
CHECK_DEADLOCK FALSE
