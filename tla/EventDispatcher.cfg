CONSTANTS
    io1 = io1
    cpu1 = cpu1
    Producers = {p1}
    Runners = {io1, cpu1}
    Loop = loop
    PoolOf <- MCPoolOf
    Events = {1, 2, 3, 4}
    Null = Null
    Configs <- MCConfigs

SPECIFICATION DispatcherFairSpec

INVARIANT OnePlace
INVARIANT RetriesBounded
PROPERTY StopsReturn
PROPERTY EventsSettle

\* Blocking pools and a blocking queue may wait for each other.
CHECK_DEADLOCK FALSE
