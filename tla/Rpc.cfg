CONSTANTS
    a = a
    b = b
    ta = ta
    tb = tb
    Clients = {a}
    Callers = {ta, tb}
    ClientOf <- OneClient
    Prefix <- OwnPrefix
    MaxCalls = 2
    Worlds <- MCWorlds

SPECIFICATION FairSpec

INVARIANT FulfilledOnce
INVARIANT NothingLeaks
INVARIANT AnswerIsMine
INVARIANT CountedAreAwaited
PROPERTY StopReleases

\* A program whose calls have all returned is idle for good.
CHECK_DEADLOCK FALSE
