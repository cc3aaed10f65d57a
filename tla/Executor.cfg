CONSTANTS
    w1 = w1
    w2 = w2
    Workers = {w1, w2}
    Clients = {c1, c2}
    Tasks = {k1, k2, k3}
    None = None
    Configs <- MCConfigs
    MaxLives = 2

SPECIFICATION FairSpec

INVARIANT StopDrains
PROPERTY ImplementsService
PROPERTY CallsReturn
PROPERTY AcceptedRuns

\* A program may stop its executor for good and have nothing left to post.
CHECK_DEADLOCK FALSE
