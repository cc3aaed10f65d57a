CONSTANTS
    Workers = {w1, w2}
    Clients = {c1, c2}
    Tasks = {k1, k2, k3, k4}
    None = None

SPECIFICATION FairSpec

INVARIANT OneDrain
INVARIANT StopIsFinal
INVARIANT NestedNeverSchedules
PROPERTY ImplementsSerial
PROPERTY AcceptedRuns

\* A strand whose clients have nothing left to post is idle for good.
CHECK_DEADLOCK FALSE
