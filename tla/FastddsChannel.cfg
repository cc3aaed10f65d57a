\* Two handlers and leases, two buffers, two samples.
CONSTANTS
    Handlers = {h1, h2}
    Posted = {h2}
    Leased = Leased
    Buffers = {b1, b2}
    Slots = {s1}
    None = None
    MaxMsgs = 2
    MaxLeased = 1
SPECIFICATION FairSpec

INVARIANT OneOwner
INVARIANT Accounted
INVARIANT Awaited
PROPERTY LeasesReturn
CHECK_DEADLOCK FALSE
