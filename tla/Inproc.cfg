\* One thread allocates, two publish: the lock-free pool and queue agree.
CONSTANTS
    p1 = p1
    p2 = p2
    s1 = s1
    s2 = s2
    Worker = Worker
    None = None
    Capacity = 2
    kBatch = 2
    MaxAllocs = 3
    Publishers <- MCPublishers
    Allocators <- MCOneAllocator
    Subs <- MCSubs
    Scoped <- MCScoped
SPECIFICATION FairSpec

INVARIANT OneOwner
INVARIANT NoGaps
PROPERTY Recycled
CHECK_DEADLOCK FALSE
