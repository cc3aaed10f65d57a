\* Two threads allocate: the free list loses track of a buffer (ABA).
CONSTANTS
    p1 = p1
    p2 = p2
    s1 = s1
    s2 = s2
    Worker = Worker
    None = None
    Capacity = 2
    kBatch = 2
    MaxAllocs = 3
    Publishers <- MCPublishers
    Allocators <- MCPublishers
    Subs <- MCSubs
    Scoped <- MCScoped
SPECIFICATION Spec
INVARIANT OneOwner
CHECK_DEADLOCK FALSE
