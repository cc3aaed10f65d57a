\* A writer and a reader that open their channels, crash and come back.
CONSTANTS
    Writer = Writer
    Reader = Reader
    Capacity = 2
    Width = 4
    MaxMsgs = 4
    MaxOpens = 3
    MaxCrashes = 2
    MaxStarts = 2
SPECIFICATION FairSpec

INVARIANT TokensCover
INVARIANT WholeInOrder
PROPERTY AcceptedIsDelivered
CHECK_DEADLOCK FALSE
