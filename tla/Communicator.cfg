CONSTANTS
    a = a
    b = b
    Worlds <- MCWorlds
    MaxSent = 3
    MaxReceives = 2

SPECIFICATION CommunicatorSpec

INVARIANT RoundTrips
INVARIANT NewestInOrder

\* Nothing more may be sent or read.
CHECK_DEADLOCK FALSE
