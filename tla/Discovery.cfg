CONSTANTS
    a = a
    b = b
    Clients = {a, b}
    Configured = {a, b}
    Leaving = {a}
    Refreshing = {b}
    Info <- MCInfo
    MaxLate = 1

SPECIFICATION FairSpec

INVARIANT LastWord
PROPERTY Forgotten
