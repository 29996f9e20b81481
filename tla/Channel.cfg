SPECIFICATION FairSpec
CONSTANTS
    Senders = {s1, s2}
    Receivers = {r1, r2}
    Sizes = {0, 1, 2}
    MaxItems = 5
    MaxDrops = 2
INVARIANTS
    BusyIsTrue
    NobodyWaitsForNothing
PROPERTIES
    DropsAreCounted
    IsStream
    CallsEnd
\* Both sides may be done.
CHECK_DEADLOCK FALSE
