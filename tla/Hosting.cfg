CONSTANTS
    Callers = {c1, c2}
    Bridge = c1
    MaxStarts = 3
SPECIFICATION FairSpec
INVARIANTS NothingLeftBehind
PROPERTIES CallsAreHonest HostingEnds
\* The host may be down for good.
CHECK_DEADLOCK FALSE
