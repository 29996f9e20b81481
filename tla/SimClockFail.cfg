SPECIFICATION FairSpec
CONSTANTS
    Tasks = {a, b}
    External = {a}
    Host = host
    Drivers = {d, e}
    Delays = {0, 1}
    Deadlines = {1, 3}
    Priorities = {0}
    Goals <- RivalGoals
    RtolUnit = 2
    Rounds = 1
    MaxSettles = 2
    MaxCalls = 2
INVARIANTS ParkedIffPending OneDriver
PROPERTIES MonotoneTime AdvanceEnds
