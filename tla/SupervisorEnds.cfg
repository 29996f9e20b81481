SPECIFICATION FairSpec
CONSTANTS
    Daemons = {d1, d2}
    Stoppers = {}
    Waiters = {w1}
    Policies <- AllPolicies
    MaxRetries <- Unlimited
    RetryCap = 1
    LateAdds = TRUE
PROPERTIES
    GroupDrains
    SignalledStopEnds
    BarrierReleased
\* Everyone may be done.
CHECK_DEADLOCK FALSE
