SPECIFICATION Spec
CONSTANTS
    Daemons = {d1, d2}
    Stoppers = {s1, s2}
    Waiters = {w1}
    Policies <- AllPolicies
    MaxRetries = 1
    RetryCap = 1
    LateAdds = FALSE
SYMMETRY Symmetry
INVARIANTS
    NoLostWakeup
    StateMatchesHost
    OnStopAttempted
PROPERTIES
    OnStopOnce
    FailureOnRecord
    RetriesBounded
    StopIsForced
\* Everyone may be done.
CHECK_DEADLOCK FALSE
