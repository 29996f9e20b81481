SPECIFICATION Spec
CONSTANTS
    Daemons = {d1, d2}
    Stoppers = {s1}
    Waiters = {}
    Policies <- AllPolicies
    MaxRetries = 1
    RetryCap = 1
    LateAdds = TRUE
PROPERTIES
    StopIsForced
\* Everyone may be done.
CHECK_DEADLOCK FALSE
