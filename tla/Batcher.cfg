SPECIFICATION FairSpec
CONSTANTS
    Requests = {q1, q2, q3}
    Sizes = {0, 2}
    MaxBatch = 2
INVARIANTS
    NothingLost
    ReturnsDrained
PROPERTIES
    SubmitEnds
    LoopEnds
\* The loop may have returned.
CHECK_DEADLOCK FALSE
