SPECIFICATION FairSpec
CONSTANTS
    MaxSize = 1
    MaxItems = 6
INVARIANTS
    NoGaps
    EndMeansAll
PROPERTIES
    IsStream
    FramesArrive
\* Both sides may be done.
CHECK_DEADLOCK FALSE
