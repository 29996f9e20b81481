SPECIFICATION Spec
CONSTANTS
    MaxSize = 1
    MaxItems = 5
PROPERTIES
    EndIsAnnounced
\* Both sides may be done.
CHECK_DEADLOCK FALSE
