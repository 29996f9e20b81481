CONSTANTS
    Periods = {2, 3}
    Early = 1
    Horizon = 10
SPECIFICATION Spec
PROPERTIES FreshTicks
\* Time ends at the horizon.
CHECK_DEADLOCK FALSE
