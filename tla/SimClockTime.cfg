SPECIFICATION Spec
CONSTANTS
    Tasks = {a, b}
    External = {}
    Host = host
    Drivers = {d}
    Delays = {1}
    Deadlines = {1, 2, 3}
    Priorities = {0, 1}
    Goals <- SettledGoals
    RtolUnit = 2
    Rounds = 3
    MaxSettles = 1
    MaxCalls = 3
PROPERTIES WakesOnTime WakeOrder OneNow SleepTakesTime NobodyLeftBehind TimeWaitsForWork
SYMMETRY Symmetry
