CONSTANTS
    Recipes = {"merge", "load_balance", "tee", "worker_pool", "select"}
    N = 2
    WorkerBuffers = {0, 1}
    Size = 1
    MaxItems <- ItemsTried
SPECIFICATION FairSpec
INVARIANTS RoutedOnce EndMeansAll
PROPERTIES RoutingEnds
\* The recipe may be over.
CHECK_DEADLOCK FALSE
