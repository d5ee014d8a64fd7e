\* Case 5, the profile with a burst, with no failure and no reordered load.
CONSTANTS
    NumWorkers = 2
    HashRange = 2
    Configs <- CaseFive
    QueueCap = 1
    MaxEvents = 2
    MaxConns = 2
SPECIFICATION Spec
INVARIANTS
    SummaryReconciles
CHECK_DEADLOCK FALSE
