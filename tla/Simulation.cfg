\* Every policy, short and long-lived connections, a burst, reordered loads and
\* failing forks and file operations; three connections into queues of one.
CONSTANTS
    NumWorkers = 2
    HashRange = 2
    Configs <- AllPolicies
    QueueCap = 1
    MaxEvents = 2
    MaxConns = 3
SPECIFICATION FairSpec
INVARIANTS
    TypeOK
    Conserved
    Accounting
    ExitedDrained
    SummaryCounts
PROPERTIES
    RunEnds
\* The run ends.
CHECK_DEADLOCK FALSE
