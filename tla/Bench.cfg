\* Every profile at up to two connections, two workers, and two failures of any
\* kind.
CONSTANTS
    Configs <- ScaledProfiles
    Grace = 0
    Workers = {w1, w2}
    Faults = {"connect", "worker", "stop", "file"}
    MaxFaults = 2
SPECIFICATION FairSpec
INVARIANTS
    TypeOK
    RunAccounted
    ReportsFollowProtocol

    
\* The benchmark ends.
CHECK_DEADLOCK FALSE
