\* One worker dies: the benchmark that waits for it never ends.
CONSTANTS
    Configs <- ScaledProfiles
    Grace = 0
    Workers = {w1, w2}
    Faults = {"worker"}
    MaxFaults = 1
SPECIFICATION FairSpec
PROPERTIES
    BenchEnds
\* The benchmark ends.
CHECK_DEADLOCK FALSE
