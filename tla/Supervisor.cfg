\* Two runs of two workers, under either kind of listener, one failure of any kind;
\* tick rows are flushed in pairs.
CONSTANTS
    NumWorkers = 2
    Policies = {"hermes", "lifo"}
    FlushEvery = 2
    MaxRuns = 2
    Faults = {"setup", "fork", "kill", "worker", "clean"}
    MaxFaults = 1
SPECIFICATION FairSpec
INVARIANTS
    TypeOK
    CleanExit
    NoStaleBitmap
PROPERTIES
    ShutdownCompletes
\* A run need not be stopped, nor started again.
CHECK_DEADLOCK FALSE
