\* Two workers with two descriptors each, under every policy.
CONSTANTS
    NumWorkers = 2
    HangThreshold = 1
    HashRange = 2
    Configs <- IdleAndServing
    Fds = {1, 2}
    MaxEvents = 2
    HangTicks = 1
SPECIFICATION FairSpec
INVARIANTS
    TypeOK
    Accounting
    NoStaleEvent
    NoLostWakeup
    PublishedFresh
PROPERTIES
    ConnsAccepted
    DeadEvicted
    AllReadmitted
    ShutdownCompletes
