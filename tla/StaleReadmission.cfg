\* Three workers: one hangs, two publish in the opposite order to their clock readings.
CONSTANTS
    NumWorkers = 3
    HangThreshold = 1
    HashRange = 2
    Configs <- OneHangs
    Fds = {1}
    MaxEvents = 1
    HangTicks = 1
SPECIFICATION Spec
PROPERTIES
    ReadmitOnlyAfterRecovery
