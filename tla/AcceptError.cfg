\* One accept4 call fails with an error other than EAGAIN.
CONSTANTS
    NumWorkers = 2
    HangThreshold = 1
    HashRange = 2
    Configs <- OneAcceptFails
    Fds = {1, 2}
    MaxEvents = 2
    HangTicks = 1
SPECIFICATION FairSpec
PROPERTIES
    AcceptedUntilEagain
