\* The build's four workers.  A stamp is absent (0), exactly the threshold old
\* (1, hung) or fresh (4); the counts include ties with the baseline (0, 3, 3).
\* 16 hashes: a power of two, as 2^32 is, that three candidates do not divide.
CONSTANTS
    NumWorkers = 4
    HangThreshold = 3
    HashRange = 16
    Now = 4
    Stamps = {0, 1, 4}
    ConnCounts = {0, 1, 3}
    EventCounts = {0, 2, 5}
SPECIFICATION Spec
INVARIANTS
    NearMinimumKept
    LessLoadedSurvives
    ConnFilterLeavesTwo
    SelectsCandidate
    EvenShares
\* One pass and one decision: two calls that return.
CHECK_DEADLOCK FALSE
