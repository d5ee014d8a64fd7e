\* Four requests of three pieces, the third one malformed.
CONSTANTS
    HeaderLen = 3
    Script <- OneBad
    ReadBuf = 4
    ClientMayFin = TRUE
    ClientMayReset = TRUE
SPECIFICATION FairSpec
INVARIANTS
    TypeOK
    NothingUnseen
    AnswersInOrder
    ClosedForCause
PROPERTIES
    EveryRequestAnswered
\* The connection ends.
CHECK_DEADLOCK FALSE
