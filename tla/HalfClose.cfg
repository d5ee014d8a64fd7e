\* A client that sends its requests and then half-closes.
CONSTANTS
    HeaderLen = 2
    Script <- AllGood
    ReadBuf = 4
    ClientMayFin = TRUE
    ClientMayReset = FALSE
SPECIFICATION FairSpec
PROPERTIES
    AnsweredBeforeEof
CHECK_DEADLOCK FALSE
