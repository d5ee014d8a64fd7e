\* Capacity 2 and indices modulo 4: six pushes wrap the indices and refill
\* every slot several times.
CONSTANTS
    Desc = {a, b}
    None = None
    Cap = 2
    Laps = 2
    MaxPush = 6
SPECIFICATION FairSpec
INVARIANTS
    TypeOK
    NoSlotRace
    FifoDelivery
    LenIsOneSided
PROPERTIES
    ImplementsFifo
    EveryPushDelivered
