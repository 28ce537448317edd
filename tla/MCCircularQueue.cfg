CONSTANTS
    Data = {s1, s2, s3}
    NoData = none
    Capacity = 4
SPECIFICATION Spec
INVARIANTS
    TypeOK
    NoSlotRace
    ElementStaysForConsumer
    RoomIsStable
PROPERTY ImplementsFifo
