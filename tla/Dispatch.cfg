CONSTANTS
    NumWorkers = 2
    TableSize = 2
    Bound = 1
    Fd = {7, 8, 9}
    MaxConn = 4
SPECIFICATION FairSpec
INVARIANTS
    TypeOK
    OneHolder
    EventsAreCurrent
    AcquiredHasRoom
    RejectedByAll
    BacklogIsExplained
PROPERTIES
    SearchEnds
    ImplementsService
CHECK_DEADLOCK FALSE
