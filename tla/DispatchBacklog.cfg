CONSTANTS
    NumWorkers = 1
    TableSize = 1
    Bound = 1
    Fd = {7}
    MaxConn = 2
SPECIFICATION Spec
INVARIANT NoConnectionLeftWaiting
CHECK_DEADLOCK FALSE
