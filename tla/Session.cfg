CONSTANTS
    Streams = 2
    Addresses = 2
    Requests <- MCRequests
    Size = {0, 3, 5}
    IntMax = 3
    MaxLength = 2
    ErrorLength = 2
    MaxChunks = 2
SPECIFICATION FairSpec
INVARIANTS
    TypeOK
    PointersMatchOwners
    AnsweredOnce
    HandlerSeesRequest
    BodyIsFile
PROPERTY ResponsesEnd
CHECK_DEADLOCK FALSE
