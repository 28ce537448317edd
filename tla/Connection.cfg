CONSTANTS
    Scripts <- MCScripts
    Offers <- MCOffers
    SendBuf = 1
    Body = 2
    Window = 1
SPECIFICATION FairSpec
INVARIANTS
    TypeOK
    NoLostEdge
    GoawayDelivers
    EstablishedMeansH2
PROPERTIES
    OutputDrains
    DisconnectCompletes
CHECK_DEADLOCK FALSE
