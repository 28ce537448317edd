CONSTANTS
    Scripts <- MCScripts
    Offers <- MCOffers
    SendBuf = 1
    Body = 2
    Window = 1
SPECIFICATION Spec
INVARIANT ReceivedIsProcessed
CHECK_DEADLOCK FALSE
