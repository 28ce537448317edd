CONSTANTS
    Sock = {s1, s2, s3}
    NoSock = none
    Bound = 2
    SeqCst = {TRUE}
    Started = {FALSE}
SPECIFICATION Spec
INVARIANT PendingMeansNotified
