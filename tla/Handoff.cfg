CONSTANTS
    Sock = {s1, s2, s3}
    NoSock = none
    Bound = 2
    SeqCst = {TRUE, FALSE}
    Started = {TRUE, FALSE}
SPECIFICATION FairSpec
INVARIANTS
    TypeOK
    NoLostWakeup
    AtMostOneNotify
    PendingIsHonest
    StrandedIsExplained
PROPERTY EventuallyTaken
