SPECIFICATION CallsSpec
CONSTANTS
    c1 = c1
    c2 = c2
    h1 = h1
    h2 = h2
    CallIds <- OneCall
    Ips <- Hosts
    Ports <- Ports5060and5062
    SipPort = 5060
    MaxSessions = 2
    MaxAge = 0
    Nobody = Nobody
    Caller <- OtherPort
    CalleeHost <- Called
    MaxLoss = 0
    MaxDup = 1
    MaxSwap = 1
CHECK_DEADLOCK FALSE
INVARIANTS
    CallIdUnique
    OkMeansEstablished
    CancelledCallerIsAnswered
    OnlyLostByesAreCleaned
