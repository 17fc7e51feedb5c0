SPECIFICATION CallsSpec
CONSTANTS
    c1 = c1
    c2 = c2
    h1 = h1
    h2 = h2
    CallIds <- OneCall
    Ips <- Hosts
    Ports <- Ports5060
    SipPort = 5060
    MaxSessions = 1
    MaxAge = 0
    Nobody = Nobody
    Caller <- SamePort
    CalleeHost <- Called
    MaxLoss = 0
    MaxDup = 0
    MaxSwap = 0
CHECK_DEADLOCK FALSE
INVARIANTS
    ByeProxiedToOther
