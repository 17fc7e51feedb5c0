SPECIFICATION CallsSpec
CONSTANTS
    c1 = c1
    c2 = c2
    h1 = h1
    h2 = h2
    CallIds <- TwoCalls
    Ips <- Hosts
    Ports <- Ports5060and5062
    SipPort = 5060
    MaxSessions = 1
    MaxAge = 0
    Nobody = Nobody
    Caller <- OtherPort
    CalleeHost <- Called
    MaxLoss = 1
    MaxDup = 0
    MaxSwap = 0
CHECK_DEADLOCK FALSE
INVARIANTS
    TalkingIsEstablished
    NoCrossTalk
    ByeComesFromOther
    EndedCallsHoldNoSlot
    NobodyIsLeft
