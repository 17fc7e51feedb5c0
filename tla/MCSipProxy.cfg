SPECIFICATION FairSpec
CONSTANTS
    c1 = c1
    c2 = c2
    h1 = h1
    CallIds <- TwoCalls
    Ips <- OneHost
    Ports <- TwoPorts
    SipPort = 5060
    MaxSessions = 2
    MaxAge = 0
    Nobody = Nobody
INVARIANTS
    TableAtRest
    ExportExact
PROPERTIES
    CallKeepsSlot
    BoardSpec
    EveryCallLeaves
