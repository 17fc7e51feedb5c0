SPECIFICATION Spec
CONSTANTS
    l = l
    r = r
    s = s
    p = p
    f = f
    Hosts <- MCHosts
    Phones <- MCPhones
    Crawlable <- MCCrawlable
    Localhost = l
    Neighbours <- MCNeighbours
    MaxNodes = 2
    MaxLinks = 3
    MaxQueue = 3
    InactiveAfter = 0
    DeleteAfter = 1
INVARIANTS
    LinksSurvive
    PhonesHang
PROPERTIES
    ReachedIsOnline
