SPECIFICATION FairBulkSpec
CONSTANTS
    NoId <- Empty
    Ids <- ThreeIds
    Stored <- Whole
    RegIds <- OneRegId
    Phonebooks <- TwoBooks
    MaxUsers = 2
    Configs <- SomeConfigs
    MaxResults = 2
    Leftovers <- NewOrLeft
    MaxTime = 3
    MaxChanges = 3
CHECK_DEADLOCK FALSE
INVARIANTS
    ResultIsOfPhone
    DashboardTrue
PROPERTIES
    CycleEnds
