SPECIFICATION HistorySpec
CONSTANTS
    NoId <- Empty
    Ids <- AllIds
    Stored <- Truncated
    RegIds <- AnyRegIds
    Phonebooks <- OneBook
    MaxUsers = 3
INVARIANTS
    CountsOnlyDynamic
    RegisteredIsActive
    ZeroDeactivates
