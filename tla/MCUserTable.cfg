SPECIFICATION HistorySpec
CONSTANTS
    NoId <- Empty
    Ids <- AllIds
    Stored <- Truncated
    RegIds <- AnyRegIds
    Phonebooks <- AnyBooks
    MaxUsers = 3
INVARIANTS
    CapacityTestSound
    DirectoryKept
    FittingRegistrar
