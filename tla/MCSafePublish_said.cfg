SPECIFICATION Spec
CONSTANTS
    fetcher = fetcher
    updater = updater
    d1 = d1
    d2 = d2
    d3 = d3
    Publishers <- Threads
    NoOne = NoOne
    Data <- Phonebooks
    Nothing = Nothing
    SizeOf <- Size
    MaxTime = 1
    Faults = {"copy", "flush"}
    Sweeping = TRUE
INVARIANTS
    NeverCorrupt
    FailureKeepsOld
    PublishSucceeds
    TempsCleaned
PROPERTIES
    SweepsOrphansOnly
