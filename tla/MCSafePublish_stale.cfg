SPECIFICATION Spec
CONSTANTS
    fetcher = fetcher
    updater = updater
    d1 = d1
    d2 = d2
    d3 = d3
    Publishers <- Threads
    NoOne = NoOne
    Data <- Phonebooks
    Nothing = Nothing
    SizeOf <- Size
    MaxTime = 1
    Faults = {"rename"}
    Sweeping = FALSE
INVARIANTS
    NeverCorrupt
