SPECIFICATION HistorySpec
CONSTANTS
    Data <- Contents
    Nothing = Nothing
    Empty <- empty
    CutShort <- Cuts
    Valid <- WithRows
    Hashes <- Sums
    NoHash = NoHash
    HashOf <- Checksums
    Releases <- History
    Faults = {}
    MaxFailures = 0
    Updating = FALSE
PROPERTIES
    SkippedIsIdentical
