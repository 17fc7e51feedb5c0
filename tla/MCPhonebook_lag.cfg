SPECIFICATION HistorySpec
CONSTANTS
    Data <- Contents
    Nothing = Nothing
    Empty <- empty
    CutShort <- Cuts
    Valid <- WithRows
    Hashes <- Sums
    NoHash = NoHash
    HashOf <- Checksums
    Releases <- SeenHistory
    Faults = {"lag", "crash"}
    MaxFailures = 2
    Updating = FALSE
PROPERTIES
    SkippedIsIdentical
