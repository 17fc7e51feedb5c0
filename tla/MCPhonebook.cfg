SPECIFICATION HistorySpec
CONSTANTS
    Data <- Contents
    Nothing = Nothing
    Empty <- empty
    CutShort <- Cuts
    Valid <- WithRows
    Hashes <- Sums
    NoHash = NoHash
    HashOf <- Checksums
    Releases <- History
    Faults = {"crash", "download", "cut", "lag", "copy", "read", "convert", "publish", "hash"}
    MaxFailures = 2
    Updating = TRUE
PROPERTIES
    SkipIsSafe
    TableStaysValid
    Converges
