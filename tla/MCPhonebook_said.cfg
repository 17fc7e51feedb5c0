SPECIFICATION HistorySpec
CONSTANTS
    Data <- Contents
    Nothing = Nothing
    Empty <- empty
    CutShort <- Cuts
    Valid <- WithRows
    Hashes <- Sums
    NoHash = NoHash
    HashOf <- Checksums
    Releases <- SeenHistory
    Faults = {"flush"}
    MaxFailures = 0
    Updating = TRUE
INVARIANTS
    HashedIsPublic
PROPERTIES
    SkippedIsIdentical
    ClearedForGoodOnly
    LastGoodKept
