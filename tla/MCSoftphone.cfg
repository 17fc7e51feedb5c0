SPECIFICATION HistorySpec
CONSTANTS
    MaxCalls = 2
    ResponseTimeout = 1
    RingingTimeout = 2
    CallTimeout = 3
    WaitTime = 2
    PollTime = 1
    SettleTime = 1
INVARIANTS
    TypeOK
PROPERTIES
    VerdictIsHeard
    LifecycleKept
    StuckCallEnds
