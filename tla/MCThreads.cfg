\* The process stops when the main thread is over.
SPECIFICATION Spec
CONSTANTS
    s = s
    b = b
    Sleepers <- MCSleepers
INVARIANTS
    CleanEnd
    ReloadNotDropped
PROPERTIES
    ReloadServed
    StopEnds
CHECK_DEADLOCK FALSE
