\* The process stops when the main thread is over.
SPECIFICATION Spec
CONSTANTS
    s = s
    b = b
    Sleepers <- MCSleepers
PROPERTIES
    PromptStop
    ExitEnds
CHECK_DEADLOCK FALSE
