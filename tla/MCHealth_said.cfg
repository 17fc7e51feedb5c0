SPECIFICATION HealthSpec
CONSTANTS
    reporter = reporter
    safety = safety
    crawler = crawler
    Threads <- Three
    Reporter = reporter
    Lap <- Laps
    MaxSilence = 1
    Forever = 4
    Baseline = 1
    CpuLevels <- Levels
    MemLevels <- Sizes
    StartMem = 8
    CpuStep = 20
    MemStep = 10
    ScoreStep = 5
    Configs <- OneOff
INVARIANTS
    HealthyIsResponsive
    HungOnly
    HungIsNews
PROPERTIES
    ReportAgrees
    DropIsTold
