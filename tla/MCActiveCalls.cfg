SPECIFICATION HistorySpec
CONSTANTS
    c1 = c1
    c2 = c2
    f1 = f1
    f2 = f2
    f3 = f3
    f4 = f4
    CallIds <- OneCall
    MaxSessions = 2
    MaxAge = 0
    MaxTime = 2
    Files <- FourFiles
    NoFile = NoFile
SYMMETRY FilesAlike
INVARIANTS
    NoTempLeft
    ApartAtomic
