SPECIFICATION FairSpec
CONSTANTS
    k1 = k1
    k2 = k2
    Keys <- OneKey
    MaxReqs = 2
    Window = 3
    MaxTime = 9
INVARIANTS
    TypeOK
    AttemptsCoverWindow
    WindowBound
    RemainingIsExact
PROPERTIES
    ImplementsSlidingWindow
    OldAttemptsPurged
