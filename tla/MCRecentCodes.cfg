SPECIFICATION Spec
CONSTANTS
    w1 = w1
    w2 = w2
    Kept = 2
    recentMax = 1
    Workers <- TwoWorkers
    Public <- MCPublic
    MaxCodes = 6
    MaxRacing = 1
SYMMETRY Symmetry
INVARIANTS
    TypeOK
    BoundedWhenQuiet
    SerialList
    SerialPage
