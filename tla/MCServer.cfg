SPECIFICATION FairSpec
CONSTANTS
    owner = owner
    other = other
    k1 = k1
    k2 = k2
    k3 = k3
    None = None
    Tabs <- MCTabs
    Careful <- MCCareful
    Client <- MCClient
    IP <- MCIP
    Tokens <- MCTokens
    MaxRequests = 3
    MaxFailed = 1
    MaxSetups = 1
    Window = 1
    MaxRestarts = 1
INVARIANTS
    TypeOK
    FormsAreLive
    DraftKept
    TypoForgiven
PROPERTY
    OwnerGetsIn
