SPECIFICATION Spec
CONSTANTS
    c1 = c1
    c2 = c2
    t1 = t1
    t2 = t2
    t3 = t3
    w1 = w1
    w2 = w2
    None = None
    Clients <- TwoClients
    Tokens <- ThreeTokens
    Workers <- TwoWorkers
SYMMETRY Symmetry
INVARIANTS
    TypeOK
    OwnerOnly
    NoReplayAfterUse
    UsesBounded
    UnusedTokensKept
