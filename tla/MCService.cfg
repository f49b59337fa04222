SPECIFICATION FairSpec
CONSTANTS
    Number <- MCNumber
    Parts <- MCParts
    AvailablePorts <- MCAvailablePorts
    Commands <- MCCommands
    Addresses <- MCAddresses
    HostOutputs <- MCHostOutputs
    None = None
    Cut = Cut
INVARIANTS
    TypeOK
    ResolvedAsDocumented
    SurvivesRestart
    CertsInPlace
    SendNeverBlocks
PROPERTY
    InstallEnds
