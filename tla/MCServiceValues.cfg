SPECIFICATION Spec
CONSTANTS
    Number <- MCNumber
    Parts <- MCParts
    AvailablePorts <- MCAvailablePorts
    Commands <- MCCommands
    Addresses <- MCAddresses
    HostOutputs <- MCHostOutputs
    None = None
    Cut = Cut
INVARIANT ReadAsDocumented
