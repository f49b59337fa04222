SPECIFICATION Spec
CONSTANTS
    Number <- MCNumber
    Parts <- MCParts
    AvailablePorts <- MCAvailablePorts
    Commands <- MCCommandsTLS
    Addresses <- MCAddresses
    HostOutputs <- MCHostOutputs
    None = None
    Cut = Cut
INVARIANT AnnouncedProtocol
