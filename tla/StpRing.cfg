CONSTANTS
    Switch <- MCSwitch4
    Port <- MCPortRing
    Sw <- MCSw
    PortId <- MCPortId
    Peer <- MCPeerRing
    PathCost = 1
    Dist <- MCDist
    NoPort = NoPort
    MaxInFlight = 4
SPECIFICATION Spec
INVARIANTS
    QuietMeansTree
