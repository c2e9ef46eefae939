CONSTANTS
    Switch <- MCSwitch3
    Port <- MCPortTwin
    Sw <- MCSw
    PortId <- MCPortId
    Peer <- MCPeerTwin
    PathCost = 1
    Dist <- MCDist
    NoPort = NoPort
    MaxInFlight = 4
SPECIFICATION FairSpec
PROPERTIES
    Converges
