CONSTANTS
    Switch <- MCSwitch3
    Port <- MCPortTriangle
    Sw <- MCSw
    PortId <- MCPortId
    Peer <- MCPeerTriangle
    PathCost = 1
    Dist <- MCDist
    NoPort = NoPort
    MaxInFlight = 6
SPECIFICATION Spec
INVARIANTS
    TypeOK
    RootXorRootPort
    HelloIffRoot
    ClaimsAreCurrent
    NoBetterThanTruth
    QuietMeansTree
PROPERTIES
    OnlyImproves
