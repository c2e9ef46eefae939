\* Learning ends when everybody knows everybody.
CHECK_DEADLOCK FALSE
CONSTANTS
    Router <- MCRouter
    NoRid = 0
    Graphs <- MCGraphs
    Stub <- MCStub
SPECIFICATION Spec
INVARIANTS
    ShortestRoutes
    HostPacketsDoNotLoop
