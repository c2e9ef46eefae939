\* The horizon Settle ends every behaviour.
CHECK_DEADLOCK FALSE
CONSTANTS
    r1 = r1
    r2 = r2
    r3 = r3
    Router <- MCRouter
    Link <- Triangle
    HELLOINT = 1
    LSUINT = 4
    DBTIMEOUT = 6
    DEFAULT_TTL = 64
    SeqSpace = 8
    MaxFailures = 1
    MidFlight = TRUE
    Settle = 1
SPECIFICATION FairSpec
PROPERTY FloodEnds
