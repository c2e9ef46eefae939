\* The horizon Settle ends every behaviour.
CHECK_DEADLOCK FALSE
CONSTANTS
    r1 = r1
    r2 = r2
    r3 = r3
    Router <- MCRouter
    Link <- Line
    HELLOINT = 1
    LSUINT = 4
    DBTIMEOUT = 6
    DEFAULT_TTL = 2
    SeqSpace = 8
    MaxFailures = 2
    MidFlight = FALSE
    Settle = 9
SPECIFICATION Spec
INVARIANTS
    TypeOK
    SettlesInTime
    SeqNamesLinks
PROPERTIES
    ExpiresOnlyAfterFailure
