CONSTANTS
    i1 = i1
    i2 = i2
    h1 = h1
    h2 = h2
    r2 = r2
    m1 = m1
    m2 = m2
    p1 = p1
    p2 = p2
    Iface <- MCIface
    IP <- MCIP
    MAC <- MCMAC
    Slot <- MCSlot2
    Sender = {recv, mospf}
    Receiver = recv
    Sweeper = sweeper
    Packet <- MCPacket
    Header <- MCHeader
    Origin <- MCOrigin
    Via <- MCVia
    Error <- MCError
    NoRoute = NoRoute
    Owner <- MCOwner
    ARP_ENTRY_TIMEOUT = 1
    ARP_REQUEST_MAX_RETRIES = 2
    MaxLag = 1
SPECIFICATION Spec
PROPERTIES
    GivenUpAfterMaxRequests
