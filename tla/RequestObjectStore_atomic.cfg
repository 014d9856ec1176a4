CONSTANTS
    c1 = c1
    c2 = c2
    x1 = x1
    x2 = x2
    BadId = BadId
    None = None
    Clients <- MCClients
    Contents <- MCContents
    MaxIds = 2
    MaxOps = 2
    ContextTimeouts = TRUE
SPECIFICATION Spec
PROPERTIES
    AtomicContract
CHECK_DEADLOCK FALSE
