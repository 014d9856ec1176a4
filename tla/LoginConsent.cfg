CONSTANTS
    b1 = b1
    b2 = b2
    f1 = f1
    f2 = f2
    None = None
    Browsers <- MCBrowsers
    Flows <- MCFlows
    Owner <- MCOwnerApart
    MaxLogins = 2
    MaxRequests = 4
    HydraFaults = TRUE
    StoreFaults = TRUE
SPECIFICATION Spec
INVARIANT LoggedInSubjectsConfigured
CHECK_DEADLOCK FALSE
