CONSTANTS
    b1 = b1
    b2 = b2
    f1 = f1
    f2 = f2
    None = None
    Browsers <- MCBrowsers
    Flows <- MCFlows
    Owner <- MCOwnerShared
    MaxLogins = 2
    MaxRequests = 4
    HydraFaults = FALSE
    StoreFaults = FALSE
SPECIFICATION Spec
INVARIANT LoginAcceptsSubmittedFlow
CHECK_DEADLOCK FALSE
