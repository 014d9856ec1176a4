CONSTANTS
    b1 = b1
    b2 = b2
    f1 = f1
    f2 = f2
    None = None
    Browsers <- MCBrowsers
    Flows <- MCFlows
    Owner <- MCOwnerApart
    MaxLogins = 2
    MaxRequests = 3
    HydraFaults = TRUE
    StoreFaults = TRUE
SPECIFICATION Spec
INVARIANT SkippedConsentHasNoUI
CHECK_DEADLOCK FALSE
