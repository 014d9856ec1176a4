CONSTANTS
    w1 = w1
    Wallets <- MCOneWallet
    MaxAttempts = 2
    MaxRequests = 2
    NoState = NoState
    NoCode = NoCode
SPECIFICATION Spec
CHECK_DEADLOCK FALSE
INVARIANTS
    AtMostOneTokenPerCode
