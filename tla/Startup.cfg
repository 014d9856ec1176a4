CONSTANTS
    None = None
    Mock = Mock
    CallerHandler = CallerHandler
    CallerOpts <- MCCallerOpts
    MaxRuns = 3
SPECIFICATION Spec
INVARIANTS ServingMatchesConfiguration ServesOwnHandler
CHECK_DEADLOCK FALSE
