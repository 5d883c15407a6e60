SPECIFICATION Spec
CONSTANTS
    MaxRelays = 1
    MaxAttempts = 1
INVARIANT TeardownClosesAll
CHECK_DEADLOCK FALSE
