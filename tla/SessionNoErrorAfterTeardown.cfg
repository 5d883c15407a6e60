SPECIFICATION Spec
CONSTANTS
    MaxRelays = 1
    MaxAttempts = 1
PROPERTY NoErrorAfterTeardown
CHECK_DEADLOCK FALSE
