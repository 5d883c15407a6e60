SPECIFICATION LiveSpec
CONSTANTS
    MaxRelays = 2
    MaxAttempts = 2
INVARIANTS
    TypeOK
    OneDriver
    NoOrphanWhileAlive
    TeardownClosesUnlessRaced
    HandshakeHasPassword
PROPERTIES
    TabLeavesConnecting
    TeardownStopsAll
CHECK_DEADLOCK FALSE
