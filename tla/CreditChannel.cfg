SPECIFICATION LiveSpec
CONSTANTS
    Senders = {s1, s2}
    InitialCredit = 1
    RecvCap = 1
    GrantSizes = {0, 1, 2}
    MaxGranted = 2
    MaxPipe = 2
    MaxSent = 2
INVARIANTS
    TypeOK
    CreditConserved
    NoLostWakeup
    InOrderUntilClose
    DrainedBeforeEOF
PROPERTIES
    CloseReleasesAll
    KeepsContract
CHECK_DEADLOCK FALSE
