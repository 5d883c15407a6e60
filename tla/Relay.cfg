SPECIFICATION LiveSpec
CONSTANTS
    TcpCredit = 1
    EmbedCredit = 2
    Ungranted = 1
    RecvCap = 2
    Hosts <- AnyHost
    ReadOnly = TRUE
    MaxCred = 3
INVARIANTS
    TypeOK
    ReadLoopNeverWaits
    SendWindowConserved
PROPERTIES
    PictureFlows
    InputFlows
    BothPumpsEnd
CHECK_DEADLOCK FALSE
