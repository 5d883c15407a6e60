SPECIFICATION LiveSpec
CONSTANTS
    TcpCredit = 1
    EmbedCredit = 2
    Ungranted = 1
    RecvCap = 2
    Hosts <- Spanning
    ReadOnly = TRUE
    MaxCred = 3
PROPERTY InputNeverFreezes
CHECK_DEADLOCK FALSE
