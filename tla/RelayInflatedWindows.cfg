SPECIFICATION LiveSpec
CONSTANTS
    TcpCredit = 1
    EmbedCredit = 2
    Ungranted = 1
    RecvCap = 2
    Hosts <- Inflating
    ReadOnly = FALSE
    MaxCred = 4
PROPERTY PictureNeverFreezes
CHECK_DEADLOCK FALSE
