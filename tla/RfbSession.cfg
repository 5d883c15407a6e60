SPECIFICATION Spec
CONSTANTS
    Talks <- MCTalks
    Window <- MCWindow
    MaxReason = 1048576
    MaxCutText = 16777216
INVARIANTS TypeOK Authenticated RelayStartsClean InSync FilterSound
PROPERTY HandshakeEnds
CHECK_DEADLOCK FALSE
