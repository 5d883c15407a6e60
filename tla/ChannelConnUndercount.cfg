SPECIFICATION Spec
CONSTANTS
    MaxPayload = 1
    ReadSizes = {1}
    WriteSizes = {1}
    Loads <- OneWrite
PROPERTY CountsWhatWasHandedOff
CHECK_DEADLOCK FALSE
