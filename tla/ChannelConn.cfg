SPECIFICATION Spec
CONSTANTS
    MaxPayload = 2
    ReadSizes = {1, 2}
    WriteSizes = {1, 3}
    Loads <- MCLoads
INVARIANTS TypeOK TimeoutsExact NoDoubleClose
PROPERTIES ExpiredUnparks CloseReleases ImplementsByteStream
CHECK_DEADLOCK FALSE
