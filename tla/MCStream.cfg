SPECIFICATION Spec
CONSTANTS
    short = short
    long = long
    Head1 = Head1
    Messages <- Both
    Size <- Sizes
    HeaderLen = 2
    OneByteLimit = 2
    FlushAt = 6
    MaxMessages <- Counts
    MaxStreams = 2
INVARIANTS
    Conservation
PROPERTIES
    Delivery
    CleanEnd
    EventuallyDelivered
CHECK_DEADLOCK FALSE
