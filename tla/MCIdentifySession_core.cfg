SPECIFICATION HealthySpec
CONSTANTS
    i1 = i1
    i2 = i2
    raf = raf
    u1 = u1
    u2 = u2
    Call <- IdentifyAndEnroll
    Silent = {raf}
    NoCall = NoCall
    maxTryCount = 1
    MaxSheets = 0
    MaxAsks = 2
    User <- Users
    NoUser = NoUser
    UserOf <- Same
    Enroll = {raf}
    MaxTroubles = 1
INVARIANTS
    ClosedChannelStaysQuiet
PROPERTIES
    ClosesKnowingDevice
    IdentifyEnds
    CallAnswered
CHECK_DEADLOCK FALSE
