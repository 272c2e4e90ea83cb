SPECIFICATION Spec
CONSTANTS
    i1 = i1
    i2 = i2
    i3 = i3
    Call <- ThreeCalls
    Silent <- LastSilent
    NoCall = NoCall
    maxTryCount = 2
    MaxSheets = 1
    MaxAsks = 2
INVARIANTS
    AnsweredOncePerAsk
    CompleteKnowsDevice
PROPERTIES
    KnownDeviceCompletes
CHECK_DEADLOCK FALSE
