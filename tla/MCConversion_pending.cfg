SPECIFICATION Spec
CONSTANTS
    c1 = c1
    c2 = c2
    Conversion <- BothCalls
    Restricted <- OneCall
    MaxPasses = 4
    MaxRows = 4
INVARIANT
    PendingIsKept
