CONSTANTS
    s1 = s1
    s2 = s2
    w1 = w1
    w2 = w2
    Sessions = {s1, s2}
    Purgers = {w1, w2}
    MaxRequests = 3
    MaxFaults = 1
SPECIFICATION FairSpec
INVARIANTS AppealedMediaKept
PROPERTIES ImplementsLifecycle PurgesEnd
CHECK_DEADLOCK FALSE
