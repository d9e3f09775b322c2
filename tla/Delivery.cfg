CONSTANTS
    d1 = d1
    d2 = d2
    w1 = w1
    w2 = w2
    token1 = token1
    token2 = token2
    Deliveries = {d1, d2}
    Workers = {w1, w2}
    Devices = {token1, token2}
    Unregistered = {token2}
    MaxFaults = 1
    MaxChurn = 1
SPECIFICATION FairSpec
INVARIANTS ResendsExplained CompletedWasSent
PROPERTIES EveryRowCompleted
CHECK_DEADLOCK FALSE
