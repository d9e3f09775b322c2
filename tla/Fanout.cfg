CONSTANTS
    e1 = e1
    e2 = e2
    i1 = i1
    i2 = i2
    w1 = w1
    w2 = w2
    Owner = owner
    Events = {e1}
    Subs = {1, 2, 3}
    Publishers = {i1, i2}
    Consumers = {w1, w2}
    BatchSize = 2
    MaxConsumerRetries = 1
    MaxFaults = 2
    MaxChurn = 2
SPECIFICATION FairSpec
INVARIANTS NoLostEvent StagedRowsAreNew NobodySkipped DeadOnlyAfterRetries
PROPERTIES ImplementsNotices EveryDecisionSettled
CHECK_DEADLOCK FALSE
