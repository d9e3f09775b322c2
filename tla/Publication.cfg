SPECIFICATION Spec
CONSTANTS
    r1 = r1
    r2 = r2
    j1 = j1
    j2 = j2
    Replicas <- MCReplicas
    Jobs <- MCJobs
    NoJob = NoJob
    Nowhere = Nowhere
    Refresher = Refresher
    MaxTrouble = 1
CHECK_DEADLOCK FALSE
INVARIANTS
    CancelledNeverPublished
    ActiveIsNewest
    PublishedIsReported
PROPERTIES
    ImplementsRegistry
    JobSettles
    ReplicasConverge
