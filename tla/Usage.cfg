SPECIFICATION Spec
CONSTANTS
    r1 = r1
    r2 = r2
    m1 = m1
    m2 = m2
    Replicas <- MCReplicas
    Models <- MCOneModel
    None = None
    MaxTime = 2
    MaxFaults = 1
CHECK_DEADLOCK FALSE
INVARIANTS
    UsesKept
    ShutdownSaves
PROPERTIES
    UsesSaved
