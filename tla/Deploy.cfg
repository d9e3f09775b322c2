SPECIFICATION Spec
CONSTANTS
    MaxRev = 2
    MaxTrouble = 2
    MaxReruns = 1
    MaxRetries = 1
    None = None
CHECK_DEADLOCK FALSE
INVARIANTS
    RecoveryImagesKept
    ConfigFitsImages
    RecordedReleaseRuns
    NeverLeftBroken
    ActivatedOnce
PROPERTIES
    SettlesOnTip
