SPECIFICATION Spec
CONSTANTS
    TotalRolloutSteps = 11
    RequiredSamples = 2
    TriggerParameterSyncStep = 2
    MaxRequiredSamples = 4
    MaxConcurrentSamples = 3
    PendingQueueSize = 3
    PartialRollout = FALSE
    MaxFailures = 0
    TestFreq = 2
INVARIANTS
    TypeOK
    OnPolicy
    WithinQuota
    FullBatchesTrained
