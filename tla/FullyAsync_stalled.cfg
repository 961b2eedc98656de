SPECIFICATION Spec
CONSTANTS
    TotalRolloutSteps = 4
    RequiredSamples = 1
    TriggerParameterSyncStep = 1
    MaxRequiredSamples = 2
    MaxConcurrentSamples = 1
    PendingQueueSize = 2
    PartialRollout = TRUE
    MaxFailures = 0
    TestFreq = 2
INVARIANTS
    NeverStalled
