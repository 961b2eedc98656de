SPECIFICATION Spec
CONSTANTS
    TotalRolloutSteps = 4
    RequiredSamples = 1
    TriggerParameterSyncStep = 1
    MaxRequiredSamples = 2
    MaxConcurrentSamples = 2
    PendingQueueSize = 3
    PartialRollout = TRUE
    MaxFailures = 1
    TestFreq = 2
INVARIANTS
    SamplesAccounted
    UpdateTellsTheWeights
    GeneratesWithCurrentWeights
