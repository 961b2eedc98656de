SPECIFICATION Spec
CONSTANTS
    TotalRolloutSteps = 3
    RequiredSamples = 1
    TriggerParameterSyncStep = 1
    MaxRequiredSamples = 2
    MaxConcurrentSamples = 2
    PendingQueueSize = 3
    PartialRollout = FALSE
    MaxFailures = 1
    TestFreq = 2
INVARIANTS
    VersionsInOrder
    ProcessorSurvives
    ValidationLogged
    NeverStalled
PROPERTIES
    Finishes
