\* Eight components side by side. Asynchronous checkpoints: crashes at any time, with and without an
\* elastic instance, two checkpoints kept. One step off policy: five steps, two crashes. Balancing: up to
\* five rows in up to three partitions. Rate limits: three requests, a request budget they fit in and a
\* token budget they do not. Environment client: three calls. Distillation: four batches, two teacher
\* threads, one time-out or error. Batch: two prompts rolled out twice each, or three to validate for two
\* workers; two ranks, mini-batches of two rows, at most five rows.
CONSTANTS
    TotalRolloutSteps = 8
    DataLength = 12
    RequiredSamples = 2
    TriggerParameterSyncStep = 2
    SaveFreq = 1
    TestFreq = 1
    MaxCkptToKeep = 2
    MaxInFlight = 5
    MaxRestarts = 2
    OffDataLength = 6
    OffTrainingSteps = 5
    OffCriticWarmup = 2
    OffSaveFreq = 2
    OffTestFreq = 2
    OffMaxCrashes = 2
    GkdBatches = 4
    GkdWorkers = 2
    GkdMaxTroubles = 1
    LimRequests = {"a", "b", "c"}
    LimMaxRpm = 2
    LimMaxTpm = 2
    LimRequestCost = 2
    LimTokenCost = 3
    LimMaxConcurrent = 1
    LimTimeout = 2
    LimPoolSize = 2
    RtMaxCalls = 3
    RtMaxAttempts = 2
    EngActors = 2
    EngRollouts = 1
    EngParams = 3
    EngMaxSize = 2
    EngBufferSize = 2
    EngMaxSyncs = 2
    BatPromptNum = 2
    BatRolloutN = 2
    BatValPrompts = 3
    BatWorkers = 2
    BatDpSize = 2
    BatMiniBatch = 2
    BatMaxTokenLen = 3
    BatLengths = {1, 3}
    BatKinds = {"single", "uneven", "copy", "empty"}
    BatValKinds = {"single", "characters"}
    BatMaxRows = 5
    BalMaxItems = 5
    BalMaxParts = 3
    BalWorkloads = {0, 1, 2, 5}
SPECIFICATION MCSpec
INVARIANT CheckpointWhole SamplesKept TrainingCounted OffPolicyByOne
INVARIANT DistillsEachOnce DistillKnowledge EngineDelivers LimitsRespected RuntimeAsSeen
INVARIANT RowsOfPrompts LogProbsAligned GroupOfRollouts UpdatesEachRowOnce ScorePerSlot
INVARIANT PartitionsBalanced
PROPERTY ComponentsEnd
