\* The service restarts; nothing is lost on the way.
CONSTANTS
    MaxCalls = 3
    MaxAttempts = 1
    Unreliable = FALSE
SPECIFICATION Spec
INVARIANT ExecutedOnce
