\* A turn split by a synchronization.
CONSTANTS
    Rollouts = {"r1"}
    Servers = {"s1"}
    Workers = {"w1"}
    ToolAgent = TRUE
    ResponseLength = 4
    ModelLength = 4
    MaxAssistantTurns = 3
    MaxCancels = 1
SPECIFICATION Spec
INVARIANT CallsExecuted
