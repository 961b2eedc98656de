\* A multi-turn tool conversation, one server, two workers, two synchronizations; or two
\* single-turn rollouts on two servers.
CONSTANTS
    Rollouts = {"r1"}
    Servers = {"s1"}
    Workers = {"w1", "w2"}
    ToolAgent = TRUE
    ResponseLength = 5
    ModelLength = 6
    MaxAssistantTurns = 2
    MaxCancels = 2
    SingleRollouts = {"r1", "r2"}
    SingleServers = {"s1", "s2"}
    SingleWorkers = {"w1"}
    SingleResponseLength = 2
    SingleModelLength = 3
SPECIFICATION MCSpec
INVARIANT TokensConsistent TurnsWhole EachScoredOnce CancelsReach
PROPERTY PauseDrains SamplesComplete
