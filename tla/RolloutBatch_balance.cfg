\* One prompt rolled out twice, on one rank: up to two sub-sequences of a rollout, the second with half
\* the reward.
CONSTANTS
    Modes = {"fit"}
    PromptNum = 1
    RolloutN = 2
    ValPrompts = 1
    NumWorkers = 1
    DpSize = 1
    MiniBatch = 2
    MaxTokenLen = 3
    Lengths = {2}
    Kinds = {"single", "uneven"}
    ValKinds = {"single"}
    MaxRows = 4
SPECIFICATION Spec
INVARIANT BalancingKeepsAdvantages
