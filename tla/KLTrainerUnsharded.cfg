SPECIFICATION Spec
CONSTANTS
    Ranks <- McRanks
    BatchesPerEpoch = 5
    GradAccum = 2
    TotalEpochs = 1
    Configs <- UnshardedConfigs
    ExplicitStep <- McExplicitStep
    ExplicitWeights <- McExplicitWeights
    MaxRestarts = 1
INVARIANT CompletedStepsSkipped
CHECK_DEADLOCK FALSE
