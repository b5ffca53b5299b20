SPECIFICATION Spec
CONSTANTS
    Ranks <- McRanks
    BatchesPerEpoch = 5
    GradAccum = 2
    TotalEpochs = 3
    Configs <- LastStepPeriodic
    ExplicitStep <- McExplicitStep
    ExplicitWeights <- McExplicitWeights
    MaxRestarts = 0
INVARIANT SavedCheckpointSurvives
CHECK_DEADLOCK FALSE
