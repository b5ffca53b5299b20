SPECIFICATION Spec
CONSTANTS
    TotalRolloutSteps = 4
    RequiredSamples = 1
    TriggerSteps = 1
    StalenessPercent = 100
    ServerSlots = 1
    PendingCapacity = 2
    TestFreq = 1
    PartialRollouts <- Partial
    MaxTaskFailures = 0
INVARIANT RemainingTasksCompleted
