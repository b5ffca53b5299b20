SPECIFICATION Spec
CONSTANTS
    TotalRolloutSteps = 3
    RequiredSamples = 1
    TriggerSteps = 2
    StalenessPercent = 0
    ServerSlots = 1
    PendingCapacity = 2
    TestFreq = 1
    PartialRollouts <- Whole
    MaxTaskFailures = 0
INVARIANT FinalStepsSynchronised
