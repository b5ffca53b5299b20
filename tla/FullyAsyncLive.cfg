SPECIFICATION FairSpec
CONSTANTS
    TotalRolloutSteps = 3
    RequiredSamples = 1
    TriggerSteps = 1
    StalenessPercent = 100
    ServerSlots = 1
    PendingCapacity = 2
    TestFreq = 1
    PartialRollouts <- BothRollouts
    MaxTaskFailures = 1
PROPERTY RunEnds
