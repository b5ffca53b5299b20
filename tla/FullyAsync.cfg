SPECIFICATION Spec
CONSTANTS
    TotalRolloutSteps = 4
    RequiredSamples = 1
    TriggerSteps = 1
    StalenessPercent = 100
    ServerSlots = 2
    PendingCapacity = 3
    TestFreq = 1
    PartialRollouts <- BothRollouts
    MaxTaskFailures = 1
INVARIANTS
    TypeOK
    SampleAccounting
    OutstandingBound
    PauseQuiesces
    ProcessorSurvives
