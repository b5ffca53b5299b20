SPECIFICATION McFairSpec
CONSTANTS
    Trajectories = {t1, t2}
    Servers = {s1, s2}
    NoServer = none
    Scripts <- McScripts
    Limits = {3, 5}
    Cap = 5
    TensorCount = 2
    MaxUpdates = 2
    EngineStops = {TRUE, FALSE}
    Parallel = {TRUE, FALSE}
    ValLength = 2
INVARIANTS
    TypeOK
    ContinuationExact
    VersionsBracket
    ValidationBracketed
    NoneSlipsPast
    WeightsMoveAlone
PROPERTIES
    CompletedStays
    SampleCompletes
    RolloutResumes
CHECK_DEADLOCK FALSE
