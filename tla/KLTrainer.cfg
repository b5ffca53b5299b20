SPECIFICATION FairSpec
CONSTANTS
    Ranks <- McRanks
    BatchesPerEpoch = 5
    GradAccum = 2
    TotalEpochs = 3
    Configs <- McConfigs
    ExplicitStep <- McExplicitStep
    ExplicitWeights <- McExplicitWeights
    MaxRestarts = 2
INVARIANTS
    TypeOK
    LineageExact
    CheckpointsNameTheirStep
    NoOrphanCheckpoints
    ExportedIsFinal
PROPERTIES
    RemovedOnlyForNewer
    FinishesUnlessTorn
CHECK_DEADLOCK FALSE
