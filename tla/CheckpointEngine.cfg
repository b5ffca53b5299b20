SPECIFICATION FairSpec
CONSTANTS
    Receivers = 2
    Sizes <- McSizes
    BucketSize = 2
    LoadSize = 3
    Engines <- McEngines
    MaxUpdates = 2
INVARIANT TypeOK
PROPERTIES
    StreamRefined
    NoOverwriteInUse
    TransferEnds
CHECK_DEADLOCK FALSE
