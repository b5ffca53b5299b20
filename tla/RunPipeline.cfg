SPECIFICATION FairSpec
CONSTANTS
    Datasets <- McDatasets
    Available <- McAvailable
    DataPaths <- McDataPaths
    Longest <- McLongest
    Envs <- McEnvs
    MaxLaunches = 3
    MaxStops = 2
INVARIANTS TypeOK PromptsFit RewritesMatch OneModelPerRun EvaluatesWholeModel DoneMeansEvaluated
PROPERTY PipelineEnds
CHECK_DEADLOCK FALSE
