SPECIFICATION FairSpec
CONSTANTS
    metricsFile = metricsFile
    model = model
    dataset = dataset
    Artifact = {metricsFile, model, dataset}
    ArtifactsToPersist <- EvaluatorPersists
    ArtifactsToLoad <- EvaluatorLoads
    Metrics = metricsFile
    Stored <- ModelMissing
    NoFile = NoFile
    Torn = Torn
    None = None
    CacheSize = 1
    MaxJobs = 1
    MaxReloads = 2
    MaxQueries = 1
INVARIANT LoadsWhatWasNamed
PROPERTIES
    JobEnds
    RestartEnds
CHECK_DEADLOCK FALSE
