SPECIFICATION Spec
CONSTANTS
    metricsFile = metricsFile
    model = model
    dataset = dataset
    Artifact = {metricsFile, model, dataset}
    ArtifactsToPersist <- TrainerPersists
    ArtifactsToLoad <- TrainerLoads
    Metrics = metricsFile
    Stored <- AllStored
    NoFile = NoFile
    Torn = Torn
    None = None
    CacheSize = 2
    MaxJobs = 2
    MaxReloads = 1
    MaxQueries = 1
INVARIANT AcceptedJobIsKnown
CHECK_DEADLOCK FALSE
