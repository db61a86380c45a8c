SPECIFICATION Spec
CONSTANTS
    metricsFile = metricsFile
    model = model
    dataset = dataset
    Artifact = {metricsFile, model, dataset}
    ArtifactsToPersist <- TrainerPersists
    ArtifactsToLoad <- TrainerLoads
    Metrics = metricsFile
    Stored <- AllStored
    NoFile = NoFile
    Torn = Torn
    None = None
    CacheSize = 1
    MaxJobs = 2
    MaxReloads = 1
    MaxQueries = 1
INVARIANTS
    TypeOK
    OwnOutput
    MetricsAreNotOlder
PROPERTY ImplementsLifeCycle
CHECK_DEADLOCK FALSE
