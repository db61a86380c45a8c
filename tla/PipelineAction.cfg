SPECIFICATION FairSpec
CONSTANTS
    acquisitor = acquisitor
    trainer = trainer
    evaluator = evaluator
    dataset = dataset
    model = model
    metrics = metrics
    Action = {acquisitor, trainer, evaluator}
    PipelineActions <- ThreeActions
    Artifact = {dataset, model, metrics}
    ArtifactsToPersist <- ThreePersist
    ArtifactsToLoad <- MCLoad
    NoFile = NoFile
    Torn = Torn
    CacheSize = 1
    MaxPipelines = 2
INVARIANTS
    TypeOK
    FreshInputs
    FinishedIsSaved
    OnlyFinishedIsTold
    NamesAreFree
PROPERTY ImplementsLifeCycle
CHECK_DEADLOCK FALSE
