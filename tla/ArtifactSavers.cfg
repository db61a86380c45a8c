SPECIFICATION FairSpec
CONSTANTS
    trainer = trainer
    predictor = predictor
    evaluator = evaluator
    model = model
    metrics = metrics
    Saver = {trainer, predictor, evaluator}
    Artifact = {model, metrics}
    ArtifactsToLoad <- Loads
    ArtifactsToPersist <- Persists
    Stored = {model}
    Local = Local
    NoFile = NoFile
    Torn = Torn
    Idle = Idle
    MaxRuns = 1
    MaxAsks = 3
INVARIANTS
    TypeOK
    StoresOwnOutput
    CopiesWhatWasNamed
    AloneNeverFails
PROPERTIES
    StoredForGood
    WorkEnds
CHECK_DEADLOCK FALSE
