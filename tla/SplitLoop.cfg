SPECIFICATION Spec
CONSTANTS
    trainer = trainer
    predictor = predictor
    load_data = load_data
    load = load
    unknown = unknown
    model = model
    data = data
    Pipeline = pipeline
    Name = {pipeline, trainer, predictor, load_data, unknown}
    Id = {u1, u2}
    Action = {trainer, predictor, load_data}
    BeforeUnderscore <- MCBeforeUnderscore
    ArtifactsToPersist <- MCArtifactsToPersist
    PipelineActions = {trainer, load_data}
    MaxParts = 3
INVARIANTS
    TypeOK
    LastWins
    AllOrNothing
    ReturnsTheFold
CHECK_DEADLOCK FALSE
