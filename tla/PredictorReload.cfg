SPECIFICATION FairSpec
CONSTANTS
    pipeline = pipeline
    acquisitor = acquisitor
    trainer = trainer
    predictor = predictor
    clf = clf
    dataset = dataset
    p1 = p1
    p2 = p2
    Protocol <- AllProtocols
    NoProtocol = NoProtocol
    Artifact = {clf, dataset}
    ArtifactsToLoad <- MCArtifactsToLoad
    Version <- MCVersion
    Split <- MCSplit
    Unsplittable <- MCUnsplittable
    Remote <- ModelMissing
    NoFile = NoFile
    Torn = Torn
    MaxReloads = 2
    MaxQueued = 1
INVARIANTS
    TypeOK
    Agreement
    FreshFiles
    ReadyIsQuiet
    OneOutcome
PROPERTIES
    OutcomeIsLast
    Settles
    ImplementsModelServing
CHECK_DEADLOCK FALSE
