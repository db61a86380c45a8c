SPECIFICATION Spec
CONSTANTS
    pipeline = pipeline
    acquisitor = acquisitor
    trainer = trainer
    predictor = predictor
    clf = clf
    dataset = dataset
    p1 = p1
    p2 = p2
    Protocol <- MainProtocols
    NoProtocol = NoProtocol
    Artifact = {clf, dataset}
    ArtifactsToLoad <- MCArtifactsToLoad
    Version <- MCVersion
    Split <- MCSplit
    Unsplittable <- MCUnsplittable
    Remote <- AllStored
    NoFile = NoFile
    Torn = Torn
    MaxReloads = 2
    MaxQueued = 1
PROPERTY ReadyWithWhatWasAsked
CHECK_DEADLOCK FALSE
