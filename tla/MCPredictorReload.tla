------------------------- MODULE MCPredictorReload -------------------------
(* Small instances of PredictorReload for TLC.  Protocols are split the way *)
(* ProtocolUtil does it.                                                    *)
EXTENDS PredictorReload

CONSTANTS pipeline, acquisitor, trainer, predictor, clf, dataset, p1, p2

\* A pipeline makes both artifacts, the trainer action alone only the model.
P == INSTANCE ProtocolUtil WITH
        Name <- {pipeline, trainer, predictor}, Id <- {p1, p2},
        BeforeUnderscore <- [n \in {pipeline, trainer, predictor} |-> n],
        Action <- {trainer, acquisitor}, Pipeline <- pipeline,
        ArtifactsToPersist <-
            [a \in {trainer, acquisitor} |-> IF a = trainer THEN {clf} ELSE {dataset}],
        PipelineActions <- {acquisitor, trainer}

PipelineRun == [name |-> pipeline, id |-> p1]
TrainerRun == [name |-> trainer, id |-> p2]
UnknownRun == [name |-> predictor, id |-> p2]

MCVersion == {PipelineRun, TrainerRun, UnknownRun}
MCArtifactsToLoad == <<clf, dataset>>

\* A pipeline's run, the same with a later model, a trainer's run (which does
\* not name the data, so the loop throws after one ask) and one that names no
\* action (splitProtocol throws).
Whole == <<PipelineRun>>
Mixed == <<PipelineRun, TrainerRun>>
Partial == <<TrainerRun>>
Unknown == <<UnknownRun>>

MCUnsplittable == {p \in Protocol : \E i \in DOMAIN p : P!Throws(p[i])}
MCSplit ==
    [p \in Protocol |->
        IF p \in MCUnsplittable THEN <<>> ELSE P!SplitProtocol(p)]

AllProtocols == {Whole, Mixed, Partial, Unknown}
MainProtocols == {Whole, Mixed}

\* The store has everything the protocols name.
AllStored == {<<clf, PipelineRun>>, <<dataset, PipelineRun>>, <<clf, TrainerRun>>}
\* The trainer's model never got there.
ModelMissing == {<<clf, PipelineRun>>, <<dataset, PipelineRun>>}
=============================================================================
