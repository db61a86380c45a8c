--------------------------- MODULE MCArtifactSavers ---------------------------
(* A small instance of ArtifactSavers for TLC, with the actions of the test   *)
(* fixtures: the trainer makes the model, the predictor and the evaluator     *)
(* load it, and the evaluator makes the metrics.                              *)
EXTENDS ArtifactSavers

CONSTANTS trainer, predictor, evaluator, model, metrics

Loads == [s \in Saver |-> IF s = trainer THEN {} ELSE {model}]
Persists == [s \in Saver |-> IF s = trainer THEN {model}
                             ELSE IF s = evaluator THEN {metrics} ELSE {}]
=============================================================================
