---------------------------- MODULE MCBatchAction ----------------------------
(* Small instances of BatchAction for TLC, for the evaluator of the test     *)
(* fixtures: it loads the data and the model and persists the metrics.       *)
EXTENDS BatchAction

CONSTANTS metricsFile, model, dataset

EvaluatorPersists == <<metricsFile>>
EvaluatorLoads == <<dataset, model>>
TrainerPersists == <<model, metricsFile>>
TrainerLoads == <<dataset>>

\* The protocols name only stored artifacts; and the model of the first one
\* never got to the store.
AllStored == {dataset, model} \X Reloads
ModelMissing == AllStored \ {<<model, 1>>}
=============================================================================
