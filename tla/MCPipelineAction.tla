--------------------------- MODULE MCPipelineAction ---------------------------
(* Small instances of PipelineAction for TLC.                                 *)
EXTENDS PipelineAction

CONSTANTS acquisitor, trainer, evaluator, dataset, model, metrics

\* Three actions: the evaluator loads what the other two have made.
ThreeActions == <<acquisitor, trainer, evaluator>>
ThreePersist ==
    [a \in Action |-> CASE a = acquisitor -> <<dataset>> [] a = trainer -> <<model>>
                        [] OTHER -> <<metrics>>]
MCLoad ==
    [a \in Action |-> CASE a = acquisitor -> {} [] a = trainer -> {dataset}
                        [] OTHER -> {dataset, model}]
=============================================================================
