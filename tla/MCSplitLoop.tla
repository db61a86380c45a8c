---------------------------- MODULE MCSplitLoop ----------------------------
(* Small instances of SplitLoop for TLC.                                    *)
EXTENDS SplitLoop

CONSTANTS trainer, predictor, load_data, load, unknown, model, data

\* "load_data" is an action whose name has an underscore.
MCBeforeUnderscore ==
    [n \in {Pipeline, trainer, predictor, load_data, unknown} |->
        IF n = load_data THEN load ELSE n]

MCArtifactsToPersist ==
    [a \in {trainer, predictor, load_data} |->
        CASE a = trainer -> {model} [] a = predictor -> {model, data}
          [] OTHER -> {data}]
=============================================================================
