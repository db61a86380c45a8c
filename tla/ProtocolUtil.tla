---------------------------- MODULE ProtocolUtil ----------------------------
(***************************************************************************)
(* Protocols.  A run of a batch action or of a pipeline is named by a part *)
(* "<name>_<uuid>"; a protocol is a comma separated list of parts, here a  *)
(* sequence.  splitProtocol turns a protocol into a map from artifacts to  *)
(* the parts that produced them.                                           *)
(***************************************************************************)
EXTENDS SequencesExt

CONSTANTS
    Name,               \* what a part may be called
    Id,                 \* uuids
    BeforeUnderscore,   \* the text of a name's parts up to the first "_"
    Action,             \* the keys of metadata.actionsMap
    Pipeline,           \* the reserved name "pipeline"
    ArtifactsToPersist, \* artifactsToPersist of each action
    PipelineActions     \* metadata.pipelineActions, as a set

ASSUME NameAssumption == Pipeline \in Name /\ DOMAIN BeforeUnderscore = Name
ASSUME ActionAssumption ==
    /\ Pipeline \notin Action
    /\ PipelineActions \subseteq Action
    /\ DOMAIN ArtifactsToPersist = Action

Part == [name : Name, id : Id]

\* generateProtocol: the name, an underscore and a random UUID.
GenerateProtocol(name, id) == [name |-> name, id |-> id]

\* The action a part is taken to stand for: what comes before the first
\* underscore, so an action whose own name has one is cut short.
ActionOf(part) == BeforeUnderscore[part.name]

\* The lookup of an action that is not in actionsMap throws, and so does the
\* substring of a part without an underscore.
Throws(part) == ActionOf(part) \notin Action \union {Pipeline}

Persisted(part) ==
    IF ActionOf(part) = Pipeline
    THEN UNION {ArtifactsToPersist[a] : a \in PipelineActions}
    ELSE ArtifactsToPersist[ActionOf(part)]

\* Mutant of Put: the part seen first is kept.
PutFirst(split, part) ==
    [a \in Persisted(part) \union DOMAIN split |->
        IF a \in DOMAIN split THEN split[a] ELSE part]

\* One turn of the loop: every artifact of the part is mapped to the part.
Put(split, part) ==
    [a \in Persisted(part) \union DOMAIN split |->
        IF a \in Persisted(part) THEN part ELSE split[a]]

SplitProtocol(protocol) == FoldLeft(Put, <<>>, protocol)
=============================================================================
