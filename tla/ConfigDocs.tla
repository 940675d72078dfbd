----------------------------- MODULE ConfigDocs -----------------------------
(***************************************************************************)
(* The recursive merge of two configuration documents, the default         *)
(* configuration, and what there is in a document. For TLC only: the       *)
(* proofs know of the merge that one call of it is MergeKeys.              *)
(*                                                                         *)
(* Code: _deep_merge in api/services/team_config_service.py,               *)
(* api/core/default_config.py.                                             *)
(***************************************************************************)
EXTENDS ConfigPaths, TLC

RECURSIVE DeepMerge(_, _)
DeepMerge(d1, d2) == MergeKeys(DeepMerge, d1, d2)

(* Its shape: nested objects, plain values and lists, no sensitive key.    *)
DefaultTeamConfig ==
  Dict("rag" :> Dict("chunk_size" :> [other |-> "500"] @@ "active_embedder" :> [str |-> "gemini"])
    @@ "generators" :> Dict("ollama" :> Dict("model" :> [str |-> "qwen"])
                         @@ "gemini" :> Dict("model" :> [str |-> "flash"]))
    @@ "languages" :> [other |-> "[typescript, java, c_sharp]"])

(* An object and the objects in it.                                        *)
RECURSIVE Objects(_)
Objects(d) == {d} \cup UNION {Objects(d.dict[k]) : k \in {k \in Keys(d) : IsDict(d.dict[k])}}

(* The paths to the values of an object.                                   *)
RECURSIVE Paths(_)
Paths(d) ==
  UNION {{<<k>>} \cup (IF IsDict(d.dict[k]) THEN {<<k>> \o p : p \in Paths(d.dict[k])} ELSE {})
           : k \in Keys(d)}
=============================================================================
