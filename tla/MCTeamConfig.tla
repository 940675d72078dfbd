---------------------------- MODULE MCTeamConfig ----------------------------
(* Updates that add to an object, add beside it, replace an object by a    *)
(* value, set a secret, and change nothing.                                *)
EXTENDS TeamConfig, ConfigDocs

MCUpdate ==
  { Dict("rag" :> Dict("chunk_size" :> [other |-> "800"])),
    Dict("generators" :> Dict("ollama" :> Dict("url" :> [str |-> "http"]))),
    Dict("generators" :> [other |-> "null"]),
    Dict("openai_api_key" :> [str |-> "key"]),
    Dict("generators" :> Dict(<<>>) @@ "openai_api_key" :> [str |-> ""]) }

(* Every document these updates can make.                                  *)
RECURSIVE Closure(_)
Closure(D) ==
  LET E == D \cup {DeepMerge(d, u) : d \in D, u \in MCUpdate}
  IN  IF E = D THEN D ELSE Closure(E)
MCDoc == Closure(MCUpdate)

MCObject == UNION {Objects(d) : d \in MCDoc \cup {DefaultTeamConfig}}
MCPath == UNION {Paths(d) : d \in MCDoc \cup {DefaultTeamConfig}}

MCSymmetry == Permutations(Request)

=============================================================================
