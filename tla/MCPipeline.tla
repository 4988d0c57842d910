----------------------------- MODULE MCPipeline -----------------------------
(* Pipeline on a small instance. The goroutines of one kind are alike, and *)
(* so are the partitions; a run of invariants only declares that. It would *)
(* be unsound for the liveness properties.                                 *)
EXTENDS Pipeline, TLC

Alike == Permutations(Partitions) \cup Permutations(Transformers) \cup Permutations(Writers)
=============================================================================
