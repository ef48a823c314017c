---- MODULE MCPolicyStore ----
(* Two handlers, two policies; handlers are interchangeable. *)
EXTENDS PolicyStore, TLC

Symmetry == Permutations(Handlers) \cup Permutations(Ids)
====
