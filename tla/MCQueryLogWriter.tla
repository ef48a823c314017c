-------------------------- MODULE MCQueryLogWriter --------------------------
(* Instance of QueryLogWriter for TLC. *)
EXTENDS QueryLogWriter

Symmetry == Permutations(Entries) \cup Permutations(Workers)
=============================================================================
