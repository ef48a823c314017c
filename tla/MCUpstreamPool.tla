--------------------------- MODULE MCUpstreamPool ---------------------------
(* Instance of UpstreamPool for TLC. *)
EXTENDS UpstreamPool, TLC

Symmetry == Permutations(Goroutines)
=============================================================================
