--------------------------- MODULE MCUdsEndpoint ---------------------------
(* Instances of UdsEndpoint for TLC. *)
EXTENDS UdsEndpoint, TLC

Symmetry == Permutations(Listeners)
=============================================================================
