-------------------------- MODULE MCManagedServer --------------------------
(* Instances of ManagedServer for TLC. *)
EXTENDS ManagedServer, TLC

Symmetry == Permutations(Clients)
=============================================================================
