-------------------------- MODULE MCActionCoordinator --------------------------
(* Instance of ActionCoordinator for TLC; callers are interchangeable.      *)
EXTENDS ActionCoordinator, TLC

Symmetry == Permutations(Callers)
=============================================================================
