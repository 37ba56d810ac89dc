--------------------------- MODULE MCRunCoordinator ---------------------------
(***************************************************************************)
(* Instance of RunCoordinator for TLC.  Workers are interchangeable; no    *)
(* property of the runs below is a liveness property, so symmetry is sound.*)
(***************************************************************************)
EXTENDS RunCoordinator, TLC

Symmetry == Permutations(Workers)
=============================================================================
