---------------------------- MODULE MCControlPlane ----------------------------
(***************************************************************************)
(* Instance of ControlPlane for TLC.                                       *)
(***************************************************************************)
EXTENDS ControlPlane
=============================================================================
