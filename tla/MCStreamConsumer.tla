--------------------------- MODULE MCStreamConsumer ---------------------------
(* Instance of StreamConsumer for TLC: the bounds are set in the .cfg files. *)
EXTENDS StreamConsumer
=============================================================================
