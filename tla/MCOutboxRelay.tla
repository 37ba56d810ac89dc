---------------------------- MODULE MCOutboxRelay ----------------------------
(* Instance of OutboxRelay for TLC.  The run checks liveness, so publishers *)
(* and aggregates are model values without symmetry.                        *)
EXTENDS OutboxRelay
=============================================================================
