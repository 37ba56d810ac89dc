----------------------------- MODULE RunLifecycle -----------------------------
(***************************************************************************)
(* What the Run Coordinator promises about one Run, without transactions,  *)
(* workers, leases or events (docs/01-核心规范/02, section 5): the phase   *)
(* moves along the closed matrix only, a terminal Run never changes again, *)
(* and every authoritative change raises the revision by exactly one.      *)
(***************************************************************************)
EXTENDS RunStateMachine

CONSTANT Runs

VARIABLES
  phase,        \* None until the run is created
  disposition,
  revision

vars == <<phase, disposition, revision>>

Init ==
  /\ phase       = [r \in Runs |-> None]
  /\ disposition = [r \in Runs |-> None]
  /\ revision    = [r \in Runs |-> 0]

Revise(r) == revision' = [revision EXCEPT ![r] = @ + 1]

Advance(r, to, d) ==
  /\ phase'       = [phase EXCEPT ![r] = to]
  /\ disposition' = [disposition EXCEPT ![r] = d]

Create(r) == phase[r] = None /\ Advance(r, "queued", None)

(* A step along the matrix that does not end the run.                      *)
Move(r, to) ==
  /\ CanTransition(phase[r], to)
  /\ to # "terminal"
  /\ Advance(r, to, None)

(* Lease traffic: the phase stays the same, and only while executing.      *)
Touch(r) == phase[r] \in ExecutingPhases /\ Advance(r, phase[r], None)

Finish(r, d) ==
  /\ CanTransition(phase[r], "terminal")
  /\ d = "completed" => phase[r] \in {"running", "waiting", "retrying"}
  /\ Advance(r, "terminal", d)

Next ==
  \E r \in Runs :
    /\ Revise(r)
    /\ \/ Create(r)
       \/ \E to \in Phases : Move(r, to)
       \/ Touch(r)
       \/ \E d \in Dispositions : Finish(r, d)

Spec == Init /\ [][Next]_vars
=============================================================================
