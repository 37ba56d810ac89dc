---------------------------- MODULE MutationSurface ----------------------------
(***************************************************************************)
(* The pure rules of evolution/: what a symptom is routed to (kernel.py),  *)
(* the one sparse proposal a strategy drafts (strategy.py), and what the   *)
(* machine validation of a proposal says (validator.py).  Subjects and     *)
(* authorities are the profiles of objects.py.                             *)
(*                                                                         *)
(* A value that a patch sets is a number, a truth value (a number to       *)
(* Python, but never inside a range), some text, or none.                  *)
(***************************************************************************)
EXTENDS Integers, Sequences

NoValue == [type |-> "none"]

NumberValue(n) == [type |-> "number", number |-> n]

(* A boolean in a field that has a range is always outside of it.          *)
OtherValues == {[type |-> "bool"], [type |-> "text"]}

Operations == {"add", "remove", "replace"}

RepairLevels == {"r1", "r2", "r3", "r4"}

Patches(targets, paths, values) ==
  [target : targets, path : paths, operation : Operations,
   before : values, after : values]

-----------------------------------------------------------------------------
(* route: governance is told apart first, then evidence is asked for.      *)
Route(symptom, evidence) ==
  CASE symptom = "governance"  -> "ROUTE_GOVERNANCE"
    [] symptom # "governance" /\ ~ evidence -> "NO_EVOLUTION"
    [] symptom = "operational" /\ evidence  -> "OPERATIONAL_ONLY"
    [] symptom = "quality" /\ evidence      -> "MUTATION"

NoDraft == [level |-> "none"]

(* propose: one replacing patch at most, of the field the working set      *)
(* names, unless that repair is known to have failed.                      *)
Propose(input) ==
  IF input.field = "none" \/ input.known_failed \/ input.symptom = "governance"
    THEN NoDraft
    ELSE [level |-> "r1", target |-> input.target,
          changes |-> <<[target |-> input.target, path |-> input.field,
                         operation |-> "replace", before |-> input.before,
                         after |-> input.after]>>]

-----------------------------------------------------------------------------
(* _range_error: text passes where a range is declared.                    *)
OutOfRange(patch, subject) ==
  /\ patch.path \in DOMAIN subject.ranges
  /\ \/ patch.after.type = "bool"
     \/ /\ patch.after.type = "number"
        /\ \/ patch.after.number < subject.ranges[patch.path].low
           \/ patch.after.number > subject.ranges[patch.path].high

(* _shape_error                                                            *)
MisShaped(patch) ==
  CASE patch.operation = "replace" -> patch.before = NoValue /\ patch.after = NoValue
    [] patch.operation = "remove"  -> patch.before = NoValue
    [] patch.operation = "add"     -> patch.after = NoValue

IsGovernance(target) == target = "governance"

(* The first rule a patch breaks; frozen comes before undeclared (MUT-002).*)
PatchError(patch, subject, authority) ==
  IF patch.path \in subject.frozen THEN "frozen_field"
  ELSE IF authority.governance_kernel_frozen /\ IsGovernance(patch.target)
    THEN "governance_kernel_frozen"
  ELSE IF patch.path \notin subject.mutable THEN "undeclared_field"
  ELSE IF OutOfRange(patch, subject) THEN "out_of_range"
  ELSE IF MisShaped(patch) THEN "shape"
  ELSE "none"

TargetsOf(changes) == {changes[i].target : i \in DOMAIN changes}

Faults(changes, subject, authority) ==
  {i \in DOMAIN changes : PatchError(changes[i], subject, authority) # "none"}

(* validate: the reason of the first check that fails, or "valid".         *)
Validation(proposal, subject, authority) ==
  LET changes == proposal.changes
      broken  == Faults(changes, subject, authority) IN
  IF ~ authority.allow_mutation THEN "mutation_disabled_by_policy"
  ELSE IF \A t \in TargetsOf(changes) : TargetsOf(changes) # {t}
    THEN "multiple_repair_targets"
  ELSE IF proposal.target \notin TargetsOf(changes) THEN "patch_target_mismatch"
  ELSE IF proposal.level \notin subject.levels THEN "repair_level_not_allowed"
  ELSE IF Len(changes) > subject.max_patch_fields THEN "patch_too_wide"
  ELSE IF broken = {} THEN "valid"
  ELSE PatchError(changes[CHOOSE i \in broken : \A j \in broken : i <= j],
                  subject, authority)

-----------------------------------------------------------------------------
(* A subject with more to mutate, less that is frozen, wider ranges, more  *)
(* levels and more fields to a patch.                                      *)
Wider(subject) ==
  {[subject EXCEPT !.mutable = @ \union subject.frozen],
   [subject EXCEPT !.frozen = {}],
   [subject EXCEPT !.ranges = [f \in DOMAIN @ |-> [low |-> @[f].low - 1, high |-> @[f].high + 1]]],
   [subject EXCEPT !.levels = RepairLevels],
   [subject EXCEPT !.max_patch_fields = @ + 1]}

(* The surface is an intersection of bounds (MUT-001 to MUT-008): what is  *)
(* valid stays valid when a bound is lifted, and so does every part of it, *)
(* so no patch gets through in the company or in the shade of another.     *)
SurfaceIsMonotone(proposal, subject, authority) ==
  LET changes == proposal.changes
      part(n) == [proposal EXCEPT !.changes = <<changes[n]>>] IN
  Validation(proposal, subject, authority) = "valid" =>
    /\ \A wider \in Wider(subject) : Validation(proposal, wider, authority) = "valid"
    /\ Validation(proposal, subject, [authority EXCEPT !.governance_kernel_frozen = FALSE])
         = "valid"
    /\ \A n \in DOMAIN changes : Validation(part(n), subject, authority) = "valid"
=============================================================================
