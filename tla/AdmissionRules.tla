----------------------------- MODULE AdmissionRules -----------------------------
(***************************************************************************)
(* The run admission (admission/controller.py) and the budget it is held   *)
(* against (admission/objects.py).                                         *)
(*                                                                         *)
(* A case is what evaluate() reads: the run, its task's release, the       *)
(* policy source, the budget, the principal's regions, and the capacity.   *)
(***************************************************************************)
EXTENDS Orders

NoLimit == -1

-----------------------------------------------------------------------------
(* within: a dimension that is not used counts as zero, and one without a  *)
(* limit is never exceeded.                                                *)
Within(limits, used) ==
  \A dimension \in DOMAIN limits :
    \/ limits[dimension] = NoLimit
    \/ (IF dimension \in DOMAIN used THEN used[dimension] ELSE 0) <= limits[dimension]

-----------------------------------------------------------------------------
(* AdmissionController: each check reports the first thing that is wrong.  *)
Reason(what, of) == [what |-> what, of |-> of]

CheckRelease(case) ==
  CASE case.release = "missing" -> {Reason("release_missing", "run")}
    [] case.release = "draft" -> {Reason("release_not_usable", "run")}
    [] case.release = "incompatible" -> {Reason("release_incompatible_with_task", "run")}
    [] OTHER -> {}

CheckPolicy(case) ==
  CASE case.denied -> {Reason("policy_denied", "run")}
    [] ~ case.denied /\ ~ case.decided -> {Reason("missing_policy_decision", "run")}
    [] OTHER -> {}

CheckBudget(case) ==
  CASE ~ case.snapshot -> {Reason("budget_snapshot_missing", "run")}
    [] case.snapshot /\ ~ Within(case.limits, [steps |-> case.overhead,
                                               model_calls |-> 0, tokens |-> 0]) ->
         {Reason("budget_exhausted", "run")}
    [] OTHER -> {}

CheckRegion(case) ==
  LET outside == {i \in DOMAIN case.regions : case.regions[i] \notin case.region_allowlist} IN
  {Reason("region_not_allowed", case.regions[i]) :
     i \in {i \in outside : \A j \in outside : i <= j}}

CheckBinding(case) ==
  CASE ~ case.adapter -> {Reason("runtime_adapter_missing", "run")}
    [] case.adapter /\ ~ case.agent -> {Reason("agent_definition_missing", "run")}
    [] OTHER -> {}

(* Mutant: the first check that fails ends the evaluation.                 *)
FailuresOfFirstCheck(case) ==
  CASE CheckRelease(case) # {} -> CheckRelease(case)
    [] CheckRelease(case) = {} /\ CheckPolicy(case) # {} -> CheckPolicy(case)
    [] OTHER -> UNION {CheckBudget(case), CheckRegion(case), CheckBinding(case)}

Failures(case) ==
  UNION {CheckRelease(case), CheckPolicy(case), CheckBudget(case),
         CheckRegion(case), CheckBinding(case)}

Evaluate(case) ==
  CASE Failures(case) # {} -> [outcome |-> "rejected", reasons |-> Failures(case)]
    [] Failures(case) = {} /\ case.phase = "queued" /\ ~ case.capacity ->
         [outcome |-> "deferred", reasons |-> {Reason("capacity_unavailable", "run")}]
    [] OTHER -> [outcome |-> "admitted", reasons |-> {Reason("admitted", "run")}]

-----------------------------------------------------------------------------
(* What the caller does about each reason a rejection names.               *)
Remedied(case, reasons) ==
  LET told(what) == \E reason \in reasons : reason.what = what IN
  [case EXCEPT
     !.release = CASE told("release_missing") -> "draft"
                   [] told("release_not_usable") -> "incompatible"
                   [] told("release_incompatible_with_task") -> "usable"
                   [] OTHER -> @,
     !.denied = @ /\ ~ told("policy_denied"),
     !.decided = @ \/ told("missing_policy_decision"),
     !.snapshot = @ \/ told("budget_snapshot_missing"),
     !.overhead = IF told("budget_exhausted") THEN 0 ELSE @,
     !.regions = Filter(@, LAMBDA r : Reason("region_not_allowed", r) \notin reasons),
     !.adapter = @ \/ told("runtime_adapter_missing"),
     !.agent = @ \/ told("agent_definition_missing")]

(* The reasons of a rejection are enough to go by: a caller that remedies  *)
(* what each answer names, and nothing else, is admitted after at most     *)
(* three rejections, or deferred where there is no capacity, and no reason *)
(* is given twice.                                                         *)
AdmissionConverges(case) ==
  LET at[n \in 0..3] ==
        IF n = 0 THEN case
        ELSE IF Evaluate(at[n - 1]).outcome # "rejected" THEN at[n - 1]
        ELSE Remedied(at[n - 1], Evaluate(at[n - 1]).reasons)
      rejected(n) == Evaluate(at[n]).outcome = "rejected" IN
  /\ Evaluate(at[3]).outcome =
       IF case.phase = "queued" /\ ~ case.capacity THEN "deferred" ELSE "admitted"
  /\ \A n \in 1..3 : rejected(n) =>
       Evaluate(at[n]).reasons \intersect Evaluate(at[n - 1]).reasons = {}
=============================================================================
