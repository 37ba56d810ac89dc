------------------------------- MODULE EvalRules -------------------------------
(***************************************************************************)
(* An evaluation run over a frozen dataset (eval/eval.py).                 *)
(*                                                                         *)
(* An output says of each hard condition whether it meets it and whether   *)
(* it is complete; a case nobody answered has the empty output.  A value   *)
(* that is absent, empty, false or the number zero does not meet its       *)
(* condition.  Scores are whole tenths.                                    *)
(***************************************************************************)
EXTENDS Integers, Sequences, FiniteSets

NoOutput == [met |-> {}, complete |-> FALSE]

-----------------------------------------------------------------------------
(* EvalRunner.run                                                          *)
HardFails(case, outputs, conditions) ==
  LET output == IF case \in DOMAIN outputs THEN outputs[case] ELSE NoOutput IN
  conditions \ output.met # {}

Score(case, outputs) ==
  IF case \in DOMAIN outputs /\ outputs[case].complete THEN 10 ELSE 0

Passed(case, outputs, conditions) ==
  ~ HardFails(case, outputs, conditions) /\ Score(case, outputs) > 0

Outcome(passed, total) ==
  CASE total # 0 /\ 10 * passed >= 8 * total -> "pass"
    [] total # 0 /\ 10 * passed < 8 * total /\ 10 * passed >= 4 * total -> "inconclusive"
    [] OTHER -> "fail"

(* Mutant: a case that fails a hard condition is not judged.               *)
RunSkippingFails(cases, outputs, conditions, min_sample) ==
  LET judged == {case \in cases : ~ HardFails(case, outputs, conditions)} IN
  IF Cardinality(cases) < min_sample THEN "inconclusive"
  ELSE Outcome(Cardinality({case \in judged : Passed(case, outputs, conditions)}),
               Cardinality(judged))

Run(cases, outputs, conditions, min_sample) ==
  CASE Cardinality(cases) < min_sample -> "inconclusive"
    [] Cardinality(cases) >= min_sample
         /\ \E case \in cases : HardFails(case, outputs, conditions) -> "fail"
    [] OTHER -> Outcome(Cardinality({case \in cases : Passed(case, outputs, conditions)}),
                        Cardinality(cases))

-----------------------------------------------------------------------------
Rank(outcome) ==
  CASE outcome = "fail" -> 0 [] outcome = "inconclusive" -> 1 [] outcome = "pass" -> 2

(* A better candidate is never judged worse: to meet one more condition or *)
(* to complete one more case does not lower the outcome of a run, and      *)
(* neither does one more case that passes, once there are enough of them.  *)
EvaluationIsMonotone(cases, outputs, conditions, min_sample) ==
  LET rank(over, given) == Rank(Run(over, given, conditions, min_sample)) IN
  /\ \A case \in cases \intersect DOMAIN outputs :
       LET better == [outputs[case] EXCEPT !.complete = TRUE] IN
       /\ rank(cases, outputs) <= rank(cases, [outputs EXCEPT ![case] = better])
       /\ \A condition \in conditions :
            rank(cases, outputs)
              <= rank(cases, [outputs EXCEPT ![case].met = @ \union {condition}])
  /\ \A case \in cases :
       Passed(case, outputs, conditions) /\ Cardinality(cases) > min_sample =>
         rank(cases \ {case}, outputs) <= rank(cases, outputs)
=============================================================================
