------------------------------ MODULE RulesProofs ------------------------------
(***************************************************************************)
(* The pure rules over all inputs of their shape: the answers of the policy*)
(* decision point, the identity of an action, the outcome of an evaluation,*)
(* the validation of a proposal, the chain a release is activated from, the*)
(* rejections of admission, hybrid search and evidence packs, the token    *)
(* budget and the manifest of a context, the repair of output, the summary *)
(* of a run and the codec of payloads.  Folds and lists are reasoned about *)
(* with the lemmas of SequenceFacts.                                       *)
(* At the end, what the decisions run checks of them is derived from the   *)
(* theorems about all inputs.                                              *)
(***************************************************************************)
EXTENDS MCDecisions, SequenceFacts

-----------------------------------------------------------------------------
(* AccessRules.  What decides about an answer of the decision point.       *)
NeedsApproval(rules, action, resource) ==
  \E rule \in MatchingRules(rules, action, resource) : rule.require_approval

MayPass(roles, rules, action, resource) ==
  /\ \E rule \in MatchingRules(rules, action, resource) : rule.effect = "allow"
  /\ SharedRoles(roles, rules) # {}

LEMMA PolicyAnswers ==
  ASSUME NEW roles, NEW rules, NEW action, NEW resource
  PROVE  PolicyDecision(roles, rules, action, resource) =
           IF MatchingRules(rules, action, resource) = {}
             THEN [outcome |-> "deny", reason |-> "no_matching_rule"]
           ELSE IF NeedsApproval(rules, action, resource)
             THEN [outcome |-> "require_approval", reason |-> "approval_required"]
           ELSE IF MayPass(roles, rules, action, resource)
             THEN [outcome |-> "allow", reason |-> "rule_matched"]
             ELSE [outcome |-> "deny", reason |-> "missing_role"]
BY DEF PolicyDecision, NeedsApproval, MayPass

(* For any set of rules, roles of the caller, action and resource: a rule  *)
(* more that allows only ever adds to what is allowed or asks for approval,*)
(* none takes a demand for approval away, and none that does not match does*)
(* more than share its roles.                                              *)
THEOREM RulesAlwaysAddUp ==
  ASSUME NEW roles, NEW rules, NEW action, NEW resource
  PROVE  RulesAddUp(roles, rules, action, resource)
<1> SUFFICES ASSUME NEW rule \in rules
             PROVE  LET with == PolicyDecision(roles, rules, action, resource)
                        without == PolicyDecision(roles, rules \ {rule}, action, resource) IN
                    /\ without.outcome = "require_approval" => with.outcome = "require_approval"
                    /\ rule.effect = "allow" /\ without.outcome = "allow" =>
                         with.outcome \in {"allow", "require_approval"}
                    /\ rule \notin MatchingRules(rules, action, resource) /\ with # without =>
                         /\ without.reason = "missing_role"
                         /\ with.outcome = "allow"
                         /\ rule.roles \intersect roles # {}
  BY DEF RulesAddUp
<1> DEFINE fewer == rules \ {rule}
<1>1. /\ MatchingRules(fewer, action, resource) \subseteq MatchingRules(rules, action, resource)
      /\ rule \notin MatchingRules(rules, action, resource) =>
           MatchingRules(fewer, action, resource) = MatchingRules(rules, action, resource)
  BY DEF MatchingRules
<1>2. /\ SharedRoles(roles, fewer) \subseteq SharedRoles(roles, rules)
      /\ SharedRoles(roles, rules) \subseteq
           SharedRoles(roles, fewer) \union (rule.roles \intersect roles)
  BY DEF SharedRoles
<1>3. NeedsApproval(fewer, action, resource) => NeedsApproval(rules, action, resource)
  BY <1>1 DEF NeedsApproval
<1>4. MayPass(roles, fewer, action, resource) => MayPass(roles, rules, action, resource)
  BY <1>1, <1>2 DEF MayPass
<1>5. rule \notin MatchingRules(rules, action, resource) =>
        /\ NeedsApproval(fewer, action, resource) <=> NeedsApproval(rules, action, resource)
        /\ MayPass(roles, rules, action, resource) /\ ~ MayPass(roles, fewer, action, resource)
             => rule.roles \intersect roles # {}
  BY <1>1, <1>2 DEF NeedsApproval, MayPass
<1>6. MayPass(roles, fewer, action, resource) => MatchingRules(fewer, action, resource) # {}
  BY DEF MayPass
<1>7. NeedsApproval(fewer, action, resource) => MatchingRules(fewer, action, resource) # {}
  BY DEF NeedsApproval
<1> HIDE DEF fewer
<1>8. PolicyDecision(roles, fewer, action, resource).outcome = "require_approval"
        => PolicyDecision(roles, rules, action, resource).outcome = "require_approval"
  BY <1>1, <1>3, PolicyAnswers
<1>9. PolicyDecision(roles, fewer, action, resource).outcome = "allow"
        => PolicyDecision(roles, rules, action, resource).outcome \in {"allow", "require_approval"}
  BY <1>1, <1>4, PolicyAnswers
<1>10. ASSUME rule \notin MatchingRules(rules, action, resource),
              PolicyDecision(roles, fewer, action, resource)
                # PolicyDecision(roles, rules, action, resource)
       PROVE  /\ PolicyDecision(roles, fewer, action, resource).reason = "missing_role"
              /\ PolicyDecision(roles, rules, action, resource).outcome = "allow"
              /\ rule.roles \intersect roles # {}
  BY <1>1, <1>4, <1>5, <1>10, PolicyAnswers
<1> QED  BY <1>8, <1>9, <1>10 DEF fewer

(* The arguments of a call and the calls themselves, over any values,      *)
(* spellings, places in dicts, capabilities and names of arguments.        *)
ArgumentsOver(values, spellings, places) ==
  [kind : {"text", "decimal", "moment", "int", "float", "bool"},
   value : values, spelling : spellings, within : places]

CallsOver(capabilities, names, arguments) ==
  [capability : capabilities,
   arguments : UNION {[keys -> arguments] : keys \in SUBSET names}]

Written(argument) == argument.kind \in {"text", "decimal", "moment"}

Meaning(argument) ==
  <<IF Written(argument) THEN "text" ELSE argument.kind, argument.value,
    IF Written(argument) THEN "any" ELSE argument.spelling, argument.within>>

LEMMA CanonicalForms ==
  ASSUME NEW values, NEW spellings, NEW places,
         NEW a \in ArgumentsOver(values, spellings, places)
  PROVE  Canonical(a) =
           [kind |-> IF Written(a) THEN "text" ELSE a.kind, value |-> a.value,
            spelling |-> IF Written(a) THEN "canonical" ELSE a.spelling,
            within |-> a.within]
BY DEF Canonical, AsText, Written, ArgumentsOver

LEMMA CanonicalTells ==
  ASSUME NEW values, NEW spellings, NEW places,
         NEW a \in ArgumentsOver(values, spellings, places),
         NEW b \in ArgumentsOver(values, spellings, places)
  PROVE  Canonical(a) = Canonical(b) <=> Meaning(a) = Meaning(b)
<1> DEFINE kind(x) == IF Written(x) THEN "text" ELSE x.kind
           spelling(x) == IF Written(x) THEN "canonical" ELSE x.spelling
           any(x) == IF Written(x) THEN "any" ELSE x.spelling
<1>1. /\ Canonical(a) = [kind |-> kind(a), value |-> a.value, spelling |-> spelling(a),
                         within |-> a.within]
      /\ Canonical(b) = [kind |-> kind(b), value |-> b.value, spelling |-> spelling(b),
                         within |-> b.within]
  BY CanonicalForms
<1>2. /\ Meaning(a) = <<kind(a), a.value, any(a), a.within>>
      /\ Meaning(b) = <<kind(b), b.value, any(b), b.within>>
  BY DEF Meaning
<1>3. kind(a) = kind(b) => (Written(a) <=> Written(b))
  BY DEF ArgumentsOver, Written
<1>4. kind(a) = kind(b) => (spelling(a) = spelling(b) <=> any(a) = any(b))
  BY <1>3
<1> HIDE DEF kind, spelling, any
<1>5. Canonical(a) = Canonical(b) <=>
        /\ kind(a) = kind(b) /\ a.value = b.value /\ spelling(a) = spelling(b)
        /\ a.within = b.within
  BY <1>1
<1>6. Meaning(a) = Meaning(b) <=>
        kind(a) = kind(b) /\ a.value = b.value /\ any(a) = any(b) /\ a.within = b.within
  BY <1>2
<1> QED  BY <1>4, <1>5, <1>6

(* For any two calls and secret keys: one action exactly if all arguments  *)
(* but those with a secret key mean the same, a decimal and a moment the   *)
(* text they are written as.                                               *)
THEOREM KeysAlwaysTellCallsApart ==
  ASSUME NEW values, NEW spellings, NEW places, NEW capabilities, NEW names, NEW secret_keys,
         NEW one \in CallsOver(capabilities, names, ArgumentsOver(values, spellings, places)),
         NEW other \in CallsOver(capabilities, names, ArgumentsOver(values, spellings, places))
  PROVE  KeysTellCallsApart(one, other, secret_keys)
<1> DEFINE A == one.arguments
           B == other.arguments
           canonical(arguments) == CanonicalArguments(arguments, secret_keys)
<1>1. /\ one = [capability |-> one.capability, arguments |-> A]
      /\ other = [capability |-> other.capability, arguments |-> B]
      /\ A = [key \in DOMAIN A |-> A[key]] /\ B = [key \in DOMAIN B |-> B[key]]
      /\ \A key \in DOMAIN A : A[key] \in ArgumentsOver(values, spellings, places)
      /\ \A key \in DOMAIN B : B[key] \in ArgumentsOver(values, spellings, places)
  BY DEF CallsOver
<1>2. /\ ActionKey(one, secret_keys) = [capability |-> one.capability, arguments |-> canonical(A)]
      /\ ActionKey(other, secret_keys) = [capability |-> other.capability, arguments |-> canonical(B)]
  BY DEF ActionKey, CallsOver
<1>3. /\ canonical(A) = [key \in DOMAIN A |-> IF key \in secret_keys THEN Redacted ELSE Canonical(A[key])]
      /\ canonical(B) = [key \in DOMAIN B |-> IF key \in secret_keys THEN Redacted ELSE Canonical(B[key])]
  BY DEF CanonicalArguments
<1> HIDE DEF A, B, canonical
<1>4. ActionKey(one, secret_keys) = ActionKey(other, secret_keys) <=>
        one.capability = other.capability /\ canonical(A) = canonical(B)
  BY <1>2
<1>5. canonical(A) = canonical(B) <=>
        /\ DOMAIN A = DOMAIN B
        /\ \A key \in DOMAIN A \ secret_keys : Canonical(A[key]) = Canonical(B[key])
  BY <1>3
<1>6. DOMAIN A = DOMAIN B =>
        \A key \in DOMAIN A : Canonical(A[key]) = Canonical(B[key]) <=> Meaning(A[key]) = Meaning(B[key])
  BY <1>1, CanonicalTells
<1>7. ActionKey(one, secret_keys) = ActionKey(other, secret_keys) <=>
        /\ one.capability = other.capability
        /\ DOMAIN A = DOMAIN B
        /\ \A key \in DOMAIN A \ secret_keys : Meaning(A[key]) = Meaning(B[key])
  BY <1>4, <1>5, <1>6
<1> QED  BY <1>7 DEF KeysTellCallsApart, Meaning, Written, A, B

-----------------------------------------------------------------------------
(* EvalRules.  An output may tell of conditions that no one asked for.     *)
OutputsOver(answered, told) ==
  [answered -> [met : SUBSET told, complete : BOOLEAN]]

LEMMA MorePassNoWorse ==
  ASSUME NEW p \in Nat, NEW q \in Nat, NEW n \in Nat, NEW m \in Nat,
         10 * p >= 8 * n => 10 * q >= 8 * m, 10 * p >= 4 * n => 10 * q >= 4 * m,
         m = 0 => n = 0
  PROVE  Rank(Outcome(p, n)) <= Rank(Outcome(q, m))
<1>1. /\ n # 0 /\ 10 * p >= 8 * n => Rank(Outcome(p, n)) = 2
      /\ n # 0 /\ ~ (10 * p >= 8 * n) /\ 10 * p >= 4 * n => Rank(Outcome(p, n)) = 1
      /\ n = 0 \/ ~ (10 * p >= 4 * n) => Rank(Outcome(p, n)) = 0
  BY DEF Rank, Outcome
<1>2. /\ m # 0 /\ 10 * q >= 8 * m => Rank(Outcome(q, m)) = 2
      /\ m # 0 /\ ~ (10 * q >= 8 * m) /\ 10 * q >= 4 * m => Rank(Outcome(q, m)) = 1
      /\ m = 0 \/ ~ (10 * q >= 4 * m) => Rank(Outcome(q, m)) = 0
  BY DEF Rank, Outcome
<1> QED  BY <1>1, <1>2

LEMMA RankOfOutcome ==
  ASSUME NEW q \in Nat, NEW m \in Nat
  PROVE  0 <= Rank(Outcome(q, m))
<1>1. Outcome(q, m) \in {"pass", "inconclusive", "fail"}
  BY DEF Outcome
<1> QED  BY <1>1 DEF Rank

LEMMA RankOfRun ==
  ASSUME NEW cases, IsFiniteSet(cases), NEW outputs, NEW conditions, NEW min_sample \in Nat
  PROVE  LET passed == {case \in cases : Passed(case, outputs, conditions)}
             fails == \E case \in cases : HardFails(case, outputs, conditions)
             rank == Rank(Run(cases, outputs, conditions, min_sample)) IN
         /\ passed \subseteq cases /\ IsFiniteSet(passed)
         /\ Cardinality(passed) \in Nat /\ Cardinality(cases) \in Nat
         /\ Cardinality(cases) < min_sample => rank = 1
         /\ ~ Cardinality(cases) < min_sample /\ fails => rank = 0
         /\ ~ Cardinality(cases) < min_sample /\ ~ fails =>
              rank = Rank(Outcome(Cardinality(passed), Cardinality(cases)))
<1> DEFINE passed == {case \in cases : Passed(case, outputs, conditions)}
<1>1. passed \subseteq cases /\ IsFiniteSet(passed)
  BY FS_Subset
<1>2. Cardinality(passed) \in Nat /\ Cardinality(cases) \in Nat
  BY <1>1, FS_CardinalityType
<1> DEFINE fails == \E case \in cases : HardFails(case, outputs, conditions)
           run == Run(cases, outputs, conditions, min_sample)
           p == Cardinality(passed)
           n == Cardinality(cases)
<1>3. run = IF n < min_sample THEN "inconclusive" ELSE IF fails THEN "fail" ELSE Outcome(p, n)
  <2> DEFINE enough == n >= min_sample
  <2>1. enough <=> ~ n < min_sample
    BY <1>2
  <2>2. run = CASE n < min_sample -> "inconclusive" [] enough /\ fails -> "fail"
                [] OTHER -> Outcome(p, n)
    BY DEF Run
  <2> HIDE DEF n, p, fails, run, enough
  <2> QED  BY <2>1, <2>2
<1>4. Rank("inconclusive") = 1 /\ Rank("fail") = 0
  BY DEF Rank
<1> HIDE DEF run, n, p, fails
<1>5. /\ n < min_sample => Rank(run) = 1
      /\ ~ n < min_sample /\ fails => Rank(run) = 0
      /\ ~ n < min_sample /\ ~ fails => Rank(run) = Rank(Outcome(p, n))
  BY <1>3, <1>4
<1> QED  BY <1>1, <1>2, <1>5 DEF run, n, p, fails

(* Outputs under which no more cases fail and no fewer pass.               *)
LEMMA BetterOutputs ==
  ASSUME NEW cases, IsFiniteSet(cases), NEW one, NEW other, NEW conditions,
         NEW min_sample \in Nat,
         \A case \in cases :
           /\ HardFails(case, other, conditions) => HardFails(case, one, conditions)
           /\ Passed(case, one, conditions) => Passed(case, other, conditions)
  PROVE  Rank(Run(cases, one, conditions, min_sample))
           <= Rank(Run(cases, other, conditions, min_sample))
<1> DEFINE passed(outputs) == {case \in cases : Passed(case, outputs, conditions)}
           fails(outputs) == \E case \in cases : HardFails(case, outputs, conditions)
           rank(outputs) == Rank(Run(cases, outputs, conditions, min_sample))
           p == Cardinality(passed(one))
           q == Cardinality(passed(other))
           n == Cardinality(cases)
<1>1. passed(one) \subseteq passed(other) /\ (fails(other) => fails(one))
  OBVIOUS
<1>2. /\ IsFiniteSet(passed(other)) /\ p \in Nat /\ q \in Nat /\ n \in Nat
      /\ n < min_sample => rank(one) = 1 /\ rank(other) = 1
      /\ ~ n < min_sample /\ fails(one) => rank(one) = 0
      /\ ~ n < min_sample /\ fails(other) => rank(other) = 0
      /\ ~ n < min_sample /\ ~ fails(one) => rank(one) = Rank(Outcome(p, n))
      /\ ~ n < min_sample /\ ~ fails(other) => rank(other) = Rank(Outcome(q, n))
  BY RankOfRun
<1>3. p <= q
  BY <1>1, <1>2, FS_Subset
<1>4. Rank(Outcome(p, n)) <= Rank(Outcome(q, n)) /\ 0 <= Rank(Outcome(q, n))
  <2>1. Rank(Outcome(p, n)) <= Rank(Outcome(q, n))
    <3> HIDE DEF p, q, n
    <3> QED  BY <1>2, <1>3, MorePassNoWorse
  <2>2. 0 <= Rank(Outcome(q, n))
    BY <1>2, RankOfOutcome
  <2> QED  BY <2>1, <2>2
<1> HIDE DEF passed, fails, rank, p, q, n
<1>5. rank(one) <= rank(other)
  BY <1>1, <1>2, <1>4
<1> QED  BY <1>5 DEF rank

(* One more case that passes.                                              *)
LEMMA AnotherThatPasses ==
  ASSUME NEW cases, IsFiniteSet(cases), NEW outputs, NEW conditions, NEW min_sample \in Nat,
         NEW case \in cases, Passed(case, outputs, conditions),
         Cardinality(cases) > min_sample
  PROVE  Rank(Run(cases \ {case}, outputs, conditions, min_sample))
           <= Rank(Run(cases, outputs, conditions, min_sample))
<1> DEFINE passed(over) == {c \in over : Passed(c, outputs, conditions)}
           fails(over) == \E c \in over : HardFails(c, outputs, conditions)
           rank(over) == Rank(Run(over, outputs, conditions, min_sample))
           fewer == cases \ {case}
           p == Cardinality(passed(fewer))
           q == Cardinality(passed(cases))
           n == Cardinality(fewer)
           m == Cardinality(cases)
<1>1. IsFiniteSet(fewer) /\ n = m - 1
  BY FS_RemoveElement
<1>2. /\ fails(cases) => fails(fewer)
      /\ passed(fewer) = passed(cases) \ {case} /\ case \in passed(cases)
  <2>1. ~ HardFails(case, outputs, conditions)
    BY DEF Passed
  <2>2. fails(cases) => fails(fewer)
    BY <2>1
  <2>3. passed(fewer) = passed(cases) \ {case} /\ case \in passed(cases)
    OBVIOUS
  <2> QED  BY <2>2, <2>3
<1>3. /\ IsFiniteSet(passed(cases)) /\ p \in Nat /\ q \in Nat /\ n \in Nat /\ m \in Nat
      /\ ~ n < min_sample /\ fails(fewer) => rank(fewer) = 0
      /\ ~ n < min_sample /\ ~ fails(fewer) => rank(fewer) = Rank(Outcome(p, n))
      /\ ~ m < min_sample /\ fails(cases) => rank(cases) = 0
      /\ ~ m < min_sample /\ ~ fails(cases) => rank(cases) = Rank(Outcome(q, m))
  <2>1. /\ IsFiniteSet(passed(cases)) /\ q \in Nat /\ m \in Nat
        /\ ~ m < min_sample /\ fails(cases) => rank(cases) = 0
        /\ ~ m < min_sample /\ ~ fails(cases) => rank(cases) = Rank(Outcome(q, m))
    BY RankOfRun
  <2>2. IsFiniteSet(fewer)
    BY <1>1
  <2> HIDE DEF fewer
  <2>3. /\ p \in Nat /\ n \in Nat
        /\ ~ n < min_sample /\ fails(fewer) => rank(fewer) = 0
        /\ ~ n < min_sample /\ ~ fails(fewer) => rank(fewer) = Rank(Outcome(p, n))
    BY <2>2, RankOfRun
  <2> QED  BY <2>1, <2>3
<1>4. p = q - 1
  BY <1>2, <1>3, FS_RemoveElement
<1>5. p <= n
  <2>1. passed(fewer) \subseteq fewer
    OBVIOUS
  <2> QED  BY <1>1, <2>1, FS_Subset
<1> HIDE DEF passed, fails, rank, fewer, p, q, n, m
<1>6. Rank(Outcome(p, n)) <= Rank(Outcome(q, m)) /\ 0 <= Rank(Outcome(q, m))
  <2>1. Rank(Outcome(p, n)) <= Rank(Outcome(q, m))
    BY <1>1, <1>3, <1>4, <1>5, MorePassNoWorse
  <2>2. 0 <= Rank(Outcome(q, m))
    BY <1>3, RankOfOutcome
  <2> QED  BY <2>1, <2>2
<1>7. ~ n < min_sample /\ ~ m < min_sample
  BY <1>1, <1>3 DEF m
<1>8. rank(fewer) <= rank(cases)
  BY <1>2, <1>3, <1>6, <1>7
<1> QED  BY <1>8 DEF rank, fewer

(* An answer that meets no fewer conditions and is no less complete.       *)
LEMMA BetterAnswer ==
  ASSUME NEW cases, IsFiniteSet(cases), NEW answered, NEW conditions, NEW min_sample \in Nat,
         NEW told, NEW outputs \in OutputsOver(answered, told),
         NEW case \in cases \intersect DOMAIN outputs,
         NEW output \in [met : SUBSET told, complete : BOOLEAN],
         outputs[case].met \subseteq output.met, outputs[case].complete => output.complete
  PROVE  Rank(Run(cases, outputs, conditions, min_sample))
           <= Rank(Run(cases, [outputs EXCEPT ![case] = output], conditions, min_sample))
<1> DEFINE better == [outputs EXCEPT ![case] = output]
<1>1. /\ DOMAIN better = DOMAIN outputs /\ better[case] = output
      /\ \A c \in DOMAIN outputs \ {case} : better[c] = outputs[c]
  BY DEF OutputsOver
<1> HIDE DEF better
<1>2. \A c \in cases : HardFails(c, better, conditions) => HardFails(c, outputs, conditions)
  BY <1>1 DEF HardFails
<1>3. \A c \in cases : Score(c, outputs) > 0 => Score(c, better) > 0
  BY <1>1 DEF Score
<1>4. \A c \in cases : Passed(c, outputs, conditions) => Passed(c, better, conditions)
  BY <1>2, <1>3 DEF Passed
<1> QED  BY <1>2, <1>4, BetterOutputs DEF better

(* For any finite set of cases, outputs, conditions and sample size: to meet *)
(* or to complete more, or one more case that passes, never lowers it.     *)
THEOREM EvaluationIsAlwaysMonotone ==
  ASSUME NEW cases, IsFiniteSet(cases), NEW answered, NEW min_sample \in Nat,
         NEW told, NEW conditions \in SUBSET told, NEW outputs \in OutputsOver(answered, told)
  PROVE  EvaluationIsMonotone(cases, outputs, conditions, min_sample)
<1>1. ASSUME NEW case \in cases \intersect DOMAIN outputs
      PROVE  LET better == [outputs[case] EXCEPT !.complete = TRUE] IN
             Rank(Run(cases, outputs, conditions, min_sample))
               <= Rank(Run(cases, [outputs EXCEPT ![case] = better], conditions, min_sample))
  <2> DEFINE better == [outputs[case] EXCEPT !.complete = TRUE]
  <2>1. /\ better \in [met : SUBSET told, complete : BOOLEAN]
        /\ better.met = outputs[case].met /\ better.complete
    BY DEF OutputsOver
  <2> HIDE DEF better
  <2>2. Rank(Run(cases, outputs, conditions, min_sample))
          <= Rank(Run(cases, [outputs EXCEPT ![case] = better], conditions, min_sample))
    BY <2>1, BetterAnswer
  <2> QED  BY <2>2 DEF better
<1>2. ASSUME NEW case \in cases \intersect DOMAIN outputs, NEW condition \in conditions
      PROVE  Rank(Run(cases, outputs, conditions, min_sample))
               <= Rank(Run(cases, [outputs EXCEPT ![case].met = @ \union {condition}],
                           conditions, min_sample))
  <2> DEFINE output == [outputs[case] EXCEPT !.met = @ \union {condition}]
  <2>1. /\ output \in [met : SUBSET told, complete : BOOLEAN]
        /\ outputs[case].met \subseteq output.met
        /\ output.complete = outputs[case].complete
    BY DEF OutputsOver
  <2>2. [outputs EXCEPT ![case].met = @ \union {condition}] = [outputs EXCEPT ![case] = output]
    BY DEF OutputsOver
  <2> HIDE DEF output
  <2>3. Rank(Run(cases, outputs, conditions, min_sample))
          <= Rank(Run(cases, [outputs EXCEPT ![case] = output], conditions, min_sample))
    BY <2>1, BetterAnswer
  <2> QED  BY <2>2, <2>3
<1> QED  BY <1>1, <1>2, AnotherThatPasses DEF EvaluationIsMonotone

-----------------------------------------------------------------------------
(* MutationSurface.  Values are told apart by their type, and a number of  *)
(* a patch or of a range is any integer.                                   *)
ProposedValues == {NoValue} \union {NumberValue(n) : n \in Int} \union OtherValues

Subjects(fields) ==
  [mutable : SUBSET fields, frozen : SUBSET fields, levels : SUBSET RepairLevels,
   max_patch_fields : Nat,
   ranges : UNION {[some -> [low : Int, high : Int]] : some \in SUBSET fields}]

Authorities == [allow_mutation : BOOLEAN, governance_kernel_frozen : BOOLEAN]

Proposals(targets, fields) ==
  [target : targets, level : RepairLevels,
   changes : Seq(Patches(targets, fields, ProposedValues))]

Errors == {"frozen_field", "governance_kernel_frozen", "undeclared_field", "out_of_range", "shape"}

LEMMA ErrorOfAPatch ==
  ASSUME NEW patch, NEW subject, NEW authority
  PROVE  /\ PatchError(patch, subject, authority) \in Errors \union {"none"}
         /\ PatchError(patch, subject, authority) = "none" <=>
              /\ patch.path \notin subject.frozen
              /\ ~ (authority.governance_kernel_frozen /\ IsGovernance(patch.target))
              /\ patch.path \in subject.mutable
              /\ ~ OutOfRange(patch, subject)
              /\ ~ MisShaped(patch)
BY DEF PatchError, Errors

(* All that a valid proposal has to be.                                    *)
IsValid(proposal, subject, authority) ==
  /\ authority.allow_mutation
  /\ \E t \in TargetsOf(proposal.changes) : TargetsOf(proposal.changes) = {t}
  /\ proposal.target \in TargetsOf(proposal.changes)
  /\ proposal.level \in subject.levels
  /\ Len(proposal.changes) <= subject.max_patch_fields
  /\ \A i \in DOMAIN proposal.changes :
       PatchError(proposal.changes[i], subject, authority) = "none"

LEMMA ValidProposals ==
  ASSUME NEW proposal, NEW subject, NEW authority,
         NEW patches, proposal.changes \in Seq(patches), subject.max_patch_fields \in Nat
  PROVE  Validation(proposal, subject, authority) = "valid" <=>
           IsValid(proposal, subject, authority)
<1> DEFINE changes == proposal.changes
           broken == Faults(changes, subject, authority)
           first == CHOOSE i \in broken : \A j \in broken : i <= j
           several == \A t \in TargetsOf(changes) : TargetsOf(changes) # {t}
           wide == Len(changes) > subject.max_patch_fields
<1>1. broken = {} <=> \A i \in DOMAIN changes : PatchError(changes[i], subject, authority) = "none"
  BY DEF Faults
<1>2. wide <=> ~ Len(changes) <= subject.max_patch_fields
  BY LenProperties
<1>3. PatchError(changes[first], subject, authority) # "valid"
  BY ErrorOfAPatch DEF Errors
<1>4. Validation(proposal, subject, authority) =
        IF ~ authority.allow_mutation THEN "mutation_disabled_by_policy"
        ELSE IF several THEN "multiple_repair_targets"
        ELSE IF proposal.target \notin TargetsOf(changes) THEN "patch_target_mismatch"
        ELSE IF proposal.level \notin subject.levels THEN "repair_level_not_allowed"
        ELSE IF wide THEN "patch_too_wide"
        ELSE IF broken = {} THEN "valid"
        ELSE PatchError(changes[first], subject, authority)
  BY DEF Validation
<1>5. IsValid(proposal, subject, authority) <=>
        /\ authority.allow_mutation
        /\ ~ several
        /\ proposal.target \in TargetsOf(changes)
        /\ proposal.level \in subject.levels
        /\ ~ wide
        /\ broken = {}
  BY <1>1, <1>2 DEF IsValid
<1> HIDE DEF changes, broken, first, several, wide
<1> QED  BY <1>3, <1>4, <1>5

(* A patch that no bound refuses is refused by none that is lifted.        *)
LEMMA WiderRangesLetPass ==
  ASSUME NEW targets, NEW fields, NEW subject \in Subjects(fields),
         NEW patch \in Patches(targets, fields, ProposedValues),
         NEW wider,
         wider.ranges = [f \in DOMAIN subject.ranges |->
                           [low |-> subject.ranges[f].low - 1, high |-> subject.ranges[f].high + 1]],
         OutOfRange(patch, wider)
  PROVE  OutOfRange(patch, subject)
<1>1. patch.path \in DOMAIN subject.ranges
  BY DEF OutOfRange
<1>2. /\ subject.ranges[patch.path].low \in Int /\ subject.ranges[patch.path].high \in Int
      /\ wider.ranges[patch.path].low = subject.ranges[patch.path].low - 1
      /\ wider.ranges[patch.path].high = subject.ranges[patch.path].high + 1
  BY <1>1 DEF Subjects
<1>3. patch.after.type = "number" => patch.after.number \in Int
  BY DEF Patches, ProposedValues, NoValue, NumberValue, OtherValues
<1> QED  BY <1>1, <1>2, <1>3 DEF OutOfRange

(* What is valid stays valid under bounds that are no tighter.             *)
LEMMA LooserBounds ==
  ASSUME NEW proposal, NEW one, NEW other, NEW authority,
         NEW patches, proposal.changes \in Seq(patches),
         one.max_patch_fields \in Nat, other.max_patch_fields \in Nat,
         one.max_patch_fields <= other.max_patch_fields,
         one.levels \subseteq other.levels,
         other.frozen \subseteq one.frozen,
         one.mutable \subseteq other.mutable,
         \A patch \in patches : OutOfRange(patch, other) => OutOfRange(patch, one),
         Validation(proposal, one, authority) = "valid"
  PROVE  Validation(proposal, other, authority) = "valid"
<1> DEFINE changes == proposal.changes
<1>1. IsValid(proposal, one, authority)
  BY ValidProposals
<1>2. ASSUME NEW i \in DOMAIN changes
      PROVE  PatchError(changes[i], other, authority) = "none"
  <2>1. changes[i] \in patches
    BY ElementOfSeq, LenProperties
  <2>2. PatchError(changes[i], one, authority) = "none"
    BY <1>1 DEF IsValid
  <2> DEFINE patch == changes[i]
  <2> HIDE DEF patch, changes
  <2>3. PatchError(patch, one, authority) = "none"
    BY <2>2 DEF patch
  <2>4. PatchError(patch, other, authority) = "none"
    BY <2>1, <2>3, ErrorOfAPatch DEF patch
  <2> QED  BY <2>4 DEF patch
<1>3. Len(changes) <= other.max_patch_fields
  BY <1>1, LenProperties DEF IsValid
<1>4. IsValid(proposal, other, authority)
  BY <1>1, <1>2, <1>3 DEF IsValid
<1> QED  BY <1>4, ValidProposals

(* For any proposal, subject and authority: what is valid stays valid when *)
(* a bound is lifted, and so does every part of it.                        *)
THEOREM SurfaceIsAlwaysMonotone ==
  ASSUME NEW targets, NEW fields, NEW proposal \in Proposals(targets, fields),
         NEW subject \in Subjects(fields), NEW authority \in Authorities
  PROVE  SurfaceIsMonotone(proposal, subject, authority)
<1> SUFFICES ASSUME Validation(proposal, subject, authority) = "valid"
             PROVE  SurfaceIsMonotone(proposal, subject, authority)
  BY DEF SurfaceIsMonotone
<1> DEFINE changes == proposal.changes
           patches == Patches(targets, fields, ProposedValues)
<1>1. /\ changes \in Seq(patches) /\ subject.max_patch_fields \in Nat
      /\ proposal.level \in RepairLevels
  BY DEF Proposals, Subjects
<1>2. ASSUME NEW wider \in Wider(subject)
      PROVE  Validation(proposal, wider, authority) = "valid"
  <2>1. /\ wider.max_patch_fields \in Nat /\ subject.max_patch_fields <= wider.max_patch_fields
        /\ subject.levels \subseteq wider.levels
        /\ wider.frozen \subseteq subject.frozen
        /\ subject.mutable \subseteq wider.mutable
    BY DEF Wider, Subjects
  <2>2. \/ wider.ranges = subject.ranges
        \/ wider.ranges = [f \in DOMAIN subject.ranges |->
                             [low |-> subject.ranges[f].low - 1,
                              high |-> subject.ranges[f].high + 1]]
    BY DEF Wider, Subjects
  <2>3. \A patch \in patches : OutOfRange(patch, wider) => OutOfRange(patch, subject)
    <3>1. CASE wider.ranges = subject.ranges
      BY <3>1 DEF OutOfRange
    <3>2. CASE wider.ranges # subject.ranges
      BY <2>2, <3>2, WiderRangesLetPass
    <3> QED  BY <3>1, <3>2
  <2> HIDE DEF changes, patches
  <2> QED  BY <1>1, <2>1, <2>3, LooserBounds DEF changes
<1>3. Validation(proposal, subject, [authority EXCEPT !.governance_kernel_frozen = FALSE]) = "valid"
  <2> DEFINE lighter == [authority EXCEPT !.governance_kernel_frozen = FALSE]
  <2>1. lighter.allow_mutation = authority.allow_mutation /\ ~ lighter.governance_kernel_frozen
    BY DEF Authorities
  <2> HIDE DEF lighter, patches
  <2>2. IsValid(proposal, subject, authority)
    BY <1>1, ValidProposals
  <2>3. \A i \in DOMAIN changes : PatchError(changes[i], subject, lighter) = "none"
    <3> SUFFICES ASSUME NEW i \in DOMAIN changes
                 PROVE  PatchError(changes[i], subject, lighter) = "none"
      OBVIOUS
    <3> DEFINE patch == changes[i]
    <3>1. PatchError(patch, subject, authority) = "none"
      BY <2>2 DEF IsValid
    <3> HIDE DEF patch
    <3>2. PatchError(patch, subject, lighter) = "none"
      BY <2>1, <3>1, ErrorOfAPatch
    <3> QED  BY <3>2 DEF patch
  <2>4. IsValid(proposal, subject, lighter)
    BY <2>1, <2>2, <2>3 DEF IsValid
  <2>5. Validation(proposal, subject, lighter) = "valid"
    BY <1>1, <2>4, ValidProposals
  <2> QED  BY <2>5 DEF lighter
<1>4. ASSUME NEW n \in DOMAIN changes
      PROVE  Validation([proposal EXCEPT !.changes = <<changes[n]>>], subject, authority) = "valid"
  <2> DEFINE part == [proposal EXCEPT !.changes = <<changes[n]>>]
  <2>1. changes[n] \in patches
    BY <1>1, ElementOfSeq, LenProperties
  <2>2. /\ part.changes = <<changes[n]>> /\ part.target = proposal.target
        /\ part.level = proposal.level
    BY DEF Proposals
  <2>3. /\ part.changes \in Seq(patches) /\ Len(part.changes) = 1
        /\ DOMAIN part.changes = {1} /\ part.changes[1] = changes[n]
    BY <2>1, <2>2
  <2>4. IsValid(proposal, subject, authority)
    BY <1>1, ValidProposals
  <2>5. TargetsOf(part.changes) = {changes[n].target} /\ changes[n].target \in TargetsOf(changes)
    BY <2>3 DEF TargetsOf
  <2>6. TargetsOf(part.changes) = TargetsOf(changes)
    BY <2>4, <2>5 DEF IsValid
  <2>7. Len(changes) \in Nat /\ Len(changes) >= 1
    BY <1>1, LenProperties
  <2> HIDE DEF part
  <2>8. IsValid(part, subject, authority)
    <3>1. PatchError(part.changes[1], subject, authority) = "none"
      BY <2>3, <2>4 DEF IsValid
    <3>2. \A i \in DOMAIN part.changes : PatchError(part.changes[i], subject, authority) = "none"
      BY <2>3, <3>1
    <3>3. 1 <= subject.max_patch_fields
      BY <1>1, <2>4, <2>7 DEF IsValid
    <3> HIDE DEF changes, patches
    <3>4. /\ authority.allow_mutation
          /\ \E t \in TargetsOf(part.changes) : TargetsOf(part.changes) = {t}
          /\ part.target \in TargetsOf(part.changes)
          /\ part.level \in subject.levels
      BY <2>2, <2>4, <2>6 DEF IsValid, changes
    <3> QED  BY <2>3, <3>2, <3>3, <3>4 DEF IsValid
  <2>9. Validation(part, subject, authority) = "valid"
    BY <1>1, <2>3, <2>8, ValidProposals
  <2> QED  BY <2>9 DEF part
<1> QED  BY <1>2, <1>3, <1>4 DEF SurfaceIsMonotone

-----------------------------------------------------------------------------
(* ReleaseActivation.  For any two chains of one candidate whose gates and *)
(* decisions were written anew: wherever either was activated, a mixture   *)
(* of the two that activates, at any moment, is one of them.               *)
THEOREM ActivatedChainsNeverMix ==
  ASSUME NEW S, NEW one \in [Parts -> S], NEW other \in [Parts -> S],
         one["candidate"] = other["candidate"],
         \A p \in Gates \union {"decision"} : one[p].id # other[p].id,
         NEW parts, NEW expected, NEW refused, NEW now, NEW then, NEW later, NEW after,
         Activates(one, expected, refused, now, one),
         Activates(other, expected, refused, then, other),
         Activates(Mixed(one, other, parts), expected, refused, later, after)
  PROVE  Mixed(one, other, parts) \in {one, other}
<1> DEFINE mixed == Mixed(one, other, parts)
           cited == Gates \union {"decision"}
<1>1. /\ mixed \in [Parts -> S]
      /\ \A p \in Parts : mixed[p] = IF p \in parts THEN other[p] ELSE one[p]
  BY DEF Mixed
<1>0. ManifestCites(one, now) /\ ManifestCites(other, then) /\ ManifestCites(mixed, later)
  BY DEF Activates
<1>2. /\ one["manifest"].decision = one["decision"].id
      /\ other["manifest"].decision = other["decision"].id
      /\ mixed["manifest"].decision = mixed["decision"].id
      /\ \A gate \in Gates :
           /\ one["manifest"].gates[gate] = one[gate].id
           /\ other["manifest"].gates[gate] = other[gate].id
           /\ mixed["manifest"].gates[gate] = mixed[gate].id
  BY <1>0 DEF ManifestCites
<1>3. Parts = cited \union {"candidate", "manifest"}
  BY DEF Parts
<1> HIDE DEF mixed
<1>4. CASE "manifest" \in parts
  <2>1. mixed["manifest"] = other["manifest"]
    BY <1>1, <1>3, <1>4
  <2>2. \A p \in cited : mixed[p].id = other[p].id
    BY <1>2, <2>1
  <2>3. \A p \in cited : p \in parts
    BY <1>1, <1>3, <2>2
  <2>4. \A p \in Parts : mixed[p] = other[p]
    BY <1>1, <1>3, <1>4, <2>3
  <2> QED  BY <1>1, <2>4 DEF mixed
<1>5. CASE "manifest" \notin parts
  <2>1. mixed["manifest"] = one["manifest"]
    BY <1>1, <1>3, <1>5
  <2>2. \A p \in cited : mixed[p].id = one[p].id
    BY <1>2, <2>1
  <2>3. \A p \in cited : p \notin parts
    BY <1>1, <1>3, <2>2
  <2>4. \A p \in Parts : mixed[p] = one[p]
    BY <1>1, <1>3, <1>5, <2>3
  <2> QED  BY <1>1, <2>4 DEF mixed
<1> QED  BY <1>4, <1>5

-----------------------------------------------------------------------------
(* AdmissionRules.  The cases of any limits, regions and allow list.       *)
AdmissionCases(dimensions, regions) ==
  [release : {"missing", "draft", "incompatible", "usable"},
   denied : BOOLEAN, decided : BOOLEAN, snapshot : BOOLEAN,
   limits : UNION {[some -> Nat \union {NoLimit}] : some \in SUBSET dimensions},
   overhead : Nat, regions : Seq(regions), region_allowlist : SUBSET regions,
   adapter : BOOLEAN, agent : BOOLEAN, phase : {"queued", "admitting"},
   capacity : BOOLEAN]

(* The regions of the principal that the task does not allow.              *)
Outside(case) == {case.regions[i] : i \in DOMAIN case.regions} \ case.region_allowlist

(* How many answers it takes to remedy what each check is after.           *)
ReleaseSteps(case) ==
  CASE case.release = "missing" -> 3
    [] case.release = "draft" -> 2
    [] case.release = "incompatible" -> 1
    [] OTHER -> 0

WithinReach(case, n) ==
  /\ ReleaseSteps(case) <= n
  /\ case.denied => n >= 1
  /\ ~ case.decided => n >= 1
  /\ case.denied /\ ~ case.decided => n >= 2
  /\ ~ case.snapshot => n >= 2
  /\ CheckBudget(case) # {} => n >= 1
  /\ IsFiniteSet(Outside(case)) /\ Cardinality(Outside(case)) <= n
  /\ ~ case.adapter => n >= 1
  /\ ~ case.agent => n >= 1
  /\ ~ case.adapter /\ ~ case.agent => n >= 2

(* The region check names the first region outside, if there is one.       *)
LEMMA FirstOutside ==
  ASSUME NEW dimensions, NEW regions, NEW case \in AdmissionCases(dimensions, regions)
  PROVE  \/ CheckRegion(case) = {} /\ Outside(case) = {}
         \/ \E r \in Outside(case) : CheckRegion(case) = {Reason("region_not_allowed", r)}
<1> DEFINE outside == {i \in DOMAIN case.regions : case.regions[i] \notin case.region_allowlist}
<1>1. outside \subseteq Nat
  BY DEF AdmissionCases
<1>2. Outside(case) = {case.regions[i] : i \in outside}
  BY DEF Outside
<1>3. CheckRegion(case) = {Reason("region_not_allowed", case.regions[i]) :
                             i \in {i \in outside : \A j \in outside : i <= j}}
  BY DEF CheckRegion
<1> HIDE DEF outside
<1>4. CASE outside = {}
  BY <1>2, <1>3, <1>4
<1>5. CASE outside # {}
  <2>1. PICK i \in outside : \A j \in outside : i <= j
    BY <1>1, <1>5, NatMin
  <2>2. {k \in outside : \A j \in outside : k <= j} = {i}
    <3>1. \A k \in outside : k \in Int
      BY <1>1
    <3> QED  BY <2>1, <3>1
  <2>3. CheckRegion(case) = {Reason("region_not_allowed", case.regions[i])}
    BY <1>3, <2>2
  <2> QED  BY <1>2, <2>1, <2>3
<1> QED  BY <1>4, <1>5

IsTold(reasons, what) == \E reason \in reasons : reason.what = what
ReleaseAfter(case, reasons) ==
  CASE IsTold(reasons, "release_missing") -> "draft"
    [] IsTold(reasons, "release_not_usable") -> "incompatible"
    [] IsTold(reasons, "release_incompatible_with_task") -> "usable"
    [] OTHER -> case.release

LEMMA RemediedFields ==
  ASSUME NEW dimensions, NEW regions, NEW case \in AdmissionCases(dimensions, regions), NEW reasons
  PROVE  LET next == Remedied(case, reasons) IN
         /\ next \in AdmissionCases(dimensions, regions)
         /\ next.release = ReleaseAfter(case, reasons)
         /\ next.denied <=> case.denied /\ ~ IsTold(reasons, "policy_denied")
         /\ next.decided <=> case.decided \/ IsTold(reasons, "missing_policy_decision")
         /\ next.snapshot <=> case.snapshot \/ IsTold(reasons, "budget_snapshot_missing")
         /\ next.overhead = IF IsTold(reasons, "budget_exhausted") THEN 0 ELSE case.overhead
         /\ next.adapter <=> case.adapter \/ IsTold(reasons, "runtime_adapter_missing")
         /\ next.agent <=> case.agent \/ IsTold(reasons, "agent_definition_missing")
         /\ next.limits = case.limits /\ next.phase = case.phase /\ next.capacity = case.capacity
         /\ Outside(next) = {r \in Outside(case) : Reason("region_not_allowed", r) \notin reasons}
<1> DEFINE C == AdmissionCases(dimensions, regions)
           places == {i \in DOMAIN case.regions : Reason("region_not_allowed", case.regions[i]) \notin reasons}
           rs == SubSeqAt(case.regions, places)
           c1 == [case EXCEPT !.release = ReleaseAfter(case, reasons)]
           c2 == [c1 EXCEPT !.denied = case.denied /\ ~ IsTold(reasons, "policy_denied")]
           c3 == [c2 EXCEPT !.decided = case.decided \/ IsTold(reasons, "missing_policy_decision")]
           c4 == [c3 EXCEPT !.snapshot = case.snapshot \/ IsTold(reasons, "budget_snapshot_missing")]
           c5 == [c4 EXCEPT !.overhead = IF IsTold(reasons, "budget_exhausted") THEN 0 ELSE case.overhead]
           c6 == [c5 EXCEPT !.regions = rs]
           c7 == [c6 EXCEPT !.adapter = case.adapter \/ IsTold(reasons, "runtime_adapter_missing")]
           c8 == [c7 EXCEPT !.agent = case.agent \/ IsTold(reasons, "agent_definition_missing")]
<1>1. Remedied(case, reasons) = c8
  BY Zenon DEF Remedied, IsTold, ReleaseAfter, Filter
<1>2. /\ case.regions \in Seq(regions) /\ DOMAIN case.regions = 1 .. Len(case.regions)
      /\ case.release \in {"missing", "draft", "incompatible", "usable"}
  BY DEF AdmissionCases
<1>3. /\ rs \in Seq(regions)
      /\ ToSet(rs) = {case.regions[i] : i \in places}
  <2>1. places \in SUBSET (1 .. Len(case.regions))
    BY <1>2
  <2> HIDE DEF places
  <2> QED  BY <1>2, <2>1, SubSeqAtIs
<1> HIDE DEF rs
<1>4. ReleaseAfter(case, reasons) \in {"missing", "draft", "incompatible", "usable"}
  BY <1>2 DEF ReleaseAfter
<1>11. /\ c1 \in C
       /\ c1.release = ReleaseAfter(case, reasons)
       /\ c1.denied = case.denied /\ c1.decided = case.decided /\ c1.snapshot = case.snapshot
       /\ c1.limits = case.limits /\ c1.overhead = case.overhead /\ c1.regions = case.regions
       /\ c1.region_allowlist = case.region_allowlist /\ c1.adapter = case.adapter /\ c1.agent = case.agent
       /\ c1.phase = case.phase /\ c1.capacity = case.capacity
  BY <1>4 DEF AdmissionCases
<1> HIDE DEF c1
<1>12. /\ c2 \in C
       /\ c2.denied <=> (case.denied /\ ~ IsTold(reasons, "policy_denied"))
       /\ c2.release = c1.release /\ c2.decided = c1.decided /\ c2.snapshot = c1.snapshot
       /\ c2.limits = c1.limits /\ c2.overhead = c1.overhead /\ c2.regions = c1.regions
       /\ c2.region_allowlist = c1.region_allowlist /\ c2.adapter = c1.adapter /\ c2.agent = c1.agent
       /\ c2.phase = c1.phase /\ c2.capacity = c1.capacity
  BY <1>11 DEF AdmissionCases
<1> HIDE DEF c2
<1>13. /\ c3 \in C
       /\ c3.decided <=> (case.decided \/ IsTold(reasons, "missing_policy_decision"))
       /\ c3.release = c2.release /\ c3.denied = c2.denied /\ c3.snapshot = c2.snapshot
       /\ c3.limits = c2.limits /\ c3.overhead = c2.overhead /\ c3.regions = c2.regions
       /\ c3.region_allowlist = c2.region_allowlist /\ c3.adapter = c2.adapter /\ c3.agent = c2.agent
       /\ c3.phase = c2.phase /\ c3.capacity = c2.capacity
  BY <1>12 DEF AdmissionCases
<1> HIDE DEF c3
<1>14. /\ c4 \in C
       /\ c4.snapshot <=> (case.snapshot \/ IsTold(reasons, "budget_snapshot_missing"))
       /\ c4.release = c3.release /\ c4.denied = c3.denied /\ c4.decided = c3.decided
       /\ c4.limits = c3.limits /\ c4.overhead = c3.overhead /\ c4.regions = c3.regions
       /\ c4.region_allowlist = c3.region_allowlist /\ c4.adapter = c3.adapter /\ c4.agent = c3.agent
       /\ c4.phase = c3.phase /\ c4.capacity = c3.capacity
  BY <1>13 DEF AdmissionCases
<1> HIDE DEF c4
<1>15. /\ c5 \in C
       /\ c5.overhead = IF IsTold(reasons, "budget_exhausted") THEN 0 ELSE case.overhead
       /\ c5.release = c4.release /\ c5.denied = c4.denied /\ c5.decided = c4.decided
       /\ c5.snapshot = c4.snapshot /\ c5.limits = c4.limits /\ c5.regions = c4.regions
       /\ c5.region_allowlist = c4.region_allowlist /\ c5.adapter = c4.adapter /\ c5.agent = c4.agent
       /\ c5.phase = c4.phase /\ c5.capacity = c4.capacity
  BY <1>14 DEF AdmissionCases
<1> HIDE DEF c5
<1>16. /\ c6 \in C
       /\ c6.regions = rs
       /\ c6.release = c5.release /\ c6.denied = c5.denied /\ c6.decided = c5.decided
       /\ c6.snapshot = c5.snapshot /\ c6.limits = c5.limits /\ c6.overhead = c5.overhead
       /\ c6.region_allowlist = c5.region_allowlist /\ c6.adapter = c5.adapter /\ c6.agent = c5.agent
       /\ c6.phase = c5.phase /\ c6.capacity = c5.capacity
  BY <1>15, <1>3 DEF AdmissionCases
<1> HIDE DEF c6
<1>17. /\ c7 \in C
       /\ c7.adapter <=> (case.adapter \/ IsTold(reasons, "runtime_adapter_missing"))
       /\ c7.release = c6.release /\ c7.denied = c6.denied /\ c7.decided = c6.decided
       /\ c7.snapshot = c6.snapshot /\ c7.limits = c6.limits /\ c7.overhead = c6.overhead
       /\ c7.regions = c6.regions /\ c7.region_allowlist = c6.region_allowlist /\ c7.agent = c6.agent
       /\ c7.phase = c6.phase /\ c7.capacity = c6.capacity
  BY <1>16 DEF AdmissionCases
<1> HIDE DEF c7
<1>18. /\ c8 \in C
       /\ c8.agent <=> (case.agent \/ IsTold(reasons, "agent_definition_missing"))
       /\ c8.release = c7.release /\ c8.denied = c7.denied /\ c8.decided = c7.decided
       /\ c8.snapshot = c7.snapshot /\ c8.limits = c7.limits /\ c8.overhead = c7.overhead
       /\ c8.regions = c7.regions /\ c8.region_allowlist = c7.region_allowlist /\ c8.adapter = c7.adapter
       /\ c8.phase = c7.phase /\ c8.capacity = c7.capacity
  BY <1>17 DEF AdmissionCases
<1> HIDE DEF c8
<1> DEFINE next == c8
<1>6. /\ next \in C /\ next.regions = rs /\ next.region_allowlist = case.region_allowlist
      /\ next.release = ReleaseAfter(case, reasons)
      /\ next.denied <=> case.denied /\ ~ IsTold(reasons, "policy_denied")
      /\ next.decided <=> case.decided \/ IsTold(reasons, "missing_policy_decision")
      /\ next.snapshot <=> case.snapshot \/ IsTold(reasons, "budget_snapshot_missing")
      /\ next.overhead = IF IsTold(reasons, "budget_exhausted") THEN 0 ELSE case.overhead
      /\ next.adapter <=> case.adapter \/ IsTold(reasons, "runtime_adapter_missing")
      /\ next.agent <=> case.agent \/ IsTold(reasons, "agent_definition_missing")
      /\ next.limits = case.limits /\ next.phase = case.phase /\ next.capacity = case.capacity
  BY <1>11, <1>12, <1>13, <1>14, <1>15, <1>16, <1>17, <1>18
<1> HIDE DEF next
<1>7. Outside(next) = {r \in Outside(case) : Reason("region_not_allowed", r) \notin reasons}
  <2>1. Outside(next) = {r \in ToSet(rs) : r \notin case.region_allowlist}
    BY <1>6 DEF Outside, ToSet
  <2> QED  BY <1>3, <2>1 DEF Outside
<1> QED
  BY <1>1, <1>6, <1>7 DEF next

(* Which reasons each check gives, and when it gives none.                 *)
AnswersOfChecks(case) ==
  /\ CheckRelease(case) =
       IF case.release = "missing" THEN {Reason("release_missing", "run")}
       ELSE IF case.release = "draft" THEN {Reason("release_not_usable", "run")}
       ELSE IF case.release = "incompatible" THEN {Reason("release_incompatible_with_task", "run")}
       ELSE {}
  /\ CheckPolicy(case) =
       IF case.denied THEN {Reason("policy_denied", "run")}
       ELSE IF ~ case.decided THEN {Reason("missing_policy_decision", "run")}
       ELSE {}
  /\ CheckBudget(case) =
       IF ~ case.snapshot THEN {Reason("budget_snapshot_missing", "run")}
       ELSE IF ~ Within(case.limits, [steps |-> case.overhead, model_calls |-> 0, tokens |-> 0])
         THEN {Reason("budget_exhausted", "run")}
       ELSE {}
  /\ CheckBinding(case) =
       IF ~ case.adapter THEN {Reason("runtime_adapter_missing", "run")}
       ELSE IF ~ case.agent THEN {Reason("agent_definition_missing", "run")}
       ELSE {}
  /\ \A reason \in CheckRegion(case) : reason.what = "region_not_allowed"
  /\ \A reason : reason \in Failures(case) <=>
       \/ reason \in CheckRelease(case) \/ reason \in CheckPolicy(case)
       \/ reason \in CheckBudget(case) \/ reason \in CheckRegion(case)
       \/ reason \in CheckBinding(case)

LEMMA ChecksAnswer ==
  ASSUME NEW dimensions, NEW regions, NEW case \in AdmissionCases(dimensions, regions)
  PROVE  AnswersOfChecks(case)
<1>1. CheckRelease(case) =
        IF case.release = "missing" THEN {Reason("release_missing", "run")}
        ELSE IF case.release = "draft" THEN {Reason("release_not_usable", "run")}
        ELSE IF case.release = "incompatible" THEN {Reason("release_incompatible_with_task", "run")}
        ELSE {}
  BY DEF CheckRelease
<1>2. CheckPolicy(case) =
        IF case.denied THEN {Reason("policy_denied", "run")}
        ELSE IF ~ case.decided THEN {Reason("missing_policy_decision", "run")}
        ELSE {}
  BY DEF CheckPolicy
<1>3. CheckBudget(case) =
        IF ~ case.snapshot THEN {Reason("budget_snapshot_missing", "run")}
        ELSE IF ~ Within(case.limits, [steps |-> case.overhead, model_calls |-> 0, tokens |-> 0])
          THEN {Reason("budget_exhausted", "run")}
        ELSE {}
  BY Zenon DEF CheckBudget
<1>4. CheckBinding(case) =
        IF ~ case.adapter THEN {Reason("runtime_adapter_missing", "run")}
        ELSE IF ~ case.agent THEN {Reason("agent_definition_missing", "run")}
        ELSE {}
  BY DEF CheckBinding
<1>5. \A reason \in CheckRegion(case) : reason.what = "region_not_allowed"
  BY DEF CheckRegion, Reason
<1>6. \A reason : reason \in Failures(case) <=>
        \/ reason \in CheckRelease(case) \/ reason \in CheckPolicy(case)
        \/ reason \in CheckBudget(case) \/ reason \in CheckRegion(case)
        \/ reason \in CheckBinding(case)
  BY DEF Failures
<1> QED  BY <1>1, <1>2, <1>3, <1>4, <1>5, <1>6 DEF AnswersOfChecks

LEMMA FailuresTell ==
  ASSUME NEW dimensions, NEW regions, NEW case \in AdmissionCases(dimensions, regions)
  PROVE  LET F == Failures(case) IN
         /\ IsTold(F, "release_missing") <=> case.release = "missing"
         /\ IsTold(F, "release_not_usable") <=> case.release = "draft"
         /\ IsTold(F, "release_incompatible_with_task") <=> case.release = "incompatible"
         /\ IsTold(F, "policy_denied") <=> case.denied
         /\ IsTold(F, "missing_policy_decision") <=> ~ case.denied /\ ~ case.decided
         /\ IsTold(F, "budget_snapshot_missing") <=> ~ case.snapshot
         /\ IsTold(F, "budget_exhausted") <=> CheckBudget(case) = {Reason("budget_exhausted", "run")}
         /\ IsTold(F, "runtime_adapter_missing") <=> ~ case.adapter
         /\ IsTold(F, "agent_definition_missing") <=> case.adapter /\ ~ case.agent
         /\ \A r : Reason("region_not_allowed", r) \in F <=> Reason("region_not_allowed", r) \in CheckRegion(case)
<1>0. AnswersOfChecks(case)
  BY ChecksAnswer
<1>1. \A what, of : Reason(what, of).what = what
  BY DEF Reason
<1> DEFINE F == Failures(case)
<1>2. \A reason : reason \in F <=>
        \/ reason \in CheckRelease(case) \/ reason \in CheckPolicy(case)
        \/ reason \in CheckBudget(case) \/ reason \in CheckRegion(case)
        \/ reason \in CheckBinding(case)
  BY <1>0 DEF AnswersOfChecks
<1> HIDE DEF F
<1>3. /\ IsTold(F, "release_missing") <=> case.release = "missing"
      /\ IsTold(F, "release_not_usable") <=> case.release = "draft"
      /\ IsTold(F, "release_incompatible_with_task") <=> case.release = "incompatible"
  BY <1>1, <1>0, <1>2 DEF IsTold, AnswersOfChecks
<1>4. /\ IsTold(F, "policy_denied") <=> case.denied
      /\ IsTold(F, "missing_policy_decision") <=> ~ case.denied /\ ~ case.decided
  BY <1>1, <1>0, <1>2 DEF IsTold, AnswersOfChecks
<1>5. /\ IsTold(F, "budget_snapshot_missing") <=> ~ case.snapshot
      /\ IsTold(F, "budget_exhausted") <=> CheckBudget(case) = {Reason("budget_exhausted", "run")}
  BY <1>1, <1>0, <1>2 DEF IsTold, AnswersOfChecks
<1>6. /\ IsTold(F, "runtime_adapter_missing") <=> ~ case.adapter
      /\ IsTold(F, "agent_definition_missing") <=> case.adapter /\ ~ case.agent
  BY <1>1, <1>0, <1>2 DEF IsTold, AnswersOfChecks
<1>7. \A r : Reason("region_not_allowed", r) \in F <=> Reason("region_not_allowed", r) \in CheckRegion(case)
  BY <1>1, <1>2, <1>0 DEF AnswersOfChecks
<1> QED  BY <1>3, <1>4, <1>5, <1>6, <1>7 DEF F
(* Without overhead no limit is exceeded.                                  *)
LEMMA NothingUsedIsWithin ==
  ASSUME NEW dimensions, NEW regions, NEW case \in AdmissionCases(dimensions, regions),
         case.overhead = 0
  PROVE  Within(case.limits, [steps |-> case.overhead, model_calls |-> 0, tokens |-> 0])
<1> DEFINE used == [steps |-> case.overhead, model_calls |-> 0, tokens |-> 0]
<1>1. PICK some \in SUBSET dimensions : case.limits \in [some -> Nat \union {NoLimit}]
  BY DEF AdmissionCases
<1>2. \A dimension : dimension \in DOMAIN used => used[dimension] = 0
  OBVIOUS
<1>3. \A dimension \in some : case.limits[dimension] = NoLimit \/ case.limits[dimension] \in Nat
  BY <1>1
<1>4. \A count \in Nat : 0 <= count
  OBVIOUS
<1> HIDE DEF used
<1>5. \A dimension \in some : case.limits[dimension] = NoLimit
        \/ (IF dimension \in DOMAIN used THEN used[dimension] ELSE 0) <= case.limits[dimension]
  BY <1>2, <1>3, <1>4
<1>6. Within(case.limits, used)
  BY <1>1, <1>5 DEF Within
<1> QED  BY <1>6 DEF used

(* A remedied case is one step nearer, and no reason is left of the last.  *)
LEMMA RemedyStep ==
  ASSUME NEW dimensions, NEW regions, NEW case \in AdmissionCases(dimensions, regions),
         NEW n \in 1 .. 3, WithinReach(case, n)
  PROVE  LET next == Remedied(case, Failures(case)) IN
         /\ next \in AdmissionCases(dimensions, regions)
         /\ next.phase = case.phase /\ next.capacity = case.capacity
         /\ WithinReach(next, n - 1)
         /\ Failures(next) \intersect Failures(case) = {}
<1> DEFINE next == Remedied(case, Failures(case))
           reasons == Failures(case)
<1>1. /\ next \in AdmissionCases(dimensions, regions)
      /\ next.release = ReleaseAfter(case, reasons)
      /\ next.denied <=> case.denied /\ ~ IsTold(reasons, "policy_denied")
      /\ next.decided <=> case.decided \/ IsTold(reasons, "missing_policy_decision")
      /\ next.snapshot <=> case.snapshot \/ IsTold(reasons, "budget_snapshot_missing")
      /\ next.overhead = IF IsTold(reasons, "budget_exhausted") THEN 0 ELSE case.overhead
      /\ next.adapter <=> case.adapter \/ IsTold(reasons, "runtime_adapter_missing")
      /\ next.agent <=> case.agent \/ IsTold(reasons, "agent_definition_missing")
      /\ next.limits = case.limits /\ next.phase = case.phase /\ next.capacity = case.capacity
      /\ Outside(next) = {r \in Outside(case) : Reason("region_not_allowed", r) \notin reasons}
  BY RemediedFields
<1>2. /\ IsTold(reasons, "release_missing") <=> case.release = "missing"
      /\ IsTold(reasons, "release_not_usable") <=> case.release = "draft"
      /\ IsTold(reasons, "release_incompatible_with_task") <=> case.release = "incompatible"
      /\ IsTold(reasons, "policy_denied") <=> case.denied
      /\ IsTold(reasons, "missing_policy_decision") <=> ~ case.denied /\ ~ case.decided
      /\ IsTold(reasons, "budget_snapshot_missing") <=> ~ case.snapshot
      /\ IsTold(reasons, "budget_exhausted") <=> CheckBudget(case) = {Reason("budget_exhausted", "run")}
      /\ IsTold(reasons, "runtime_adapter_missing") <=> ~ case.adapter
      /\ IsTold(reasons, "agent_definition_missing") <=> case.adapter /\ ~ case.agent
      /\ \A r : Reason("region_not_allowed", r) \in reasons <=> Reason("region_not_allowed", r) \in CheckRegion(case)
  BY FailuresTell
<1>3. case.release \in {"missing", "draft", "incompatible", "usable"}
  BY DEF AdmissionCases
<1> HIDE DEF next, reasons
<1>0. \A what, of : Reason(what, of).what = what
  BY DEF Reason
<1>00. AnswersOfChecks(case) /\ AnswersOfChecks(next)
  BY <1>1, ChecksAnswer
<1>4. next.release = IF case.release = "missing" THEN "draft"
                     ELSE IF case.release = "draft" THEN "incompatible" ELSE "usable"
  BY <1>1, <1>2, <1>3 DEF ReleaseAfter
<1>5. /\ ReleaseSteps(next) <= n - 1
      /\ CheckRelease(next) \intersect CheckRelease(case) = {}
  <2>1. ReleaseSteps(next) <= n - 1
    BY <1>3, <1>4 DEF ReleaseSteps, WithinReach
  <2>2. CheckRelease(next) \intersect CheckRelease(case) = {}
    <3>1. CheckRelease(case) =
            IF case.release = "missing" THEN {Reason("release_missing", "run")}
            ELSE IF case.release = "draft" THEN {Reason("release_not_usable", "run")}
            ELSE IF case.release = "incompatible" THEN {Reason("release_incompatible_with_task", "run")}
            ELSE {}
      BY <1>00 DEF AnswersOfChecks
    <3>2. CheckRelease(next) =
            IF next.release = "missing" THEN {Reason("release_missing", "run")}
            ELSE IF next.release = "draft" THEN {Reason("release_not_usable", "run")}
            ELSE IF next.release = "incompatible" THEN {Reason("release_incompatible_with_task", "run")}
            ELSE {}
      BY <1>00 DEF AnswersOfChecks
    <3> QED  BY <1>0, <1>3, <1>4, <3>1, <3>2
  <2> QED  BY <2>1, <2>2
<1>6. /\ ~ next.denied
      /\ next.decided <=> case.decided \/ ~ case.denied
      /\ CheckPolicy(next) \intersect CheckPolicy(case) = {}
  <2>1. ~ next.denied /\ (next.decided <=> case.decided \/ ~ case.denied)
    BY <1>1, <1>2
  <2>2. CheckPolicy(case) =
          IF case.denied THEN {Reason("policy_denied", "run")}
          ELSE IF ~ case.decided THEN {Reason("missing_policy_decision", "run")}
          ELSE {}
    BY <1>00 DEF AnswersOfChecks
  <2>3. CheckPolicy(next) =
          IF next.denied THEN {Reason("policy_denied", "run")}
          ELSE IF ~ next.decided THEN {Reason("missing_policy_decision", "run")}
          ELSE {}
    BY <1>00 DEF AnswersOfChecks
  <2> QED  BY <1>0, <2>1, <2>2, <2>3
<1>7. /\ next.snapshot
      /\ CheckBudget(next) # {} => ~ case.snapshot
      /\ CheckBudget(next) \intersect CheckBudget(case) = {}
  <2>1. next.snapshot
    BY <1>1, <1>2
  <2>2. CASE case.snapshot
    <3>1. CASE CheckBudget(case) = {}
      <4>1. Reason("budget_exhausted", "run") \notin CheckBudget(case)
        BY <3>1
      <4>2. next.overhead = case.overhead
        BY <1>1, <1>2, <4>1
      <4>3. CheckBudget(next) = CheckBudget(case)
        BY <1>1, <2>1, <2>2, <4>2, <1>00 DEF AnswersOfChecks
      <4> QED  BY <2>1, <3>1, <4>3
    <3>2. CASE CheckBudget(case) # {}
      <4>1. CheckBudget(case) = {Reason("budget_exhausted", "run")}
        BY <2>2, <3>2, <1>00 DEF AnswersOfChecks
      <4>2. next.overhead = 0
        BY <1>1, <1>2, <4>1
      <4>3. CheckBudget(next) = {}
        BY <1>1, <2>1, <4>2, <1>00, NothingUsedIsWithin DEF AnswersOfChecks
      <4> QED  BY <2>1, <4>3
    <3> QED  BY <3>1, <3>2
  <2>3. CASE ~ case.snapshot
    <3>1. CheckBudget(case) = {Reason("budget_snapshot_missing", "run")}
      BY <2>3, <1>00 DEF AnswersOfChecks
    <3>2. CheckBudget(next) \in {{}, {Reason("budget_exhausted", "run")}}
      BY <1>00, <2>1 DEF AnswersOfChecks
    <3> QED  BY <2>1, <2>3, <3>1, <3>2 DEF Reason
  <2> QED  BY <2>2, <2>3
<1>8. /\ next.adapter
      /\ next.agent <=> case.agent \/ case.adapter
      /\ CheckBinding(next) \intersect CheckBinding(case) = {}
  <2>1. next.adapter /\ (next.agent <=> case.agent \/ case.adapter)
    BY <1>1, <1>2
  <2>2. CheckBinding(case) =
          IF ~ case.adapter THEN {Reason("runtime_adapter_missing", "run")}
          ELSE IF ~ case.agent THEN {Reason("agent_definition_missing", "run")}
          ELSE {}
    BY <1>00 DEF AnswersOfChecks
  <2>3. CheckBinding(next) =
          IF ~ next.adapter THEN {Reason("runtime_adapter_missing", "run")}
          ELSE IF ~ next.agent THEN {Reason("agent_definition_missing", "run")}
          ELSE {}
    BY <1>00 DEF AnswersOfChecks
  <2> QED  BY <1>0, <2>1, <2>2, <2>3
<1>9. /\ IsFiniteSet(Outside(next)) /\ Cardinality(Outside(next)) <= n - 1
      /\ CheckRegion(next) \intersect CheckRegion(case) = {}
  <2>1. IsFiniteSet(Outside(case)) /\ Cardinality(Outside(case)) <= n
    BY DEF WithinReach
  <2>2. Cardinality(Outside(case)) \in Nat
    BY <2>1, FS_CardinalityType
  <2>3. CASE CheckRegion(case) = {} /\ Outside(case) = {}
    <3>1. Outside(next) = {}
      BY <1>1, <2>3
    <3> QED  BY <2>3, <3>1, FS_EmptySet
  <2>4. ASSUME NEW r \in Outside(case), CheckRegion(case) = {Reason("region_not_allowed", r)}
        PROVE  <1>9!1 /\ <1>9!2
    <3>1. Outside(next) = Outside(case) \ {r}
      BY <1>1, <1>2, <2>4 DEF Reason
    <3>2. IsFiniteSet(Outside(next)) /\ Cardinality(Outside(next)) = Cardinality(Outside(case)) - 1
      BY <2>1, <2>4, <3>1, FS_RemoveElement
    <3>3. CheckRegion(next) \intersect CheckRegion(case) = {}
      <4>1. CheckRegion(next) = {} \/ \E s \in Outside(next) : CheckRegion(next) = {Reason("region_not_allowed", s)}
        BY <1>1, FirstOutside
      <4> QED  BY <2>4, <3>1, <4>1 DEF Reason
    <3> QED  BY <2>1, <2>2, <3>2, <3>3
  <2> QED  BY <2>3, <2>4, FirstOutside
<1>10. WithinReach(next, n - 1)
  <2>1. /\ ~ case.snapshot => n >= 2
        /\ case.denied /\ ~ case.decided => n >= 2
        /\ ~ case.adapter /\ ~ case.agent => n >= 2
    BY DEF WithinReach
  <2>2. next.denied \in BOOLEAN
    BY <1>1 DEF AdmissionCases
  <2> QED  BY <1>5, <1>6, <1>7, <1>8, <1>9, <2>1, <2>2 DEF WithinReach
<1>11. Failures(next) \intersect reasons = {}
  <2>1. \A c \in {case, next} :
          /\ \A reason \in CheckRelease(c) : reason.what \in
               {"release_missing", "release_not_usable", "release_incompatible_with_task"}
          /\ \A reason \in CheckPolicy(c) : reason.what \in {"policy_denied", "missing_policy_decision"}
          /\ \A reason \in CheckBudget(c) : reason.what \in {"budget_snapshot_missing", "budget_exhausted"}
          /\ \A reason \in CheckRegion(c) : reason.what = "region_not_allowed"
          /\ \A reason \in CheckBinding(c) : reason.what \in
               {"runtime_adapter_missing", "agent_definition_missing"}
          /\ \A reason : reason \in Failures(c) <=>
               \/ reason \in CheckRelease(c) \/ reason \in CheckPolicy(c)
               \/ reason \in CheckBudget(c) \/ reason \in CheckRegion(c)
               \/ reason \in CheckBinding(c)
    <3> SUFFICES ASSUME NEW c, AnswersOfChecks(c)
                 PROVE  <2>1!(c)
      BY <1>00
    <3>1. /\ \A reason \in CheckRelease(c) : reason.what \in
               {"release_missing", "release_not_usable", "release_incompatible_with_task"}
          /\ \A reason \in CheckPolicy(c) : reason.what \in {"policy_denied", "missing_policy_decision"}
      BY <1>0 DEF AnswersOfChecks
    <3>2. /\ \A reason \in CheckBudget(c) : reason.what \in {"budget_snapshot_missing", "budget_exhausted"}
          /\ \A reason \in CheckBinding(c) : reason.what \in
               {"runtime_adapter_missing", "agent_definition_missing"}
      BY <1>0 DEF AnswersOfChecks
    <3>3. /\ \A reason \in CheckRegion(c) : reason.what = "region_not_allowed"
          /\ \A reason : reason \in Failures(c) <=>
               \/ reason \in CheckRelease(c) \/ reason \in CheckPolicy(c)
               \/ reason \in CheckBudget(c) \/ reason \in CheckRegion(c)
               \/ reason \in CheckBinding(c)
      BY DEF AnswersOfChecks
    <3> QED  BY <3>1, <3>2, <3>3
  <2> QED  BY <1>5, <1>6, <1>7, <1>8, <1>9, <2>1 DEF reasons
<1> QED  BY <1>1, <1>10, <1>11 DEF next, reasons
LEMMA Evaluation ==
  ASSUME NEW case
  PROVE  /\ Evaluate(case).outcome = "rejected" <=> Failures(case) # {}
         /\ Failures(case) # {} => Evaluate(case).reasons = Failures(case)
         /\ Failures(case) = {} =>
              Evaluate(case).outcome =
                IF case.phase = "queued" /\ ~ case.capacity THEN "deferred" ELSE "admitted"
<1>1. Evaluate(case) =
        IF Failures(case) # {} THEN [outcome |-> "rejected", reasons |-> Failures(case)]
        ELSE IF case.phase = "queued" /\ ~ case.capacity
          THEN [outcome |-> "deferred", reasons |-> {Reason("capacity_unavailable", "run")}]
        ELSE [outcome |-> "admitted", reasons |-> {Reason("admitted", "run")}]
  BY Zenon DEF Evaluate
<1> QED  BY <1>1

LEMMA NothingLeft ==
  ASSUME NEW dimensions, NEW regions, NEW case \in AdmissionCases(dimensions, regions),
         WithinReach(case, 0)
  PROVE  Failures(case) = {}
<1>1. AnswersOfChecks(case)
  BY ChecksAnswer
<1>2. /\ case.release \in {"missing", "draft", "incompatible", "usable"}
      /\ case.denied \in BOOLEAN /\ case.decided \in BOOLEAN
  BY DEF AdmissionCases
<1>3. CheckRelease(case) = {}
  BY <1>1, <1>2 DEF AnswersOfChecks, WithinReach, ReleaseSteps
<1>4. CheckPolicy(case) = {} /\ CheckBudget(case) = {} /\ CheckBinding(case) = {}
  BY <1>1, <1>2 DEF AnswersOfChecks, WithinReach
<1>5. CheckRegion(case) = {}
  <2>1. Cardinality(Outside(case)) = 0
    BY FS_CardinalityType DEF WithinReach
  <2>2. Outside(case) = {}
    BY <2>1, FS_EmptySet DEF WithinReach
  <2> QED  BY <2>2, FirstOutside
<1> QED  BY <1>3, <1>4, <1>5 DEF Failures

(* For any limits, regions and allow list, with at most three regions of   *)
(* the principal outside of it: a caller that remedies what each rejection *)
(* names is through after three, and no reason is given twice.             *)
THEOREM AdmissionAlwaysConverges ==
  ASSUME NEW dimensions, NEW regions, NEW case \in AdmissionCases(dimensions, regions),
         IsFiniteSet(Outside(case)), Cardinality(Outside(case)) <= 3
  PROVE  AdmissionConverges(case)
<1> DEFINE C == AdmissionCases(dimensions, regions)
           Onward(c) == IF Evaluate(c).outcome # "rejected" THEN c
                      ELSE Remedied(c, Evaluate(c).reasons)
           step == [i \in 1 .. 3 |-> [c \in C |-> Onward(c)]]
           Is(at) == at = [n \in 0 .. 3 |->
                             IF n = 0 THEN case
                             ELSE IF Evaluate(at[n - 1]).outcome # "rejected" THEN at[n - 1]
                             ELSE Remedied(at[n - 1], Evaluate(at[n - 1]).reasons)]
           at == CHOOSE at : Is(at)
<1>1. \A c \in C : Onward(c) \in C
  BY RemediedFields
<1>2. PICK g \in [0 .. 3 -> C] : Iterates(g, 3, case, step)
  <2>1. step \in [1 .. 3 -> [C -> C]]
    BY <1>1
  <2> HIDE DEF step, C
  <2> QED  BY <2>1, ChainExists DEF C
<1>3. Is(g)
  <2>1. g[0] = case /\ \A n \in 1 .. 3 : g[n] = Onward(g[n - 1])
    BY <1>2 DEF Iterates
  <2>2. \A n \in 0 .. 3 : g[n] = IF n = 0 THEN case ELSE Onward(g[n - 1])
    BY <2>1
  <2> QED  BY <1>2, <2>2
<1>4. Is(at)
  <2> HIDE DEF Is
  <2> QED  BY <1>3
<1>5. /\ at[0] = case /\ at[1] = Onward(at[0]) /\ at[2] = Onward(at[1]) /\ at[3] = Onward(at[2])
  <2> HIDE DEF at
  <2>1. \A n \in 0 .. 3 : at[n] = IF n = 0 THEN case ELSE Onward(at[n - 1])
    BY <1>4
  <2> HIDE DEF Is, Onward
  <2> QED  BY <2>1
<1>6. AdmissionConverges(case) <=>
        /\ Evaluate(at[3]).outcome =
             IF case.phase = "queued" /\ ~ case.capacity THEN "deferred" ELSE "admitted"
        /\ \A n \in 1..3 : Evaluate(at[n]).outcome = "rejected" =>
             Evaluate(at[n]).reasons \intersect Evaluate(at[n - 1]).reasons = {}
  BY DEF AdmissionConverges
<1> HIDE DEF at, Is
<1> DEFINE Near(c, n) ==
             /\ c \in C /\ c.phase = case.phase /\ c.capacity = case.capacity
             /\ WithinReach(c, n) \/ Failures(c) = {}
           Fresh(c, next) ==
             Evaluate(next).outcome = "rejected" =>
               Evaluate(next).reasons \intersect Evaluate(c).reasons = {}
<1>7. ASSUME NEW c, NEW n \in 1 .. 3, Near(c, n)
      PROVE  Near(Onward(c), n - 1) /\ Fresh(c, Onward(c))
  <2>1. CASE Failures(c) = {}
    <3>1. Onward(c) = c /\ Evaluate(c).outcome # "rejected"
      BY <2>1, Evaluation
    <3> HIDE DEF Onward
    <3> QED  BY <1>7, <2>1, <3>1
  <2>2. CASE Failures(c) # {}
    <3>1. Onward(c) = Remedied(c, Failures(c)) /\ Evaluate(c).reasons = Failures(c)
      BY <2>2, Evaluation
    <3> DEFINE next == Remedied(c, Failures(c))
    <3>2. /\ next \in C /\ next.phase = c.phase /\ next.capacity = c.capacity
          /\ WithinReach(next, n - 1)
          /\ Failures(next) \intersect Failures(c) = {}
      BY <1>7, <2>2, RemedyStep
    <3>3. Evaluate(next).outcome = "rejected" => Evaluate(next).reasons = Failures(next)
      BY Evaluation
    <3> HIDE DEF next
    <3>4. Onward(c) = next
      BY <3>1 DEF next
    <3> HIDE DEF Onward
    <3> QED  BY <1>7, <3>1, <3>2, <3>3, <3>4
  <2> QED  BY <2>1, <2>2
<1>8. Near(at[0], 3)
  BY <1>5 DEF WithinReach, ReleaseSteps
<1> HIDE DEF Near, Fresh, Onward
<1>9. Near(at[1], 2) /\ Fresh(at[0], at[1])
  BY <1>5, <1>7, <1>8
<1>10. Near(at[2], 1) /\ Fresh(at[1], at[2])
  BY <1>5, <1>7, <1>9
<1>11. Near(at[3], 0) /\ Fresh(at[2], at[3])
  BY <1>5, <1>7, <1>10
<1>12. Failures(at[3]) = {} /\ at[3].phase = case.phase /\ at[3].capacity = case.capacity
  BY <1>11, NothingLeft DEF Near
<1>13. Evaluate(at[3]).outcome =
         IF case.phase = "queued" /\ ~ case.capacity THEN "deferred" ELSE "admitted"
  BY <1>12, Evaluation
<1>14. \A n \in 1..3 : Evaluate(at[n]).outcome = "rejected" =>
         Evaluate(at[n]).reasons \intersect Evaluate(at[n - 1]).reasons = {}
  BY <1>9, <1>10, <1>11 DEF Fresh
<1> QED  BY <1>6, <1>13, <1>14

-----------------------------------------------------------------------------
(* ContextAssembly.  What the router may answer with.                      *)
LEMMA AuthorizedOnly ==
  ASSUME NEW T, NEW candidates \in Seq(T), NEW authorized, NEW principal
  PROVE  \A i \in DOMAIN Authorize(candidates, authorized, principal) :
           LET c == Authorize(candidates, authorized, principal)[i] IN
           c.source \in authorized /\ c.scopes \intersect principal # {}
<1> DEFINE places == {i \in DOMAIN candidates : candidates[i].source \in authorized
                                                /\ candidates[i].scopes \intersect principal # {}}
           served == SubSeqAt(candidates, places)
<1>1. Authorize(candidates, authorized, principal) = served
  BY DEF Authorize, Filter
<1>2. ToSet(served) = {candidates[i] : i \in places}
  <2>1. places \in SUBSET (1 .. Len(candidates))
    OBVIOUS
  <2> HIDE DEF places
  <2> QED  BY <2>1, SubSeqAtIs
<1> HIDE DEF served
<1>3. \A i \in DOMAIN served : \E k \in places : served[i] = candidates[k]
  BY <1>2 DEF ToSet
<1> QED  BY <1>1, <1>3

LEMMA RouteOffered ==
  ASSUME NEW backends
  PROVE  \/ SelectRoute(backends) = DefaultRoute
         \/ SelectRoute(backends) \in backends
<1> DEFINE places == {i \in DOMAIN Routes : Routes[i] \in backends}
           offered == SubSeqAt(Routes, places)
<1>1. SelectRoute(backends) = IF offered = <<>> THEN DefaultRoute ELSE Head(offered)
  BY DEF SelectRoute, Filter
<1>2. Routes \in Seq({"hybrid", "vector", "lexical"})
  BY DEF Routes
<1>3. offered \in Seq({"hybrid", "vector", "lexical"}) /\ ToSet(offered) = {Routes[i] : i \in places}
  <2>1. places \in SUBSET (1 .. Len(Routes))
    BY <1>2
  <2> HIDE DEF places
  <2> QED  BY <1>2, <2>1, SubSeqAtIs
<1> HIDE DEF offered
<1>4. CASE offered # <<>>
  <2>1. Head(offered) \in ToSet(offered)
    BY <1>3, <1>4, HeadTailProperties DEF ToSet
  <2> QED  BY <1>1, <1>3, <1>4, <2>1
<1> QED  BY <1>1, <1>4

(* For any backends, answers, authorised sources and scopes: an outage     *)
(* looks like a backend that was never there, and no candidate passes that *)
(* the principal may not see.                                              *)
THEOREM RoutesAlwaysSafe ==
  ASSUME NEW candidates, NEW query,
         \A route \in DOMAIN query.answers : query.answers[route] \in Seq(candidates)
  PROVE  RoutedSafely(query)
<1> DEFINE search(backends) == SearchRoutes(backends, query.answers, query.authorized, query.principal)
           allowed(c) == c.source \in query.authorized /\ c.scopes \intersect query.principal # {}
<1>1. ASSUME NEW backends
      PROVE  search(backends) =
               IF SelectRoute(backends) \in backends \intersect DOMAIN query.answers
                 THEN Authorize(query.answers[SelectRoute(backends)], query.authorized, query.principal)
               ELSE IF DefaultRoute \in backends \intersect DOMAIN query.answers
                 THEN Authorize(query.answers[DefaultRoute], query.authorized, query.principal)
               ELSE <<>>
  BY Zenon DEF SearchRoutes
<1>2. ASSUME NEW i \in DOMAIN search(query.backends)
      PROVE  allowed(search(query.backends)[i])
  <2>1. ASSUME NEW route \in DOMAIN query.answers,
               search(query.backends) = Authorize(query.answers[route], query.authorized, query.principal)
        PROVE  allowed(search(query.backends)[i])
    BY <2>1, AuthorizedOnly
  <2>2. CASE search(query.backends) = <<>>
    <3> HIDE DEF search
    <3> QED  BY <2>2
  <2> HIDE DEF search, allowed
  <2> QED  BY <1>1, <2>1, <2>2
<1>3. SelectRoute(query.backends) \notin DOMAIN query.answers =>
        search(query.backends) = search(query.backends \intersect {DefaultRoute})
  <2>1. SelectRoute(query.backends \intersect {DefaultRoute}) = DefaultRoute
    BY RouteOffered
  <2> HIDE DEF search
  <2> QED  BY <1>1, <2>1
<1> QED  BY <1>2, <1>3 DEF RoutedSafely

-----------------------------------------------------------------------------
(* RetrievalRules.  Reciprocal ranks compare as fractions do.              *)
LEMMA SmallerRanks ==
  ASSUME NEW x \in Nat \ {0}, NEW y \in Nat \ {0}, NEW v \in Nat \ {0}, NEW w \in Nat \ {0}, v < x
  PROVE  /\ 1 * x > 1 * v
         /\ (v + w) * x > 1 * (v * w) /\ (w + v) * x > 1 * (w * v)
         /\ w < y => (v + w) * (x * y) > (x + y) * (v * w)
         /\ x * y \in Nat \ {0}
OBVIOUS

Fractions == [over : Nat, under : Nat \ {0}]

LEMMA ScoresCompare ==
  ASSUME NEW a \in Fractions, NEW b \in Fractions, NEW c \in Fractions
  PROVE  /\ ~ (Scores(a, b) /\ Scores(b, a))
         /\ ~ Scores(b, a) /\ ~ Scores(c, b) =>
              ~ Scores(c, a) /\ (Scores(a, b) \/ Scores(b, c) => Scores(a, c))
<1>1. /\ a.over \in Nat /\ b.over \in Nat /\ c.over \in Nat
      /\ a.under \in Nat \ {0} /\ b.under \in Nat \ {0} /\ c.under \in Nat \ {0}
  BY DEF Fractions
<1>2. /\ a.over * b.under \in Int /\ b.over * a.under \in Int
  BY <1>1
<1>3. ~ (Scores(a, b) /\ Scores(b, a))
  BY <1>2 DEF Scores
<1>4. ASSUME ~ Scores(b, a), ~ Scores(c, b)
      PROVE  ~ Scores(c, a) /\ (Scores(a, b) \/ Scores(b, c) => Scores(a, c))
  BY <1>1, <1>4, FractionsTransitive DEF Scores
<1> QED  BY <1>3, <1>4

(* What a channel returns: chunks told apart by their ids, each once.      *)
ChunkSet(T) == \A a, b \in T : a.id \in Int /\ (a.id = b.id => a = b)

Rankings(T) == {seq \in Seq(T) : \A i, j \in DOMAIN seq : seq[i] = seq[j] => i = j}

LEMMA PlaceIsRank ==
  ASSUME NEW T, ChunkSet(T), NEW ranking \in Rankings(T), NEW chunk \in T
  PROVE  /\ Places(chunk, ranking) \subseteq Nat \ {0}
         /\ \A i, j \in Places(chunk, ranking) : i = j
         /\ Places(chunk, ranking) # {} <=> chunk \in ToSet(ranking)
<1>1. ranking \in Seq(T) /\ DOMAIN ranking = 1 .. Len(ranking)
      /\ \A i \in DOMAIN ranking : ranking[i] \in T
  BY DEF Rankings
<1>2. \A i \in DOMAIN ranking : ranking[i].id = chunk.id <=> ranking[i] = chunk
  BY <1>1 DEF ChunkSet
<1>3. Places(chunk, ranking) = {i \in DOMAIN ranking : ranking[i] = chunk}
  BY <1>2 DEF Places
<1> QED  BY <1>1, <1>3 DEF Rankings, ToSet

Weight(chunk, ranking, k) == k + (CHOOSE i \in Places(chunk, ranking) : TRUE)

LEMMA ScoreOfRanks ==
  ASSUME NEW T, ChunkSet(T), NEW lexical \in Rankings(T), NEW vector \in Rankings(T),
         NEW k \in Nat, NEW chunk \in ToSet(lexical) \union ToSet(vector)
  PROVE  LET x == Weight(chunk, lexical, k)
             y == Weight(chunk, vector, k)
             score == RankScore(chunk, lexical, vector, k) IN
         /\ score \in Fractions
         /\ chunk \in ToSet(lexical) => x \in Nat \ {0}
         /\ chunk \in ToSet(vector) => y \in Nat \ {0}
         /\ score = IF chunk \in ToSet(lexical) /\ chunk \in ToSet(vector)
                      THEN [over |-> x + y, under |-> x * y]
                    ELSE IF chunk \in ToSet(lexical) THEN [over |-> 1, under |-> x]
                    ELSE [over |-> 1, under |-> y]
<1> DEFINE x == Weight(chunk, lexical, k)
           y == Weight(chunk, vector, k)
           score == RankScore(chunk, lexical, vector, k)
<1>1. \A seq \in Rankings(T) : ToSet(seq) \subseteq T
  BY DEF Rankings, ToSet
<1>2. chunk \in T
  BY <1>1
<1>3. chunk \in ToSet(lexical) => x \in Nat \ {0}
  BY <1>2, PlaceIsRank DEF Weight
<1>4. chunk \in ToSet(vector) => y \in Nat \ {0}
  BY <1>2, PlaceIsRank DEF Weight
<1>5. /\ Places(chunk, lexical) # {} <=> chunk \in ToSet(lexical)
      /\ Places(chunk, vector) # {} <=> chunk \in ToSet(vector)
  BY <1>2, PlaceIsRank
<1>6. score = IF Places(chunk, lexical) # {} /\ Places(chunk, vector) # {}
                THEN [over |-> x + y, under |-> x * y]
              ELSE IF Places(chunk, lexical) # {} THEN [over |-> 1, under |-> x]
              ELSE [over |-> 1, under |-> y]
  BY Zenon DEF RankScore, Weight
<1> HIDE DEF x, y, score
<1>7. score = IF chunk \in ToSet(lexical) /\ chunk \in ToSet(vector)
                THEN [over |-> x + y, under |-> x * y]
              ELSE IF chunk \in ToSet(lexical) THEN [over |-> 1, under |-> x]
              ELSE [over |-> 1, under |-> y]
  BY <1>5, <1>6
<1>8. score \in Fractions
  <2>1. CASE chunk \in ToSet(lexical) /\ chunk \in ToSet(vector)
    <3>1. x * y \in Nat \ {0} /\ x + y \in Nat
      BY <1>3, <1>4, <2>1
    <3> QED  BY <1>7, <2>1, <3>1 DEF Fractions
  <2>2. CASE ~ (chunk \in ToSet(lexical) /\ chunk \in ToSet(vector))
    BY <1>3, <1>4, <1>7, <2>2 DEF Fractions
  <2> QED  BY <2>1, <2>2
<1> QED  BY <1>3, <1>4, <1>7, <1>8 DEF x, y, score

(* Ahead: wherever the other has a place, this one has a better one.       *)
Ahead(ranking, a, b) ==
  \A j \in Places(b, ranking) : \E i \in Places(a, ranking) : i < j

LEMMA AheadWeighsLess ==
  ASSUME NEW T, ChunkSet(T), NEW ranking \in Rankings(T), NEW k \in Nat,
         NEW a \in T, NEW b \in ToSet(ranking), Ahead(ranking, a, b)
  PROVE  a \in ToSet(ranking) /\ Weight(a, ranking, k) < Weight(b, ranking, k)
<1>1. b \in T
  BY DEF Rankings, ToSet
<1>2. Places(b, ranking) # {} /\ Places(b, ranking) \subseteq Nat
  BY <1>1, PlaceIsRank
<1>3. PICK j \in Places(b, ranking) : TRUE
  BY <1>2
<1>4. PICK i \in Places(a, ranking) : i < j
  BY <1>3 DEF Ahead
<1>5. Places(a, ranking) = {i} /\ Places(b, ranking) = {j} /\ i \in Nat /\ j \in Nat
  BY <1>1, <1>2, <1>3, <1>4, PlaceIsRank
<1>6. (CHOOSE p \in Places(a, ranking) : TRUE) = i /\ (CHOOSE p \in Places(b, ranking) : TRUE) = j
  BY <1>5
<1> QED  BY <1>1, <1>4, <1>5, <1>6, PlaceIsRank DEF Weight

(* A chunk that is ahead in both channels scores higher.                   *)
LEMMA AheadScores ==
  ASSUME NEW T, ChunkSet(T), NEW lexical \in Rankings(T), NEW vector \in Rankings(T),
         NEW k \in Nat, NEW a \in ToSet(lexical) \union ToSet(vector),
         NEW b \in ToSet(lexical) \union ToSet(vector),
         Ahead(lexical, b, a), Ahead(vector, b, a)
  PROVE  Scores(RankScore(b, lexical, vector, k), RankScore(a, lexical, vector, k))
<1> DEFINE x == Weight(a, lexical, k)
           y == Weight(a, vector, k)
           v == Weight(b, lexical, k)
           w == Weight(b, vector, k)
           one == RankScore(a, lexical, vector, k)
           two == RankScore(b, lexical, vector, k)
<1>1. /\ a \in ToSet(lexical) => x \in Nat \ {0}
      /\ a \in ToSet(vector) => y \in Nat \ {0}
      /\ one = IF a \in ToSet(lexical) /\ a \in ToSet(vector)
                 THEN [over |-> x + y, under |-> x * y]
               ELSE IF a \in ToSet(lexical) THEN [over |-> 1, under |-> x]
               ELSE [over |-> 1, under |-> y]
  BY ScoreOfRanks
<1>2. /\ b \in ToSet(lexical) => v \in Nat \ {0}
      /\ b \in ToSet(vector) => w \in Nat \ {0}
      /\ two = IF b \in ToSet(lexical) /\ b \in ToSet(vector)
                 THEN [over |-> v + w, under |-> v * w]
               ELSE IF b \in ToSet(lexical) THEN [over |-> 1, under |-> v]
               ELSE [over |-> 1, under |-> w]
  BY ScoreOfRanks
<1>3. a \in T /\ b \in T
  BY DEF Rankings, ToSet
<1>4. a \in ToSet(lexical) => b \in ToSet(lexical) /\ v < x
  BY <1>3, AheadWeighsLess
<1>5. a \in ToSet(vector) => b \in ToSet(vector) /\ w < y
  BY <1>3, AheadWeighsLess
<1> HIDE DEF x, y, v, w, one, two
<1>6. two.over * one.under > one.over * two.under
  <2>1. CASE a \in ToSet(lexical) /\ a \in ToSet(vector)
    <3>1. one = [over |-> x + y, under |-> x * y] /\ two = [over |-> v + w, under |-> v * w]
      BY <1>1, <1>2, <1>4, <1>5, <2>1
    <3>2. (v + w) * (x * y) > (x + y) * (v * w)
      BY <1>1, <1>2, <1>4, <1>5, <2>1, SmallerRanks
    <3> QED  BY <3>1, <3>2
  <2>2. CASE a \in ToSet(lexical) /\ a \notin ToSet(vector)
    <3>1. one = [over |-> 1, under |-> x]
      BY <1>1, <2>2
    <3>2. CASE b \in ToSet(vector)
      <4>1. two = [over |-> v + w, under |-> v * w]
        BY <1>2, <1>4, <2>2, <3>2
      <4>2. (v + w) * x > 1 * (v * w)
        BY <1>1, <1>2, <1>4, <2>2, <3>2, SmallerRanks
      <4> QED  BY <3>1, <4>1, <4>2
    <3>3. CASE b \notin ToSet(vector)
      BY <1>1, <1>2, <1>4, <2>2, <3>1, <3>3
    <3> QED  BY <3>2, <3>3
  <2>3. CASE a \notin ToSet(lexical)
    <3>1. one = [over |-> 1, under |-> y] /\ a \in ToSet(vector)
      BY <1>1, <2>3
    <3>2. CASE b \in ToSet(lexical)
      <4>1. two = [over |-> v + w, under |-> v * w]
        BY <1>2, <1>5, <3>1, <3>2
      <4>2. (v + w) * y > 1 * (v * w)
        BY <1>1, <1>2, <1>5, <3>1, <3>2, SmallerRanks
      <4> QED  BY <3>1, <4>1, <4>2
    <3>3. CASE b \notin ToSet(lexical)
      BY <1>1, <1>2, <1>5, <3>1, <3>3
    <3> QED  BY <3>2, <3>3
  <2> QED  BY <2>1, <2>2, <2>3
<1> QED  BY <1>6 DEF Scores, one, two
(* The chunks that are fused before another.                               *)
FusedBefore(S, lexical, vector, k) ==
  [x \in S |-> {y \in S :
     \/ Scores(RankScore(y, lexical, vector, k), RankScore(x, lexical, vector, k))
     \/ /\ ~ Scores(RankScore(x, lexical, vector, k), RankScore(y, lexical, vector, k))
        /\ y.id < x.id}]

LEMMA FusionOrders ==
  ASSUME NEW T, ChunkSet(T), NEW lexical \in Rankings(T), NEW vector \in Rankings(T), NEW k \in Nat
  PROVE  LET S == ToSet(lexical) \union ToSet(vector) IN
         /\ IsFiniteSet(S) /\ S \subseteq T
         /\ OrdersSet(S, FusedBefore(S, lexical, vector, k))
         /\ Fuse(lexical, vector, k) = RankedBy(S, FusedBefore(S, lexical, vector, k))
<1> DEFINE S == ToSet(lexical) \union ToSet(vector)
           score(x) == RankScore(x, lexical, vector, k)
           before(y, x) == \/ Scores(score(y), score(x))
                           \/ ~ Scores(score(x), score(y)) /\ y.id < x.id
           earlier == FusedBefore(S, lexical, vector, k)
<1>1. Fuse(lexical, vector, k) = RankedBy(S, earlier)
  BY DEF Fuse, InOrder, FusedBefore
<1>2. S \subseteq T
  BY DEF Rankings, ToSet
<1>3. IsFiniteSet(S)
  <2>1. lexical \in Seq(T) /\ vector \in Seq(T)
    BY DEF Rankings
  <2>2. IsFiniteSet(ToSet(lexical)) /\ IsFiniteSet(ToSet(vector))
    BY <2>1, ElementsAreFinite DEF ToSet, Range
  <2> QED  BY <2>2, FS_Union
<1>4. \A x \in S : score(x) \in Fractions /\ x.id \in Int
  BY <1>2, ScoreOfRanks DEF ChunkSet
<1>5. \A x, y \in S : y \in earlier[x] <=> before(y, x)
  BY DEF FusedBefore
<1>6. \A x \in S : earlier[x] \subseteq S
  BY DEF FusedBefore
<1> HIDE DEF S, score, earlier
<1>7. ASSUME NEW x \in S, NEW y \in S
      PROVE  /\ ~ before(x, x)
             /\ x # y => before(x, y) \/ before(y, x)
             /\ ~ (Scores(score(x), score(y)) /\ Scores(score(y), score(x)))
  <2>1. x.id \in Int /\ y.id \in Int
    BY <1>4
  <2>2. ~ (Scores(score(x), score(y)) /\ Scores(score(y), score(x)))
        /\ ~ Scores(score(x), score(x))
    BY <1>4, ScoresCompare
  <2>3. x # y => x.id # y.id
    BY <1>2 DEF ChunkSet
  <2> QED  BY <2>1, <2>2, <2>3
<1>8. ASSUME NEW x \in S, NEW y \in S, NEW z \in S, before(x, y), before(y, z)
      PROVE  before(x, z)
  <2>1. /\ ~ Scores(score(y), score(x)) /\ ~ Scores(score(z), score(y))
        /\ x.id \in Int /\ y.id \in Int /\ z.id \in Int
    BY <1>4, <1>7, <1>8
  <2>2. /\ ~ Scores(score(z), score(x))
        /\ Scores(score(x), score(y)) \/ Scores(score(y), score(z)) => Scores(score(x), score(z))
    BY <1>4, <2>1, ScoresCompare
  <2> QED  BY <1>8, <2>1, <2>2
<1> HIDE DEF before
<1>9. OrdersSet(S, earlier)
  <2>1. \A x \in S : earlier[x] \subseteq S /\ x \notin earlier[x]
    BY <1>5, <1>6, <1>7
  <2>2. \A x, y \in S : x \in earlier[y] => earlier[x] \subseteq earlier[y]
    BY <1>5, <1>6, <1>8
  <2>3. \A x, y \in S : x # y => x \in earlier[y] \/ y \in earlier[x]
    BY <1>5, <1>7
  <2> QED  BY <2>1, <2>2, <2>3 DEF OrdersSet
<1> QED  BY <1>1, <1>2, <1>3, <1>9 DEF S, earlier

(* For any chunks, both rankings of them and any constant of the formula,  *)
(* fusion lists each chunk once and none before one that is ahead of it.   *)
THEOREM FusionAlwaysFair ==
  ASSUME NEW T, ChunkSet(T), NEW lexical \in Rankings(T), NEW vector \in Rankings(T), NEW k \in Nat
  PROVE  FusedFairly(lexical, vector, Fuse(lexical, vector, k))
<1> DEFINE S == ToSet(lexical) \union ToSet(vector)
           earlier == FusedBefore(S, lexical, vector, k)
           fused == Fuse(lexical, vector, k)
           n == Cardinality(S)
<1>1. /\ IsFiniteSet(S) /\ S \subseteq T /\ OrdersSet(S, earlier) /\ fused = RankedBy(S, earlier)
  BY FusionOrders
<1>2. ASSUME NEW x \in S, NEW y \in S, x \in earlier[y]
      PROVE  ~ (Ahead(lexical, y, x) /\ Ahead(vector, y, x))
  <2>1. SUFFICES ASSUME Ahead(lexical, y, x), Ahead(vector, y, x)
                 PROVE  FALSE
    OBVIOUS
  <2>2. Scores(RankScore(y, lexical, vector, k), RankScore(x, lexical, vector, k))
    BY <2>1, AheadScores
  <2>3. RankScore(x, lexical, vector, k) \in Fractions /\ RankScore(y, lexical, vector, k) \in Fractions
    BY ScoreOfRanks
  <2>4. ~ Scores(RankScore(x, lexical, vector, k), RankScore(y, lexical, vector, k))
    BY <2>2, <2>3, ScoresCompare
  <2> QED  BY <1>2, <2>2, <2>4 DEF FusedBefore
<1> HIDE DEF S, earlier, fused
<1>3. /\ n \in Nat /\ fused \in [1 .. n -> S]
      /\ \A x \in S : \E i \in 1 .. n : fused[i] = x
      /\ \A i, j \in 1 .. n : i < j <=> fused[i] \in earlier[fused[j]]
  BY <1>1, RankedLists
<1> HIDE DEF n
<1>4. ToSet(fused) = S
  BY <1>3 DEF ToSet
<1>5. ASSUME NEW i \in DOMAIN fused, NEW j \in DOMAIN fused, i < j
      PROVE  /\ fused[i] # fused[j]
             /\ ~ (Ahead(lexical, fused[j], fused[i]) /\ Ahead(vector, fused[j], fused[i]))
  <2>1. /\ i \in 1 .. n /\ j \in 1 .. n /\ fused[i] \in S /\ fused[j] \in S
        /\ fused[i] \in earlier[fused[j]]
    BY <1>3, <1>5
  <2>2. fused[i] # fused[j]
    BY <1>1, <2>1 DEF OrdersSet
  <2> QED  BY <1>2, <2>1, <2>2
<1> QED  BY <1>4, <1>5 DEF FusedFairly, Ahead, S, fused

-----------------------------------------------------------------------------
(* What a search serves.                                                   *)
Query(T, query) ==
  /\ query.lexical \in Rankings(T) /\ query.vector \in Rankings(T)
  /\ query.rrf_k \in Nat /\ query.top_k \in Nat

LEMMA FilteredRanking ==
  ASSUME NEW T, NEW ranking \in Rankings(T), NEW sources
  PROVE  /\ InSources(ranking, sources) \in Rankings(T)
         /\ \A chunk \in ToSet(InSources(ranking, sources)) : chunk.source \in sources
<1> DEFINE n == Len(ranking)
           places == {i \in DOMAIN ranking : ranking[i].source \in sources}
           sub == SubSeqAt(ranking, places)
           m == Cardinality(places)
<1>1. InSources(ranking, sources) = sub
  BY DEF InSources, Filter
<1>2. ranking \in Seq(T) /\ n \in Nat /\ places \in SUBSET (1 .. n)
  BY DEF Rankings
<1>3. \A i \in places : ranking[i].source \in sources
  OBVIOUS
<1>4. \A i, j \in places : ranking[i] = ranking[j] => i = j
  BY DEF Rankings
<1> HIDE DEF places
<1>5. sub \in Seq(T) /\ ToSet(sub) = {ranking[i] : i \in places} /\ Len(sub) = m /\ m \in Nat
  BY <1>2, SubSeqAtIs
<1>6. PICK p : Ascends(p, m, places) /\ sub = [k \in 1 .. m |-> ranking[p[k]]]
  <2>1. n \in Nat
    BY <1>2
  <2> HIDE DEF n
  <2> QED  BY <1>2, <2>1, PlacesAscend DEF Follows
<1>7. \A i, j \in 1 .. m : sub[i] = sub[j] => i = j
  <2>1. \A i \in 1 .. m : p[i] \in places
    BY <1>6 DEF Ascends
  <2>2. \A i, j \in 1 .. m : p[i] = p[j] => i = j
    <3>1. \A i, j \in 1 .. m : i < j => p[i] < p[j]
      BY <1>6 DEF Ascends
    <3>2. \A i \in 1 .. m : p[i] \in Int
      <4>1. \A i \in places : i \in Int
        BY <1>2
      <4> HIDE DEF m
      <4> QED  BY <2>1, <4>1
    <3> HIDE DEF m
    <3> QED  BY <1>5, <3>1, <3>2
  <2> QED  BY <1>4, <1>6, <2>1, <2>2
<1>8. DOMAIN sub = 1 .. m
  BY <1>6
<1> QED  BY <1>1, <1>3, <1>5, <1>7, <1>8 DEF Rankings

LEMMA FirstOf ==
  ASSUME NEW T, NEW ranking \in Seq(T), NEW n \in Nat
  PROVE  /\ UpTo(ranking, n) \in Seq(T) /\ Len(UpTo(ranking, n)) <= n
         /\ \A i \in DOMAIN UpTo(ranking, n) : UpTo(ranking, n)[i] \in ToSet(ranking)
         /\ UpTo(ranking, n) = SubSeq(ranking, 1, Len(UpTo(ranking, n)))
<1>1. CASE Len(ranking) < n
  BY <1>1 DEF UpTo, ToSet
<1>2. CASE ~ (Len(ranking) < n)
  BY <1>2 DEF UpTo, ToSet
<1> QED  BY <1>1, <1>2
(* What is fused from one channel alone keeps its order.                   *)
LEMMA FusedAlone ==
  ASSUME NEW T, ChunkSet(T), NEW lexical \in Rankings(T), NEW k \in Nat
  PROVE  Fuse(lexical, <<>>, k) = lexical
<1> DEFINE S == ToSet(lexical)
           n == Len(lexical)
           earlier == FusedBefore(S, lexical, <<>>, k)
<1>1. <<>> \in Rankings(T) /\ ToSet(<<>>) = {}
  BY EmptySeq DEF Rankings, ToSet
<1>2. S = ToSet(lexical) \union ToSet(<<>>)
  BY <1>1
<1>3. /\ IsFiniteSet(S) /\ S \subseteq T /\ OrdersSet(S, earlier)
      /\ Fuse(lexical, <<>>, k) = RankedBy(S, earlier)
  BY <1>1, <1>2, FusionOrders
<1>4. /\ n \in Nat /\ lexical \in [1 .. n -> S] /\ \A i \in 1 .. n : lexical[i] \in T
      /\ \A x \in S : \E i \in 1 .. n : lexical[i] = x
      /\ \A i, j \in 1 .. n : lexical[i] = lexical[j] => i = j
  <2>1. lexical \in Seq(T)
    BY DEF Rankings
  <2>2. n \in Nat /\ lexical \in [1 .. n -> T] /\ DOMAIN lexical = 1 .. n
    BY <2>1
  <2>3. lexical \in [1 .. n -> S] /\ \A x \in S : \E i \in 1 .. n : lexical[i] = x
    BY <2>2 DEF ToSet
  <2> QED  BY <2>2, <2>3 DEF Rankings
<1>5. ASSUME NEW i \in 1 .. n, NEW j \in 1 .. n, i < j
      PROVE  lexical[i] \in earlier[lexical[j]]
  <2> DEFINE a == lexical[i]
             b == lexical[j]
             x == Weight(a, lexical, k)
             y == Weight(b, lexical, k)
  <2>1. a \in T /\ b \in T /\ a \in S /\ b \in S
    BY <1>4
  <2>2. Ahead(lexical, a, b)
    <3>1. i \in Places(a, lexical)
      BY <1>4 DEF Places
    <3>2. \A p \in Places(b, lexical) : p = j
      <4>1. j \in Places(b, lexical)
        BY <1>4 DEF Places
      <4> HIDE DEF b
      <4> QED  BY <2>1, <4>1, PlaceIsRank
    <3> QED  BY <1>5, <3>1, <3>2 DEF Ahead
  <2>3. Ahead(<<>>, a, b)
    BY DEF Ahead, Places
  <2> HIDE DEF a, b
  <2>4. Scores(RankScore(a, lexical, <<>>, k), RankScore(b, lexical, <<>>, k))
    BY <1>1, <1>2, <2>1, <2>2, <2>3, AheadScores
  <2> QED  BY <2>1, <2>4 DEF FusedBefore, a, b
<1> HIDE DEF S, n, earlier
<1>6. ListsInOrder(lexical, n, S, earlier)
  BY <1>4, <1>5 DEF ListsInOrder
<1>7. RankedBy(S, earlier) = lexical
  BY <1>3, <1>4, <1>6, RankedIsUnique
<1> QED  BY <1>3, <1>7

(* For any query: what a search serves comes from allowed sources, is at   *)
(* most as much as was asked for, and an outage of the vector channel      *)
(* leaves exactly the first lexical hits, as many as were asked for.       *)
THEOREM SearchAlwaysSafe ==
  ASSUME NEW T, ChunkSet(T), NEW query, Query(T, query)
  PROVE  SearchedSafely(query)
<1> DEFINE allowed == AllowedSources(query.allowlist, query.sources)
           lexical == InSources(query.lexical, allowed)
           answered == query.embedded /\ ~ query.backend_failed
           vector == IF answered THEN InSources(query.vector, allowed) ELSE <<>>
           fused == Fuse(lexical, vector, query.rrf_k)
           chunks == UpTo(fused, query.top_k)
<1>1. HybridSearch(query) = [chunks |-> chunks, degraded |-> ~ answered]
  BY DEF HybridSearch
<1>2. lexical \in Rankings(T) /\ \A chunk \in ToSet(lexical) : chunk.source \in allowed
  BY FilteredRanking DEF Query
<1>3. vector \in Rankings(T) /\ \A chunk \in ToSet(vector) : chunk.source \in allowed
  <2>1. <<>> \in Rankings(T) /\ ToSet(<<>>) = {}
    BY EmptySeq DEF Rankings, ToSet
  <2>2. InSources(query.vector, allowed) \in Rankings(T)
        /\ \A chunk \in ToSet(InSources(query.vector, allowed)) : chunk.source \in allowed
    BY FilteredRanking DEF Query
  <2> QED  BY <2>1, <2>2
<1>4. query.rrf_k \in Nat /\ query.top_k \in Nat
  BY DEF Query
<1>5. ~ answered => fused = lexical
  BY <1>2, <1>4, FusedAlone
<1> HIDE DEF lexical, vector, allowed
<1>6. /\ ToSet(fused) = ToSet(lexical) \union ToSet(vector)
      /\ fused \in Seq(T)
  <2> DEFINE S == ToSet(lexical) \union ToSet(vector)
             earlier == FusedBefore(S, lexical, vector, query.rrf_k)
  <2>1. ToSet(fused) = S
    BY <1>2, <1>3, <1>4, FusionAlwaysFair DEF FusedFairly
  <2>2. IsFiniteSet(S) /\ S \subseteq T /\ OrdersSet(S, earlier) /\ fused = RankedBy(S, earlier)
    BY <1>2, <1>3, <1>4, FusionOrders
  <2> HIDE DEF S, earlier, fused
  <2>3. Cardinality(S) \in Nat /\ fused \in [1 .. Cardinality(S) -> S]
    BY <2>2, RankedLists
  <2>4. fused \in Seq(T)
    BY <2>2, <2>3, SeqDef
  <2> QED  BY <2>1, <2>4 DEF S
<1> HIDE DEF fused
<1>7. /\ Len(chunks) <= query.top_k
      /\ \A i \in DOMAIN chunks : chunks[i] \in ToSet(fused)
      /\ chunks = SubSeq(fused, 1, Len(chunks))
  BY <1>4, <1>6, FirstOf
<1> HIDE DEF chunks
<1>8. \A i \in DOMAIN chunks : chunks[i].source \in allowed
  BY <1>2, <1>3, <1>6, <1>7
<1>9. ~ answered => chunks = UpTo(lexical, query.top_k)
  BY <1>5 DEF chunks
<1> DEFINE result == HybridSearch(query)
<1>10. result.chunks = chunks /\ (result.degraded <=> ~ answered)
  <2>1. result.chunks = chunks
    BY <1>1
  <2>2. result.degraded = (~ answered)
    <3> DEFINE down == ~ answered
    <3>1. HybridSearch(query) = [chunks |-> chunks, degraded |-> down]
      BY <1>1, Zenon
    <3> HIDE DEF down, answered, chunks
    <3>2. result.degraded = down
      BY <3>1
    <3> QED  BY <3>2, Zenon DEF down
  <2> QED  BY <2>1, <2>2, Zenon
<1>11. /\ \A i \in DOMAIN result.chunks : result.chunks[i].source \in allowed
       /\ Len(result.chunks) <= query.top_k
       /\ result.degraded => result.chunks = UpTo(lexical, query.top_k)
  <2> HIDE DEF result, answered
  <2> QED  BY <1>7, <1>8, <1>9, <1>10
<1> QED  BY <1>11, Zenon DEF SearchedSafely, lexical, allowed

-----------------------------------------------------------------------------
(* RetrievalRules.  Chunks of a text that is in the pack are passed over.  *)
Kept(kept, chunk) ==
  IF \E i \in DOMAIN kept : SameText(kept[i], chunk) THEN kept ELSE Append(kept, chunk)

KeepsDistinct(g, chunks) ==
  g[0] = <<>> /\ \A i \in 1 .. Len(chunks) : g[i] = Kept(g[i - 1], chunks[i])

LEMMA DistinctUnfolds ==
  ASSUME NEW T, NEW chunks \in Seq(T)
  PROVE  \E g : KeepsDistinct(g, chunks) /\ Distinct(chunks) = g[Len(chunks)]
<1> DEFINE n == Len(chunks)
           step == [i \in 1 .. n |-> [kept \in Seq(T) |-> Kept(kept, chunks[i])]]
           Is(iter) == iter = [s \in SUBSET (1 .. n) |->
                         IF s = {} THEN <<>> ELSE Kept(iter[s \ {Max(s)}], chunks[Max(s)])]
           iter == CHOOSE iter : Is(iter)
           g == [i \in 0 .. n |-> iter[1 .. i]]
<1>1. n \in Nat /\ DOMAIN chunks = 1 .. n /\ \A i \in 1 .. n : chunks[i] \in T
  OBVIOUS
<1>2. Distinct(chunks) = iter[1 .. n]
  BY <1>1 DEF Distinct, FoldLeft, MapThenFoldSet, Kept
<1>3. <<>> \in Seq(T) /\ \A kept \in Seq(T), chunk \in T : Kept(kept, chunk) \in Seq(T)
  BY DEF Kept
<1> HIDE DEF n
<1>4. PICK F \in [SUBSET (1 .. n) -> Seq(T)] : FoldsBy(F, n, <<>>, step)
  <2>1. step \in [1 .. n -> [Seq(T) -> Seq(T)]]
    BY <1>1, <1>3
  <2> HIDE DEF step
  <2> QED  BY <1>1, <1>3, <2>1, FoldExists DEF Foldable
<1>5. Is(iter)
  <2>1. \A s \in SUBSET (1 .. n) : s # {} => Max(s) \in 1 .. n /\ s \ {Max(s)} \in SUBSET (1 .. n)
    BY <1>1, GreatestPlace
  <2>2. \A s \in SUBSET (1 .. n) :
          F[s] = IF s = {} THEN <<>> ELSE Kept(F[s \ {Max(s)}], chunks[Max(s)])
    BY <1>4, <2>1 DEF FoldsBy
  <2>3. Is(F)
    BY <2>2
  <2> HIDE DEF Is
  <2> QED  BY <2>3
<1>6. \A s \in SUBSET (1 .. n) :
        iter[s] = IF s = {} THEN <<>> ELSE Kept(iter[s \ {Max(s)}], chunks[Max(s)])
  <2> HIDE DEF iter
  <2> QED  BY <1>5
<1> HIDE DEF iter
<1>7. g[0] = <<>> /\ \A i \in 1 .. n : g[i] = Kept(g[i - 1], chunks[i])
  <2>1. PassedPlaces(n)
    BY <1>1, PlacesPassed
  <2>2. iter[{}] = <<>>
    BY <1>6
  <2>3. \A i \in 1 .. n : iter[1 .. i] = Kept(iter[1 .. (i - 1)], chunks[i])
    BY <1>6, <2>1 DEF PassedPlaces
  <2>4. \A i \in 1 .. n : g[i] = iter[1 .. i] /\ g[i - 1] = iter[1 .. (i - 1)]
    BY <1>1
  <2>5. g[0] = iter[{}]
    BY <1>1, <2>1 DEF PassedPlaces
  <2> QED  BY <2>2, <2>3, <2>4, <2>5
<1>8. g[n] = iter[1 .. n]
  BY <1>1
<1> HIDE DEF g
<1>9. KeepsDistinct(g, chunks)
  BY <1>7 DEF KeepsDistinct, n
<1> QED  BY <1>2, <1>8, <1>9 DEF n

TextsApart(kept) == \A i, j \in DOMAIN kept : SameText(kept[i], kept[j]) => i = j

LEMMA DistinctTexts ==
  ASSUME NEW T, NEW chunks \in Seq(T)
  PROVE  /\ Distinct(chunks) \in Seq(T)
         /\ TextsApart(Distinct(chunks))
<1> DEFINE n == Len(chunks)
<1>1. PICK g : KeepsDistinct(g, chunks) /\ Distinct(chunks) = g[n]
  BY DistinctUnfolds
<1> DEFINE W == {kept \in Seq(T) : TextsApart(kept)}
           Q == {i \in 0 .. n : g[i] \in W}
<1>2. n \in Nat /\ \A i \in 1 .. n : chunks[i] \in T
  OBVIOUS
<1>a. \A i \in 1 .. n : g[i] = Kept(g[i - 1], chunks[i])
  BY <1>1 DEF KeepsDistinct
<1> HIDE DEF n
<1>3. 0 \in Q
  <2>1. g[0] = <<>>
    BY <1>1 DEF KeepsDistinct
  <2>2. <<>> \in Seq(T) /\ TextsApart(<<>>)
    BY DEF TextsApart
  <2>3. <<>> \in W
    BY <2>2, Zenon
  <2> HIDE DEF W
  <2> QED  BY <1>2, <2>1, <2>3
<1>4. ASSUME NEW i \in 1 .. n, i - 1 \in Q
      PROVE  i \in Q
  <2> DEFINE kept == g[i - 1]
             chunk == chunks[i]
  <2>1. kept \in Seq(T) /\ TextsApart(kept) /\ chunk \in T
    BY <1>2, <1>4
  <2>2. g[i] = Kept(kept, chunk)
    BY <1>a
  <2> HIDE DEF kept, chunk
  <2>3. CASE \E j \in DOMAIN kept : SameText(kept[j], chunk)
    <3>1. g[i] = kept
      BY <2>2, <2>3 DEF Kept
    <3> QED  BY <2>1, <3>1
  <2>4. CASE ~ \E j \in DOMAIN kept : SameText(kept[j], chunk)
    <3> DEFINE m == Len(kept)
               more == Append(kept, chunk)
    <3>1. g[i] = more
      BY <2>2, <2>4 DEF Kept
    <3>2. /\ more \in Seq(T) /\ DOMAIN more = 1 .. m + 1 /\ DOMAIN kept = 1 .. m /\ m \in Nat
          /\ more[m + 1] = chunk /\ \A j \in 1 .. m : more[j] = kept[j]
      BY <2>1
    <3>3. TextsApart(more)
      <4> HIDE DEF more, m
      <4> QED  BY <2>1, <2>4, <3>2 DEF SameText, TextsApart
    <3> HIDE DEF more
    <3>4. more \in W
      BY <3>2, <3>3, Zenon
    <3> HIDE DEF W
    <3> QED  BY <3>1, <3>4
  <2> QED  BY <2>3, <2>4
<1>5. n \in Q
  <2> HIDE DEF Q
  <2>1. \A i \in 0 .. n : i \in Q
    BY <1>2, <1>3, <1>4, PrefixInduction
  <2> QED  BY <1>2, <2>1
<1> QED  BY <1>1, <1>5

-----------------------------------------------------------------------------
(* RetrievalRules.  What packing one more chunk does.                      *)
Packed(pack, chunk, conflicting, limit) ==
  CASE pack.full -> pack
    [] ~ pack.full /\ chunk.source \notin conflicting
         /\ Len(pack.kept) >= limit -> [pack EXCEPT !.full = TRUE]
    [] OTHER -> [pack EXCEPT !.kept = Append(@, chunk)]

Packs(T) == [kept : Seq(T), full : BOOLEAN]

PacksOneByOne(g, chunks, conflicting, limit) ==
  /\ g[0] = [kept |-> <<>>, full |-> FALSE]
  /\ \A i \in 1 .. Len(chunks) : g[i] = Packed(g[i - 1], chunks[i], conflicting, limit)

PacksOneMore(T, pack, chunk, conflicting, limit) ==
  /\ Packed(pack, chunk, conflicting, limit) \in Packs(T)
  /\ pack.full => Packed(pack, chunk, conflicting, limit) = pack
  /\ ~ pack.full =>
       IF chunk.source \notin conflicting /\ Len(pack.kept) >= limit
       THEN Packed(pack, chunk, conflicting, limit) = [kept |-> pack.kept, full |-> TRUE]
       ELSE Packed(pack, chunk, conflicting, limit) =
              [kept |-> Append(pack.kept, chunk), full |-> FALSE]

LEMMA PackedStays ==
  ASSUME NEW T, NEW pack \in Packs(T), NEW chunk \in T, NEW conflicting, NEW limit
  PROVE  PacksOneMore(T, pack, chunk, conflicting, limit)
<1> DEFINE over == chunk.source \notin conflicting /\ Len(pack.kept) >= limit
<1>1. Packed(pack, chunk, conflicting, limit) =
        IF pack.full THEN pack
        ELSE IF over THEN [pack EXCEPT !.full = TRUE]
        ELSE [pack EXCEPT !.kept = Append(@, chunk)]
  BY Zenon DEF Packed
<1>2. /\ pack.kept \in Seq(T) /\ pack.full \in BOOLEAN
      /\ pack = [kept |-> pack.kept, full |-> pack.full]
  BY DEF Packs
<1>3. Append(pack.kept, chunk) \in Seq(T)
  BY <1>2
<1>4. CASE pack.full
  BY <1>1, <1>4, Zenon DEF PacksOneMore
<1>5. CASE ~ pack.full /\ over
  <2>1. Packed(pack, chunk, conflicting, limit) = [pack EXCEPT !.full = TRUE]
    BY <1>1, <1>5, Zenon
  <2>2. [pack EXCEPT !.full = TRUE] = [kept |-> pack.kept, full |-> TRUE]
    <3> DEFINE new == [pack EXCEPT !.full = TRUE]
    <3>1. new \in Packs(T) /\ new.kept = pack.kept /\ new.full = TRUE
      BY DEF Packs
    <3> HIDE DEF new
    <3>2. new = [kept |-> new.kept, full |-> new.full]
      BY <3>1 DEF Packs
    <3> QED  BY <3>1, <3>2 DEF new
  <2>3. [kept |-> pack.kept, full |-> TRUE] \in Packs(T)
    BY <1>2 DEF Packs
  <2> QED  BY <1>5, <2>1, <2>2, <2>3, Zenon DEF PacksOneMore
<1>6. CASE ~ pack.full /\ ~ over
  <2>1. Packed(pack, chunk, conflicting, limit) = [pack EXCEPT !.kept = Append(@, chunk)]
    BY <1>1, <1>6, Zenon
  <2>2. [pack EXCEPT !.kept = Append(@, chunk)] =
          [kept |-> Append(pack.kept, chunk), full |-> FALSE]
    <3> DEFINE more == Append(pack.kept, chunk)
               new == [pack EXCEPT !.kept = more]
    <3>0. pack.full = FALSE
      BY <1>2, <1>6
    <3> HIDE DEF more
    <3>1. new \in Packs(T) /\ new.kept = more /\ new.full = pack.full
      BY <1>3 DEF Packs, more
    <3>2. [pack EXCEPT !.kept = Append(@, chunk)] = new
      BY DEF more
    <3> HIDE DEF new
    <3>3. new = [kept |-> new.kept, full |-> new.full]
      BY <3>1 DEF Packs
    <3> QED  BY <3>0, <3>1, <3>2, <3>3 DEF more
  <2>3. [kept |-> Append(pack.kept, chunk), full |-> FALSE] \in Packs(T)
    BY <1>3 DEF Packs
  <2> QED  BY <1>6, <2>1, <2>2, <2>3, Zenon DEF PacksOneMore
<1> QED  BY <1>4, <1>5, <1>6, Zenon

LEMMA PackUnfolds ==
  ASSUME NEW T, NEW chunks, Distinct(chunks) \in Seq(T), NEW conflicting, NEW limit
  PROVE  \E g : /\ PacksOneByOne(g, Distinct(chunks), conflicting, limit)
                /\ EvidenceChunks(chunks, conflicting, limit) = g[Len(Distinct(chunks))].kept
<1> DEFINE rest == Distinct(chunks)
           n == Len(rest)
           start == [kept |-> <<>>, full |-> FALSE]
           Onward(pack, i) == Packed(pack, rest[i], conflicting, limit)
           step == [i \in 1 .. n |-> [pack \in Packs(T) |-> Onward(pack, i)]]
           Is(iter) == iter = [s \in SUBSET (1 .. n) |->
                         IF s = {} THEN start ELSE Onward(iter[s \ {Max(s)}], Max(s))]
           iter == CHOOSE iter : Is(iter)
           g == [i \in 0 .. n |-> iter[1 .. i]]
<1>1. n \in Nat /\ DOMAIN rest = 1 .. n /\ \A i \in 1 .. n : rest[i] \in T
  OBVIOUS
<1>2. EvidenceChunks(chunks, conflicting, limit) = iter[1 .. n].kept
  <2>1. DOMAIN Distinct(chunks) = 1 .. n
    BY <1>1
  <2> QED  BY <2>1, Zenon DEF EvidenceChunks, FoldLeft, MapThenFoldSet, Packed
<1>3. start \in Packs(T) /\ \A pack \in Packs(T), i \in 1 .. n : Onward(pack, i) \in Packs(T)
  <2>1. start \in Packs(T)
    BY DEF Packs
  <2> QED  BY <1>1, <2>1, PackedStays DEF PacksOneMore
<1> HIDE DEF n, start, Onward, rest
<1>4. PICK F \in [SUBSET (1 .. n) -> Packs(T)] : FoldsBy(F, n, start, step)
  <2>1. step \in [1 .. n -> [Packs(T) -> Packs(T)]]
    BY <1>1, <1>3
  <2> HIDE DEF step
  <2> QED  BY <1>1, <1>3, <2>1, FoldExists DEF Foldable
<1>5. Is(iter)
  <2>1. \A s \in SUBSET (1 .. n) : s # {} => Max(s) \in 1 .. n /\ s \ {Max(s)} \in SUBSET (1 .. n)
    BY <1>1, GreatestPlace
  <2>2. \A s \in SUBSET (1 .. n) :
          F[s] = IF s = {} THEN start ELSE Onward(F[s \ {Max(s)}], Max(s))
    BY <1>4, <2>1 DEF FoldsBy
  <2>3. Is(F)
    BY <2>2
  <2> HIDE DEF Is
  <2> QED  BY <2>3
<1>6. \A s \in SUBSET (1 .. n) :
        iter[s] = IF s = {} THEN start ELSE Onward(iter[s \ {Max(s)}], Max(s))
  <2> HIDE DEF iter
  <2> QED  BY <1>5
<1> HIDE DEF iter
<1>7. g[0] = start /\ \A i \in 1 .. n : g[i] = Onward(g[i - 1], i)
  <2>1. PassedPlaces(n)
    BY <1>1, PlacesPassed
  <2>2. iter[{}] = start
    BY <1>6
  <2>3. \A i \in 1 .. n : iter[1 .. i] = Onward(iter[1 .. (i - 1)], i)
    BY <1>6, <2>1 DEF PassedPlaces
  <2>4. \A i \in 1 .. n : g[i] = iter[1 .. i] /\ g[i - 1] = iter[1 .. (i - 1)]
    BY <1>1
  <2>5. g[0] = iter[{}]
    BY <1>1, <2>1 DEF PassedPlaces
  <2> QED  BY <2>2, <2>3, <2>4, <2>5
<1>8. g[n] = iter[1 .. n]
  BY <1>1
<1> HIDE DEF g
<1>9. PacksOneByOne(g, rest, conflicting, limit)
  BY <1>7 DEF PacksOneByOne, n, start, Onward
<1> QED  BY <1>2, <1>8, <1>9 DEF n, rest

PackedSoFar(pack, rest, i, conflicting, limit) ==
  /\ pack.kept = SubSeq(rest, 1, Len(pack.kept)) /\ Len(pack.kept) <= i
  /\ ~ pack.full => Len(pack.kept) = i
  /\ pack.full => /\ Len(pack.kept) < i /\ Len(pack.kept) >= limit
                  /\ rest[Len(pack.kept) + 1].source \notin conflicting
  /\ \A j \in 1 .. Len(pack.kept) : pack.kept[j].source \notin conflicting => j <= limit

LEMMA PackedFurther ==
  ASSUME NEW T, NEW rest \in Seq(T), NEW i \in 1 .. Len(rest), NEW pack \in Packs(T),
         NEW conflicting, NEW limit \in Int,
         PackedSoFar(pack, rest, i - 1, conflicting, limit)
  PROVE  /\ Packed(pack, rest[i], conflicting, limit) \in Packs(T)
         /\ PackedSoFar(Packed(pack, rest[i], conflicting, limit), rest, i, conflicting, limit)
<1> DEFINE chunk == rest[i]
           new == Packed(pack, chunk, conflicting, limit)
           kept == pack.kept
           m == Len(kept)
           over == chunk.source \notin conflicting /\ m >= limit
<1>1. /\ chunk \in T /\ kept \in Seq(T) /\ m \in Nat /\ i \in Nat /\ i <= Len(rest)
      /\ Len(rest) \in Nat /\ pack.full \in BOOLEAN
  BY DEF Packs
<1>2. /\ new \in Packs(T)
      /\ pack.full => new = pack
      /\ ~ pack.full => IF over THEN new = [kept |-> kept, full |-> TRUE]
                                ELSE new = [kept |-> Append(kept, chunk), full |-> FALSE]
  <2> HIDE DEF chunk
  <2>1. PacksOneMore(T, pack, chunk, conflicting, limit)
    BY <1>1, PackedStays
  <2> QED  BY <2>1, Zenon DEF PacksOneMore
<1>3. /\ kept = SubSeq(rest, 1, m) /\ m <= i - 1
      /\ ~ pack.full => m = i - 1
      /\ pack.full => m < i - 1 /\ m >= limit /\ rest[m + 1].source \notin conflicting
      /\ \A j \in 1 .. m : kept[j].source \notin conflicting => j <= limit
  BY DEF PackedSoFar
<1>4. CASE pack.full
  <2>1. new = pack
    BY <1>2, <1>4
  <2>2. PackedSoFar(pack, rest, i, conflicting, limit)
    BY <1>1, <1>3, <1>4 DEF PackedSoFar
  <2> QED  BY <1>2, <2>1, <2>2
<1>5. CASE ~ pack.full /\ over
  <2>1. new.kept = kept /\ new.full = TRUE
    <3>1. new = [kept |-> kept, full |-> TRUE]
      BY <1>2, <1>5, Zenon
    <3> HIDE DEF new, kept
    <3> QED  BY <3>1
  <2> HIDE DEF new
  <2>2. PackedSoFar(new, rest, i, conflicting, limit)
    BY <1>1, <1>3, <1>5, <2>1 DEF PackedSoFar
  <2> QED  BY <1>2, <2>2 DEF new, chunk
<1>6. CASE ~ pack.full /\ ~ over
  <2> DEFINE more == Append(kept, chunk)
  <2>1. new.kept = more /\ new.full = FALSE
    <3>1. new = [kept |-> more, full |-> FALSE]
      BY <1>2, <1>6, Zenon
    <3> HIDE DEF new, kept, more
    <3> QED  BY <3>1
  <2>2. m = i - 1
    BY <1>3, <1>6
  <2> HIDE DEF new, kept, chunk
  <2>3. /\ Len(more) = m + 1 /\ more[m + 1] = chunk
        /\ \A j \in 1 .. m : more[j] = kept[j]
    BY <1>1
  <2>4. more = SubSeq(rest, 1, m + 1)
    <3>1. DOMAIN more = 1 .. m + 1
      BY <1>1
    <3>2. SubSeq(rest, 1, m + 1) = [j \in 1 .. m + 1 |-> rest[j]]
      BY <1>1, <2>2
    <3>3. \A j \in 1 .. m : kept[j] = rest[j]
      BY <1>1, <1>3, <2>2
    <3>4. \A j \in 1 .. m + 1 : more[j] = rest[j]
      BY <1>1, <2>2, <2>3, <3>3 DEF chunk
    <3>a. more \in Seq(T)
      BY <1>1
    <3> HIDE DEF more
    <3>5. more = [j \in 1 .. m + 1 |-> more[j]]
      BY <3>1, <3>a
    <3> QED  BY <3>2, <3>4, <3>5
  <2>5. \A j \in 1 .. m + 1 : more[j].source \notin conflicting => j <= limit
    BY <1>1, <1>3, <1>6, <2>3
  <2> HIDE DEF more, m
  <2>6. PackedSoFar(new, rest, i, conflicting, limit)
    BY <1>1, <2>1, <2>2, <2>3, <2>4, <2>5 DEF PackedSoFar
  <2> QED  BY <1>2, <2>6 DEF new, chunk
<1> QED  BY <1>1, <1>4, <1>5, <1>6

(* For any chunks, conflicts and limit: an evidence pack holds no text of  *)
(* a version twice and is full of what comes first.                        *)
THEOREM PackAlwaysFair ==
  ASSUME NEW T, NEW chunks \in Seq(T), NEW conflicting, NEW limit \in Int
  PROVE  PackedFairly(chunks, conflicting, limit)
<1> DEFINE rest == Distinct(chunks)
           n == Len(rest)
           pack == EvidenceChunks(chunks, conflicting, limit)
<1>1. rest \in Seq(T) /\ TextsApart(rest)
  BY DistinctTexts
<1>2. PICK g : /\ PacksOneByOne(g, rest, conflicting, limit)
               /\ pack = g[n].kept
  BY <1>1, PackUnfolds
<1>3. n \in Nat /\ DOMAIN rest = 1 .. n
  BY <1>1
<1> HIDE DEF rest, n, pack
<1> DEFINE Good(i) == g[i] \in Packs(T) /\ PackedSoFar(g[i], rest, i, conflicting, limit)
           Q == {i \in 0 .. n : Good(i)}
<1>4. Good(0)
  <2> DEFINE start == [kept |-> <<>>, full |-> FALSE]
  <2>1. g[0] = start
    BY <1>2 DEF PacksOneByOne
  <2>2. start \in Packs(T)
    BY DEF Packs
  <2>3. start.kept = <<>> /\ start.full = FALSE
    OBVIOUS
  <2>4. <<>> = SubSeq(rest, 1, 0) /\ Len(<<>>) = 0
    BY <1>1
  <2> HIDE DEF start
  <2>5. PackedSoFar(start, rest, 0, conflicting, limit)
    BY <2>3, <2>4 DEF PackedSoFar
  <2> QED  BY <2>1, <2>2, <2>5
<1>5. ASSUME NEW i \in 1 .. n, Good(i - 1)
      PROVE  Good(i)
  <2>1. g[i] = Packed(g[i - 1], rest[i], conflicting, limit)
    BY <1>2 DEF PacksOneByOne, n
  <2>2. i \in 1 .. Len(rest)
    BY DEF n
  <2> QED  BY <1>1, <1>5, <2>1, <2>2, PackedFurther
<1>6. Good(n)
  <2> HIDE DEF Good
  <2>1. 0 \in Q /\ \A i \in 1 .. n : i - 1 \in Q => i \in Q
    <3>1. 0 \in 0 .. n
      BY <1>3
    <3> QED  BY <1>4, <1>5, <3>1
  <2> HIDE DEF Q
  <2>2. \A i \in 0 .. n : i \in Q
    BY <1>3, <2>1, PrefixInduction
  <2>3. n \in Q
    BY <1>3, <2>2
  <2> QED  BY <2>3 DEF Q
<1> DEFINE m == Len(pack)
<1>7. /\ pack \in Seq(T) /\ m \in Nat /\ DOMAIN pack = 1 .. m /\ m <= n
      /\ pack = SubSeq(rest, 1, m)
      /\ m # n => rest[m + 1].source \notin conflicting /\ m >= limit
      /\ \A j \in 1 .. m : pack[j].source \notin conflicting => j <= limit
  BY <1>2, <1>3, <1>6 DEF PackedSoFar, Packs
<1>8. \A i \in 1 .. m : i \in 1 .. n /\ pack[i] = rest[i]
  <2>1. Len(rest) = n
    BY DEF n
  <2>2. SubSeq(rest, 1, m) = [i \in 1 .. m |-> rest[i]]
    <3> HIDE DEF m
    <3> QED  BY <1>1, <1>3, <1>7, <2>1
  <2> HIDE DEF m
  <2> QED  BY <1>3, <1>7, <2>2
<1>9. TextsApart(pack)
  BY <1>1, <1>3, <1>7, <1>8 DEF TextsApart
<1>10. IsPrefix(pack, rest)
  <2>1. SubSeq(pack, 1, m) = pack
    BY <1>7
  <2> HIDE DEF m
  <2> QED  BY <1>7, <2>1 DEF IsPrefix, n, m
<1>11. pack # rest => m # n
  BY <1>1, <1>7 DEF n
<1> HIDE DEF m
<1> QED  BY <1>7, <1>9, <1>10, <1>11 DEF PackedFairly, TextsApart, pack, rest, m

-----------------------------------------------------------------------------
(* ModelRules.  What counting delimiters comes to.                         *)
Where(content, c) == {i \in DOMAIN content : content[i] = c}

LEMMA CountIsFinite ==
  ASSUME NEW T, NEW s \in Seq(T), NEW c
  PROVE  /\ Count(s, c) \in Nat /\ Count(s, c) = Cardinality(Where(s, c))
         /\ IsFiniteSet(Where(s, c)) /\ Where(s, c) \subseteq 1 .. Len(s)
<1>1. DOMAIN s = 1 .. Len(s) /\ Len(s) \in Nat
  OBVIOUS
<1>2. IsFiniteSet(1 .. Len(s))
  BY <1>1, FS_Interval
<1>3. Where(s, c) \subseteq 1 .. Len(s)
  BY <1>1 DEF Where
<1>4. IsFiniteSet(Where(s, c))
  BY <1>2, <1>3, FS_Subset
<1>5. Cardinality(Where(s, c)) \in Nat
  BY <1>4, FS_CardinalityType
<1>6. Count(s, c) = Cardinality(Where(s, c))
  BY Zenon DEF Count, Where
<1> QED  BY <1>3, <1>4, <1>5, <1>6

LEMMA CountAdds ==
  ASSUME NEW T, NEW s \in Seq(T), NEW t \in Seq(T), NEW c
  PROVE  Count(s \o t, c) = Count(s, c) + Count(t, c)
<1> DEFINE m == Len(s)
           all == s \o t
           A == Where(s, c)
           B == Where(t, c)
           f == [j \in B |-> m + j]
           C == {m + j : j \in B}
<1>1. PutsAfter(s, t, all) /\ all \in Seq(T)
  BY ConcatPuts
<1> HIDE DEF all
<1>2. /\ Count(s, c) = Cardinality(A) /\ IsFiniteSet(A) /\ A \subseteq 1 .. m
      /\ Count(t, c) = Cardinality(B) /\ IsFiniteSet(B) /\ B \subseteq 1 .. Len(t)
      /\ Count(all, c) = Cardinality(Where(all, c))
      /\ Cardinality(A) \in Nat /\ Cardinality(B) \in Nat
  BY <1>1, CountIsFinite
<1>3. m \in Nat /\ Len(t) \in Nat
  OBVIOUS
<1>4. IsFiniteSet(C) /\ Cardinality(C) = Cardinality(B)
  <2>1. f \in [B -> C] /\ \A i, j \in B : f[i] = f[j] => i = j
    BY <1>2, <1>3
  <2>2. \A x \in C : \E j \in B : f[j] = x
    OBVIOUS
  <2> HIDE DEF f, C, B
  <2>3. f \in Bijection(B, C)
    BY <2>1, <2>2 DEF Bijection, Injection, Surjection, IsInjective
  <2>4. ExistsBijection(B, C)
    BY <2>3 DEF ExistsBijection
  <2> QED  BY <1>2, <2>4, FS_Bijection
<1>5. A \intersect C = {}
  BY <1>2, <1>3
<1>6. Where(all, c) = A \union C
  <2>1. /\ Len(all) = m + Len(t)
        /\ \A j \in 1 .. m : all[j] = s[j]
        /\ \A j \in 1 .. Len(t) : all[m + j] = t[j]
    BY <1>1, Zenon DEF PutsAfter
  <2>2. DOMAIN all = 1 .. m + Len(t) /\ DOMAIN s = 1 .. m /\ DOMAIN t = 1 .. Len(t)
    BY <1>1, <2>1
  <2>3. \A i \in A \union C : i \in Where(all, c)
    <3>1. \A i \in A : i \in 1 .. m /\ s[i] = c
      BY <2>2 DEF Where
    <3>2. \A j \in B : j \in 1 .. Len(t) /\ t[j] = c
      BY <2>2 DEF Where
    <3> HIDE DEF A, B, m
    <3>3. \A i \in A : i \in Where(all, c)
      BY <1>3, <2>1, <2>2, <3>1 DEF Where
    <3>4. \A j \in B : m + j \in Where(all, c)
      BY <1>3, <2>1, <2>2, <3>2 DEF Where
    <3> QED  BY <3>3, <3>4
  <2>4. ASSUME NEW i \in Where(all, c)
        PROVE  i \in A \union C
    <3>1. i \in 1 .. m + Len(t) /\ all[i] = c
      BY <2>2 DEF Where
    <3>2. CASE i <= m
      BY <2>1, <2>2, <3>1, <3>2 DEF Where
    <3>3. CASE ~ (i <= m)
      <4> DEFINE j == i - m
      <4>1. j \in 1 .. Len(t) /\ i = m + j
        BY <1>3, <3>1, <3>3
      <4> HIDE DEF j
      <4>2. j \in B
        BY <2>1, <2>2, <3>1, <4>1 DEF Where
      <4> HIDE DEF B
      <4> QED  BY <4>1, <4>2
    <3> QED  BY <3>2, <3>3
  <2> QED  BY <2>3, <2>4
<1> HIDE DEF A, B, C
<1>7. Cardinality(A \union C) = Cardinality(A) + Cardinality(C) - Cardinality({})
  BY <1>2, <1>4, <1>5, FS_Union
<1>8. Cardinality({}) = 0
  BY FS_EmptySet
<1> QED  BY <1>2, <1>4, <1>6, <1>7, <1>8 DEF all

LEMMA CountOfOne ==
  ASSUME NEW T, NEW x \in T, NEW c
  PROVE  Count(<<x>>, c) = IF x = c THEN 1 ELSE 0
<1>1. Where(<<x>>, c) = IF x = c THEN {1} ELSE {}
  BY DEF Where
<1>2. Cardinality({1}) = 1 /\ Cardinality({}) = 0
  BY FS_Singleton, FS_EmptySet
<1>3. Count(<<x>>, c) = Cardinality(Where(<<x>>, c))
  BY Zenon DEF Count, Where
<1> QED  BY <1>1, <1>2, <1>3

LEMMA CountOfCopies ==
  ASSUME NEW x, NEW n \in Nat, NEW c
  PROVE  /\ Copies(x, n) \in Seq({x}) /\ Len(Copies(x, n)) = n
         /\ Count(Copies(x, n), c) = IF x = c THEN n ELSE 0
<1>1. Copies(x, n) \in Seq({x}) /\ Len(Copies(x, n)) = n /\ DOMAIN Copies(x, n) = 1 .. n
      /\ \A i \in 1 .. n : Copies(x, n)[i] = x
  <2>1. Copies(x, n) \in [1 .. n -> {x}]
    BY DEF Copies
  <2>2. Copies(x, n) \in Seq({x})
    BY <2>1, SeqDef
  <2>3. DOMAIN Copies(x, n) = 1 .. n /\ \A i \in 1 .. n : Copies(x, n)[i] = x
    BY DEF Copies
  <2> QED  BY <2>2, <2>3
<1>2. Where(Copies(x, n), c) = IF x = c THEN 1 .. n ELSE {}
  BY <1>1 DEF Where
<1>3. Cardinality(1 .. n) = n /\ Cardinality({}) = 0
  BY FS_Interval, FS_EmptySet
<1>4. Count(Copies(x, n), c) = Cardinality(Where(Copies(x, n), c))
  BY Zenon DEF Count, Where
<1> QED  BY <1>1, <1>2, <1>3, <1>4

LBrace == "{"
RBrace == "}"
LBracket == "["
RBracket == "]"

Delimiters == {LBrace, RBrace, LBracket, RBracket}

LEMMA DelimitersDiffer ==
  /\ LBrace # RBrace /\ LBrace # LBracket /\ LBrace # RBracket
  /\ RBrace # LBracket /\ RBrace # RBracket /\ LBracket # RBracket
  /\ "broken" # LBrace /\ "broken" # LBracket
BY Zenon DEF LBrace, RBrace, LBracket, RBracket

Excess(content, opening, closing) == Count(content, opening) - Count(content, closing)

(* What one pass does.                                                     *)
LEMMA ClosedOnce ==
  ASSUME NEW content \in Seq(Delimiters)
  PROVE  /\ CloseDelimiters(content) \in Seq(Delimiters)
         /\ CloseDelimiters(CloseDelimiters(content)) = CloseDelimiters(content)
         /\ IsPrefix(content, CloseDelimiters(content))
         /\ Excess(content, LBrace, RBrace) \in Int /\ Excess(content, LBracket, RBracket) \in Int
         /\ Excess(content, LBrace, RBrace) >= 0 /\ Excess(content, LBracket, RBracket) >= 0 =>
              CloseDelimiters(content) = content \o Copies(RBrace, Excess(content, LBrace, RBrace))
                                                 \o Copies(RBracket, Excess(content, LBracket, RBracket))
<1> DEFINE braces == Excess(content, LBrace, RBrace)
           brackets == Excess(content, LBracket, RBracket)
           more == Copies(RBrace, braces)
           rest == Copies(RBracket, brackets)
           closed == CloseDelimiters(content)
           S == Seq(Delimiters)
<1>1. \A s \in S : \A c : Count(s, c) \in Nat
  BY CountIsFinite
<1>2. braces \in Int /\ brackets \in Int
  <2>1. Count(content, LBrace) \in Nat /\ Count(content, RBrace) \in Nat
        /\ Count(content, LBracket) \in Nat /\ Count(content, RBracket) \in Nat
    BY <1>1
  <2> QED  BY <2>1 DEF Excess
<1>3. \A s : CloseDelimiters(s) =
         IF Excess(s, LBrace, RBrace) < 0 \/ Excess(s, LBracket, RBracket) < 0 THEN s
         ELSE s \o Copies(RBrace, Excess(s, LBrace, RBrace)) \o Copies(RBracket, Excess(s, LBracket, RBracket))
  BY Zenon DEF CloseDelimiters, Excess, LBrace, RBrace, LBracket, RBracket
<1>4. content \in S /\ Len(content) \in Nat /\ SubSeq(content, 1, Len(content)) = content
  OBVIOUS
<1>5. CASE braces < 0 \/ brackets < 0
  <2>1. closed = content
    BY <1>3, <1>5
  <2>2. IsPrefix(content, content)
    BY <1>4 DEF IsPrefix
  <2> HIDE DEF braces, brackets, closed
  <2>3. ~ (braces >= 0 /\ brackets >= 0)
    BY <1>2, <1>5
  <2>4. CloseDelimiters(closed) = closed
    BY <2>1, Zenon DEF closed
  <2>5. closed \in S /\ IsPrefix(content, closed)
    BY <1>4, <2>1, <2>2, Zenon
  <2> QED  BY <1>2, <2>3, <2>4, <2>5, Zenon DEF braces, brackets, closed
<1>6. CASE braces >= 0 /\ brackets >= 0
  <2>0. braces \in Nat /\ brackets \in Nat /\ ~ (braces < 0 \/ brackets < 0)
    BY <1>2, <1>6
  <2>1. closed = (content \o more) \o rest
    BY <1>3, <2>0
  <2> HIDE DEF braces, brackets, closed
  <2>2. /\ more \in Seq({RBrace}) /\ rest \in Seq({RBracket})
        /\ \A c : Count(more, c) = IF RBrace = c THEN braces ELSE 0
        /\ \A c : Count(rest, c) = IF RBracket = c THEN brackets ELSE 0
    <3>1. /\ Copies(RBrace, braces) \in Seq({RBrace})
          /\ \A c : Count(Copies(RBrace, braces), c) = IF RBrace = c THEN braces ELSE 0
      <4> DEFINE nr == braces
      <4>1. nr \in Nat
        BY <2>0
      <4> HIDE DEF nr
      <4>2. Copies(RBrace, nr) \in Seq({RBrace})
        BY ONLY <4>1, CountOfCopies
      <4>3. ASSUME NEW c  PROVE Count(Copies(RBrace, nr), c) = IF RBrace = c THEN nr ELSE 0
        BY ONLY <4>1, CountOfCopies
      <4> QED  BY ONLY <4>2, <4>3, Zenon DEF nr
    <3>2. /\ Copies(RBracket, brackets) \in Seq({RBracket})
          /\ \A c : Count(Copies(RBracket, brackets), c) = IF RBracket = c THEN brackets ELSE 0
      <4> DEFINE nr == brackets
      <4>1. nr \in Nat
        BY <2>0
      <4> HIDE DEF nr
      <4>2. Copies(RBracket, nr) \in Seq({RBracket})
        BY ONLY <4>1, CountOfCopies
      <4>3. ASSUME NEW c  PROVE Count(Copies(RBracket, nr), c) = IF RBracket = c THEN nr ELSE 0
        BY ONLY <4>1, CountOfCopies
      <4> QED  BY ONLY <4>2, <4>3, Zenon DEF nr
    <3> QED  BY ONLY <3>1, <3>2, Zenon DEF more, rest
  <2> HIDE DEF more, rest
  <2>3. more \in S /\ rest \in S
    BY <2>2 DEF Delimiters
  <2> HIDE DEF S
  <2>4. content \o more \in S /\ closed \in S
    BY <1>4, <2>1, <2>3, ConcatPuts DEF S
  <2>5. \A c : Count(closed, c) = Count(content, c) + Count(more, c) + Count(rest, c)
    <3> TAKE c
    <3>1. Count(content \o more, c) = Count(content, c) + Count(more, c)
      BY <1>4, <2>3, CountAdds DEF S
    <3>2. Count((content \o more) \o rest, c) = Count(content \o more, c) + Count(rest, c)
      BY <2>3, <2>4, CountAdds DEF S
    <3> QED  BY <2>1, <3>1, <3>2
  <2>6. Excess(closed, LBrace, RBrace) = 0 /\ Excess(closed, LBracket, RBracket) = 0
    <3>1. /\ Count(closed, LBrace) = Count(content, LBrace) /\ Count(closed, LBracket) = Count(content, LBracket)
          /\ Count(closed, RBrace) = Count(content, RBrace) + braces
          /\ Count(closed, RBracket) = Count(content, RBracket) + brackets
      <4>1. /\ Count(more, LBrace) = 0 /\ Count(more, LBracket) = 0 /\ Count(more, RBracket) = 0
            /\ Count(more, RBrace) = braces
            /\ Count(rest, LBrace) = 0 /\ Count(rest, LBracket) = 0 /\ Count(rest, RBrace) = 0
            /\ Count(rest, RBracket) = brackets
        BY <2>2, DelimitersDiffer
      <4>2. /\ Count(content, LBrace) \in Nat /\ Count(content, RBrace) \in Nat
            /\ Count(content, LBracket) \in Nat /\ Count(content, RBracket) \in Nat
        BY <1>1, <1>4
      <4> QED  BY <2>0, <2>5, <4>1, <4>2
    <3>2. /\ Count(content, LBrace) \in Nat /\ Count(content, RBrace) \in Nat
          /\ Count(content, LBracket) \in Nat /\ Count(content, RBracket) \in Nat
      BY <1>1, <1>4
    <3>3. braces = Count(content, LBrace) - Count(content, RBrace)
          /\ brackets = Count(content, LBracket) - Count(content, RBracket)
      BY DEF braces, brackets, Excess
    <3> QED  BY <3>1, <3>2, <3>3 DEF Excess
  <2>7. CloseDelimiters(closed) = closed
    <3>1. CloseDelimiters(closed) = (closed \o Copies(RBrace, 0)) \o Copies(RBracket, 0)
      <4> DEFINE a == Excess(closed, LBrace, RBrace)
                 b == Excess(closed, LBracket, RBracket)
      <4>1. CloseDelimiters(closed) =
              IF a < 0 \/ b < 0 THEN closed
              ELSE closed \o Copies(RBrace, a) \o Copies(RBracket, b)
        BY <1>3, Zenon
      <4>2. ~ (a < 0 \/ b < 0)
        BY <2>6
      <4>3. CloseDelimiters(closed) = (closed \o Copies(RBrace, a)) \o Copies(RBracket, b)
        BY <4>1, <4>2, Zenon
      <4> QED  BY <2>6, <4>3, Zenon
    <3>2. \A c : Copies(c, 0) = <<>>
      BY DEF Copies
    <3>3. \A s \in Seq(Delimiters) : s \o <<>> = s
      OBVIOUS
    <3> QED  BY <2>4, <3>1, <3>2, <3>3 DEF S
  <2>8. IsPrefix(content, closed)
    <3>1. PutsAfter(content, more, content \o more)
          /\ PutsAfter(content \o more, rest, (content \o more) \o rest)
      BY <1>4, <2>3, <2>4, ConcatPuts DEF S
    <3>2. /\ Len(content) <= Len(closed) /\ Len(closed) \in Nat
          /\ \A j \in 1 .. Len(content) : closed[j] = content[j]
      <4> DEFINE both == content \o more
      <4> HIDE DEF both
      <4>1. /\ Len(more) \in Nat /\ Len(both) = Len(content) + Len(more)
            /\ \A j \in 1 .. Len(content) : both[j] = content[j]
        BY <3>1, Zenon DEF PutsAfter, both
      <4>2. /\ Len(rest) \in Nat /\ Len(closed) = Len(both) + Len(rest)
            /\ \A j \in 1 .. Len(both) : closed[j] = both[j]
        BY <2>1, <3>1, Zenon DEF PutsAfter, both
      <4> QED  BY <1>4, <4>1, <4>2
    <3>3. SubSeq(closed, 1, Len(content)) = content
      <4>1. closed \in Seq(Delimiters) /\ content \in Seq(Delimiters)
        BY <1>4, <2>4 DEF S
      <4>2. SubSeq(closed, 1, Len(content)) = [j \in 1 .. Len(content) |-> closed[j]]
        BY <1>4, <3>2, <4>1
      <4>3. content = [j \in 1 .. Len(content) |-> content[j]]
        BY <4>1
      <4> QED  BY <3>2, <4>2, <4>3
    <3> QED  BY <1>4, <3>2, <3>3 DEF IsPrefix
  <2> QED  BY <1>2, <2>1, <2>4, <2>7, <2>8, Zenon
         DEF closed, braces, brackets, more, rest, S
<1> QED  BY <1>2, <1>5, <1>6

(* However many passes it may take.                                        *)
LEMMA RepairIsOnePass ==
  ASSUME NEW content \in Seq(Delimiters), NEW kind, NEW finish, NEW max_passes \in Nat \ {0}
  PROVE  /\ Repair(content, kind, finish, max_passes).passes <= 1
         /\ Repair(content, kind, finish, max_passes).content =
              IF NonRepairable(kind, finish) THEN content ELSE CloseDelimiters(content)
<1> DEFINE closed == CloseDelimiters(content)
           result == Repair(content, kind, finish, max_passes)
           V == Seq(Delimiters)
           step == [n \in 1 .. max_passes |-> [s \in V |-> CloseDelimiters(s)]]
           Is(pass) == pass = [n \in 0 .. max_passes |->
                         IF n = 0 THEN content ELSE CloseDelimiters(pass[n - 1])]
           pass == CHOOSE pass : Is(pass)
           moved == {n \in 1 .. max_passes : pass[n] # pass[n - 1]}
<1>1. result = IF NonRepairable(kind, finish)
                 THEN [status |-> "non_repairable", content |-> content, passes |-> 0]
                 ELSE [status |-> "repaired", content |-> pass[max_passes],
                       passes |-> Cardinality(moved)]
  BY Zenon DEF Repair
<1>2. closed \in V /\ CloseDelimiters(closed) = closed /\ \A s \in V : CloseDelimiters(s) \in V
  BY ClosedOnce
<1> HIDE DEF V, closed
<1>3. PICK g \in [0 .. max_passes -> V] : Iterates(g, max_passes, content, step)
  <2>1. step \in [1 .. max_passes -> [V -> V]] /\ content \in V
    BY <1>2 DEF V
  <2> HIDE DEF step
  <2> QED  BY <2>1, ChainExists
<1>4. Is(g)
  <2>1. g[0] = content /\ \A n \in 1 .. max_passes : g[n] = CloseDelimiters(g[n - 1])
    BY <1>3 DEF Iterates
  <2>2. \A n \in 0 .. max_passes : g[n] = IF n = 0 THEN content ELSE CloseDelimiters(g[n - 1])
    BY <2>1
  <2> QED  BY <1>3, <2>2
<1>5. Is(pass)
  <2> HIDE DEF Is
  <2> QED  BY <1>4
<1>6. pass[0] = content /\ \A n \in 1 .. max_passes : pass[n] = CloseDelimiters(pass[n - 1])
  <2> HIDE DEF pass
  <2> QED  BY <1>5
<1> HIDE DEF pass, Is
<1>7. \A n \in 1 .. max_passes : pass[n] = closed
  <2> DEFINE Q == {n \in 0 .. max_passes : n # 0 => pass[n] = closed}
  <2>1. 0 \in Q
    OBVIOUS
  <2>2. ASSUME NEW n \in 1 .. max_passes, n - 1 \in Q
        PROVE  n \in Q
    <3>1. pass[n] = CloseDelimiters(pass[n - 1])
      BY <1>6
    <3>2. CASE n = 1
      <4>1. n - 1 = 0
        BY <3>2
      <4> QED  BY <1>6, <3>1, <4>1 DEF closed
    <3>3. CASE n # 1
      BY <1>2, <2>2, <3>1, <3>3
    <3> QED  BY <3>2, <3>3
  <2> HIDE DEF Q
  <2>3. \A n \in 0 .. max_passes : n \in Q
    BY <2>1, <2>2, PrefixInduction
  <2> QED  BY <2>3 DEF Q
<1>8. Cardinality(moved) <= 1
  <2>1. moved \subseteq {1}
    BY <1>7
  <2>2. IsFiniteSet({1}) /\ Cardinality({1}) = 1
    BY FS_Singleton
  <2> HIDE DEF moved
  <2> QED  BY <2>1, <2>2, FS_Subset, FS_CardinalityType
<1>9. pass[max_passes] = closed
  BY <1>7
<1> HIDE DEF moved
<1>10. CASE NonRepairable(kind, finish)
  <2>1. result = [status |-> "non_repairable", content |-> content, passes |-> 0]
    BY <1>1, <1>10, Zenon
  <2> HIDE DEF result
  <2>2. result.content = content /\ result.passes = 0
    BY <2>1
  <2>3. result.passes <= 1
    BY <2>2
  <2> QED  BY <1>10, <2>2, <2>3, Zenon DEF result
<1>11. CASE ~ NonRepairable(kind, finish)
  <2>1. result = [status |-> "repaired", content |-> pass[max_passes],
                  passes |-> Cardinality(moved)]
    BY <1>1, <1>11, Zenon
  <2> HIDE DEF result
  <2>2. result.content = closed /\ result.passes = Cardinality(moved)
    BY <1>9, <2>1
  <2>3. result.passes <= 1
    BY <1>8, <2>2
  <2> QED  BY <1>11, <2>2, <2>3, Zenon DEF result, closed
<1> QED  BY <1>10, <1>11

(* Reading on: what is open after one more character.                      *)
Openings == {LBrace, LBracket}

Closing(opening) == IF opening = LBrace THEN RBrace ELSE RBracket

OpenAfter(open, character) ==
  IF open = Broken THEN Broken
  ELSE IF character \in Openings THEN <<character>> \o open
  ELSE IF open # <<>> /\ character = Closing(Head(open)) THEN Tail(open) ELSE Broken

OpensBy(g, content) ==
  g[0] = <<>> /\ \A i \in 1 .. Len(content) : g[i] = OpenAfter(g[i - 1], content[i])

Opened == Seq(Openings) \union {Broken}

LEMMA StillOpened ==
  ASSUME NEW open \in Opened, NEW character
  PROVE  OpenAfter(open, character) \in Opened
<1>1. CASE open = Broken
  BY <1>1 DEF OpenAfter, Opened
<1>2. CASE open \in Seq(Openings)
  <2>1. character \in Openings => <<character>> \o open \in Seq(Openings)
    BY <1>2
  <2>2. open # <<>> => Tail(open) \in Seq(Openings)
    BY <1>2
  <2> HIDE DEF Openings
  <2> QED  BY <1>2, <2>1, <2>2 DEF OpenAfter, Opened
<1> QED  BY <1>1, <1>2 DEF Opened

LEMMA OpenUnfolds ==
  ASSUME NEW content \in Seq(Delimiters)
  PROVE  \E g : /\ OpensBy(g, content) /\ OpenDelimiters(content) = g[Len(content)]
                /\ \A i \in 0 .. Len(content) : g[i] \in Opened
<1> DEFINE n == Len(content)
           step == [i \in 1 .. n |-> [open \in Opened |-> OpenAfter(open, content[i])]]
           Closes(opening) == IF opening = "{" THEN "}" ELSE "]"
           Cases(open, c) ==
             CASE open = Broken -> Broken
               [] open # Broken /\ c \in {"{", "["} -> <<c>> \o open
               [] OTHER -> IF open # <<>> /\ c = Closes(Head(open)) THEN Tail(open) ELSE Broken
           Is(iter) == iter = [s \in SUBSET (1 .. n) |->
                         IF s = {} THEN <<>> ELSE Cases(iter[s \ {Max(s)}], content[Max(s)])]
           iter == CHOOSE iter : Is(iter)
           g == [i \in 0 .. n |-> iter[1 .. i]]
<1>1. n \in Nat /\ DOMAIN content = 1 .. n
  OBVIOUS
<1>2. OpenDelimiters(content) = iter[1 .. n]
  BY <1>1, Zenon DEF OpenDelimiters, FoldLeft, MapThenFoldSet
<1>a. \A open, c : Cases(open, c) = OpenAfter(open, c)
  <2> TAKE open, c
  <2>1. CASE open = Broken
    BY <2>1, Zenon DEF OpenAfter
  <2>2. CASE open # Broken /\ c \in Openings
    BY <2>2, Zenon DEF OpenAfter, Openings, LBrace, LBracket
  <2>3. CASE open # Broken /\ c \notin Openings
    BY <2>3, Zenon DEF OpenAfter, Openings, LBrace, LBracket, RBrace, RBracket, Closing
  <2> QED  BY <2>1, <2>2, <2>3, Zenon
<1>3. <<>> \in Opened
  BY DEF Opened
<1> HIDE DEF n, Cases
<1>4. PICK F \in [SUBSET (1 .. n) -> Opened] : FoldsBy(F, n, <<>>, step)
  <2>1. step \in [1 .. n -> [Opened -> Opened]]
    BY StillOpened
  <2> HIDE DEF step
  <2> QED  BY <1>1, <1>3, <2>1, FoldExists DEF Foldable
<1>5. Is(iter)
  <2>1. \A s \in SUBSET (1 .. n) : s # {} => Max(s) \in 1 .. n /\ s \ {Max(s)} \in SUBSET (1 .. n)
    BY <1>1, GreatestPlace
  <2>2. \A s \in SUBSET (1 .. n) :
          F[s] = IF s = {} THEN <<>> ELSE OpenAfter(F[s \ {Max(s)}], content[Max(s)])
    BY <1>4, <2>1 DEF FoldsBy
  <2>3. \A s \in SUBSET (1 .. n) :
          F[s] = IF s = {} THEN <<>> ELSE Cases(F[s \ {Max(s)}], content[Max(s)])
    BY <1>a, <2>2
  <2>4. Is(F)
    BY <2>3
  <2> HIDE DEF Is
  <2> QED  BY <2>4
<1>6. \A s \in SUBSET (1 .. n) :
        iter[s] = IF s = {} THEN <<>> ELSE OpenAfter(iter[s \ {Max(s)}], content[Max(s)])
  <2> HIDE DEF iter
  <2> QED  BY <1>5, <1>a
<1> HIDE DEF iter
<1>7. g[0] = <<>> /\ \A i \in 1 .. n : g[i] = OpenAfter(g[i - 1], content[i])
  <2>1. PassedPlaces(n)
    BY <1>1, PlacesPassed
  <2>2. iter[{}] = <<>>
    BY <1>6
  <2>3. \A i \in 1 .. n : iter[1 .. i] = OpenAfter(iter[1 .. (i - 1)], content[i])
    BY <1>6, <2>1 DEF PassedPlaces
  <2>4. \A i \in 1 .. n : g[i] = iter[1 .. i] /\ g[i - 1] = iter[1 .. (i - 1)]
    BY <1>1
  <2>5. g[0] = iter[{}]
    BY <1>1, <2>1 DEF PassedPlaces
  <2> QED  BY <2>2, <2>3, <2>4, <2>5
<1>8. g[n] = iter[1 .. n]
  BY <1>1
<1> HIDE DEF g
<1>9. OpensBy(g, content)
  BY <1>7 DEF OpensBy, n
<1>10. \A i \in 0 .. n : g[i] \in Opened
  <2> DEFINE Q == {i \in 0 .. n : g[i] \in Opened}
  <2>1. 0 \in Q /\ \A i \in 1 .. n : i - 1 \in Q => i \in Q
    BY <1>1, <1>3, <1>7, StillOpened
  <2> HIDE DEF Q
  <2>2. \A i \in 0 .. n : i \in Q
    BY <1>1, <2>1, PrefixInduction
  <2> QED  BY <2>2 DEF Q
<1> QED  BY <1>2, <1>8, <1>9, <1>10 DEF n

(* What is open counts what has not been closed.                           *)
Balanced(open, prefix) ==
  /\ Count(open, LBrace) = Excess(prefix, LBrace, RBrace)
  /\ Count(open, LBracket) = Excess(prefix, LBracket, RBracket)

LEMMA OpenOrBroken ==
  /\ Broken \notin Seq(Openings)
  /\ Openings \subseteq Delimiters
  /\ RBrace \notin Openings /\ RBracket \notin Openings
<1>1. Broken[1] = "broken" /\ Len(Broken) = 1 /\ 1 \in 1 .. 1
  BY DEF Broken
<1>2. "broken" \notin Openings
  BY DelimitersDiffer, Zenon DEF Openings
<1>3. \A s \in Seq(Openings) : Len(s) = 1 => s[1] \in Openings
  OBVIOUS
<1>4. Broken \notin Seq(Openings)
  BY <1>1, <1>2, <1>3, Zenon
<1>5. Openings \subseteq Delimiters
  BY Zenon DEF Openings, Delimiters
<1>6. RBrace \notin Openings /\ RBracket \notin Openings
  BY DelimitersDiffer, Zenon DEF Openings
<1> QED  BY <1>4, <1>5, <1>6

LEMMA OpenCounts ==
  ASSUME NEW open \in Seq(Openings), NEW c \in Delimiters, OpenAfter(open, c) # Broken
  PROVE  /\ OpenAfter(open, c) \in Seq(Openings)
         /\ Count(OpenAfter(open, c), LBrace) = Count(open, LBrace) + Excess(<<c>>, LBrace, RBrace)
         /\ Count(OpenAfter(open, c), LBracket) = Count(open, LBracket) + Excess(<<c>>, LBracket, RBracket)
<1> DEFINE next == OpenAfter(open, c)
<1>1. open # Broken /\ c \in {LBrace, RBrace, LBracket, RBracket}
  BY OpenOrBroken DEF Delimiters
<1>2. next = IF c \in Openings THEN <<c>> \o open
             ELSE IF open # <<>> /\ c = Closing(Head(open)) THEN Tail(open) ELSE Broken
  BY <1>1 DEF OpenAfter
<1>3. \A x : /\ Count(open, x) \in Nat
             /\ \A d \in Delimiters : Count(<<d>>, x) = IF d = x THEN 1 ELSE 0
  BY CountIsFinite, CountOfOne
<1>4. CASE c \in Openings
  <2>1. next = <<c>> \o open
    BY <1>2, <1>4
  <2> HIDE DEF next
  <2>2. <<c>> \in Seq(Openings) /\ next \in Seq(Openings)
    BY <1>4, <2>1
  <2>3. \A x : Count(next, x) = Count(<<c>>, x) + Count(open, x)
    BY <2>1, <2>2, CountAdds
  <2>4. c = LBrace \/ c = LBracket
    BY <1>4 DEF Openings
  <2>5. /\ Count(next, LBrace) = Count(open, LBrace) + Excess(<<c>>, LBrace, RBrace)
        /\ Count(next, LBracket) = Count(open, LBracket) + Excess(<<c>>, LBracket, RBracket)
    <3>1. /\ Count(<<c>>, LBrace) = IF c = LBrace THEN 1 ELSE 0
          /\ Count(<<c>>, RBrace) = IF c = RBrace THEN 1 ELSE 0
          /\ Count(<<c>>, LBracket) = IF c = LBracket THEN 1 ELSE 0
          /\ Count(<<c>>, RBracket) = IF c = RBracket THEN 1 ELSE 0
      BY <1>3
    <3>2. Count(open, LBrace) \in Nat /\ Count(open, LBracket) \in Nat
      BY <1>3
    <3>3. Count(<<c>>, RBrace) = 0 /\ Count(<<c>>, RBracket) = 0
      BY <2>4, <3>1, DelimitersDiffer
    <3>4. Count(<<c>>, LBrace) \in Nat /\ Count(<<c>>, LBracket) \in Nat
      BY <3>1
    <3> QED  BY <2>3, <3>2, <3>3, <3>4 DEF Excess
  <2> QED  BY <2>2, <2>5 DEF next
<1>5. CASE c \notin Openings
  <2>1. open # <<>> /\ c = Closing(Head(open)) /\ next = Tail(open)
    BY <1>2, <1>5
  <2> HIDE DEF next
  <2> DEFINE h == Head(open)
  <2>2. /\ h \in Openings /\ next \in Seq(Openings) /\ <<h>> \in Seq(Openings)
        /\ open = <<h>> \o next
    BY <2>1
  <2>3. c = Closing(h)
    BY <2>1
  <2> HIDE DEF h
  <2>4. \A x : Count(open, x) = Count(<<h>>, x) + Count(next, x)
    <3> TAKE x
    <3> QED  BY <2>2, CountAdds
  <2>5. \A x : Count(next, x) \in Nat
    BY <2>2, CountIsFinite
  <2>6. (h = LBrace /\ c = RBrace) \/ (h = LBracket /\ c = RBracket)
    BY <2>2, <2>3 DEF Closing, Openings
  <2>7. /\ \A x : Count(<<c>>, x) = IF c = x THEN 1 ELSE 0
        /\ \A x : Count(<<h>>, x) = IF h = x THEN 1 ELSE 0
    BY <1>3, <2>2, OpenOrBroken
  <2>8. /\ Count(next, LBrace) = Count(open, LBrace) + Excess(<<c>>, LBrace, RBrace)
        /\ Count(next, LBracket) = Count(open, LBracket) + Excess(<<c>>, LBracket, RBracket)
    <3>1. /\ Count(<<h>>, LBrace) = IF h = LBrace THEN 1 ELSE 0
          /\ Count(<<h>>, LBracket) = IF h = LBracket THEN 1 ELSE 0
          /\ Count(<<c>>, LBrace) = 0 /\ Count(<<c>>, LBracket) = 0
          /\ Count(<<c>>, RBrace) = IF c = RBrace THEN 1 ELSE 0
          /\ Count(<<c>>, RBracket) = IF c = RBracket THEN 1 ELSE 0
      BY <2>6, <2>7, DelimitersDiffer
    <3>2. Count(next, LBrace) \in Nat /\ Count(next, LBracket) \in Nat
      BY <2>5
    <3>3. /\ Count(open, LBrace) = Count(<<h>>, LBrace) + Count(next, LBrace)
          /\ Count(open, LBracket) = Count(<<h>>, LBracket) + Count(next, LBracket)
      BY <2>4
    <3>4. Count(<<h>>, LBrace) = Count(<<c>>, RBrace) /\ Count(<<h>>, LBracket) = Count(<<c>>, RBracket)
          /\ Count(<<h>>, LBrace) \in Nat /\ Count(<<h>>, LBracket) \in Nat
      BY <2>6, <3>1, DelimitersDiffer
    <3> QED  BY <3>1, <3>2, <3>3, <3>4 DEF Excess
  <2> QED  BY <2>2, <2>8 DEF next
<1> QED  BY <1>4, <1>5

LEMMA OpenBalances ==
  ASSUME NEW content \in Seq(Delimiters), NEW g, OpensBy(g, content),
         \A i \in 0 .. Len(content) : g[i] \in Opened,
         g[Len(content)] # Broken
  PROVE  g[Len(content)] \in Seq(Openings) /\ Balanced(g[Len(content)], content)
<1> DEFINE n == Len(content)
           prefix(i) == SubSeq(content, 1, i)
           Q == {i \in 0 .. n : g[i] # Broken => /\ g[i] \in Seq(Openings)
                                                 /\ Balanced(g[i], prefix(i))}
<1>1. n \in Nat /\ prefix(0) = <<>> /\ prefix(n) = content
  OBVIOUS
<1>2. g[0] = <<>> /\ \A i \in 1 .. n : g[i] = OpenAfter(g[i - 1], content[i])
  BY DEF OpensBy
<1>3. 0 \in Q
  <2>1. <<>> \in Seq(Openings)
    OBVIOUS
  <2>2. \A c : Count(<<>>, c) = 0
    <3> TAKE c
    <3>1. Where(<<>>, c) = {} /\ <<>> \in Seq({})
      BY DEF Where
    <3> QED  BY <3>1, CountIsFinite, FS_EmptySet
  <2>3. Balanced(<<>>, <<>>)
    BY <2>2 DEF Balanced, Excess
  <2>4. g[0] \in Seq(Openings) /\ Balanced(g[0], prefix(0))
    BY <1>1, <1>2, <2>1, <2>3, Zenon
  <2>5. 0 \in 0 .. n
    BY <1>1
  <2> HIDE DEF prefix
  <2> QED  BY <2>4, <2>5, Zenon
<1>4. ASSUME NEW i \in 1 .. n, i - 1 \in Q
      PROVE  i \in Q
  <2> SUFFICES ASSUME g[i] # Broken
               PROVE  g[i] \in Seq(Openings) /\ Balanced(g[i], prefix(i))
    BY <1>1
  <2> DEFINE c == content[i]
             open == g[i - 1]
  <2>1. c \in Delimiters /\ g[i] = OpenAfter(open, c)
    BY <1>1, <1>2
  <2>2. open # Broken
    BY <2>1 DEF OpenAfter
  <2>3. open \in Seq(Openings) /\ Balanced(open, prefix(i - 1))
    BY <1>4, <2>2
  <2>4. /\ prefix(i - 1) \in Seq(Delimiters) /\ <<c>> \in Seq(Delimiters)
        /\ prefix(i) = prefix(i - 1) \o <<c>>
    BY <1>1, PrefixAppends
  <2> HIDE DEF prefix, n, c, open
  <2>5. /\ g[i] \in Seq(Openings)
        /\ Count(g[i], LBrace) = Count(open, LBrace) + Excess(<<c>>, LBrace, RBrace)
        /\ Count(g[i], LBracket) = Count(open, LBracket) + Excess(<<c>>, LBracket, RBracket)
    BY <2>1, <2>3, OpenCounts
  <2>6. \A x : /\ Count(prefix(i), x) = Count(prefix(i - 1), x) + Count(<<c>>, x)
               /\ Count(prefix(i - 1), x) \in Nat /\ Count(<<c>>, x) \in Nat
    <3> TAKE x
    <3>1. Count(prefix(i - 1), x) \in Nat /\ Count(<<c>>, x) \in Nat
      BY <2>4, CountIsFinite
    <3>2. Count(prefix(i - 1) \o <<c>>, x) = Count(prefix(i - 1), x) + Count(<<c>>, x)
      BY <2>4, CountAdds
    <3> QED  BY <2>4, <3>1, <3>2, Zenon
  <2>7. /\ Excess(prefix(i), LBrace, RBrace) = Excess(prefix(i - 1), LBrace, RBrace) + Excess(<<c>>, LBrace, RBrace)
        /\ Excess(prefix(i), LBracket, RBracket) = Excess(prefix(i - 1), LBracket, RBracket) + Excess(<<c>>, LBracket, RBracket)
    BY <2>6 DEF Excess
  <2> QED  BY <2>3, <2>5, <2>7 DEF Balanced
<1> HIDE DEF Q
<1>5. \A i \in 0 .. n : i \in Q
  BY <1>1, <1>3, <1>4, PrefixInduction
<1>6. n \in Q
  BY <1>1, <1>5
<1> HIDE DEF prefix
<1>7. g[n] \in Seq(Openings) /\ Balanced(g[n], prefix(n))
  BY <1>6, Zenon DEF Q
<1> QED  BY <1>1, <1>7, Zenon

(* Closing what is open, one kind of delimiter at a time.                  *)
LEMMA CopiesShrink ==
  ASSUME NEW x \in Openings, NEW m \in Nat \ {0}
  PROVE  OpenAfter(Copies(x, m), Closing(x)) = Copies(x, m - 1)
<1> DEFINE all == Copies(x, m)
<1>1. m - 1 \in Nat
  OBVIOUS
<1>2. all \in Seq({x}) /\ Len(all) = m /\ all = [i \in 1 .. m |-> x]
  BY CountOfCopies DEF Copies
<1>3. all \in Seq(Openings) /\ all # <<>> /\ Head(all) = x /\ Tail(all) = [i \in 1 .. m - 1 |-> x]
  <2>1. all \in Seq(Openings) /\ all # <<>>
    BY <1>2
  <2>2. all[1] = x
    BY <1>2
  <2>3. Head(all) = x
    BY <2>1, <2>2
  <2>4. Tail(all) = [i \in 1 .. m - 1 |-> all[i + 1]]
    BY <1>2
  <2>5. \A i \in 1 .. m - 1 : all[i + 1] = x
    BY <1>2
  <2> HIDE DEF all
  <2> QED  BY <2>1, <2>3, <2>4, <2>5
<1>4. all # Broken /\ Closing(x) \notin Openings
  BY <1>3, OpenOrBroken DEF Closing
<1>5. OpenAfter(all, Closing(x)) = Tail(all)
  <2> HIDE DEF all
  <2> QED  BY <1>3, <1>4 DEF OpenAfter
<1> HIDE DEF all
<1> QED  BY <1>3, <1>5 DEF Copies, all

LEMMA ClosesUp ==
  ASSUME NEW content \in Seq(Delimiters), NEW x \in Openings, NEW L \in Nat,
         OpenDelimiters(content) = Copies(x, L)
  PROVE  OpenDelimiters(content \o Copies(Closing(x), L)) = <<>>
<1> DEFINE more == Copies(Closing(x), L)
           all == content \o more
           n == Len(content)
<1>1. /\ more \in Seq(Delimiters) /\ Len(more) = L /\ \A j \in 1 .. L : more[j] = Closing(x)
  <2>1. Closing(x) \in Delimiters
    BY DEF Closing, Delimiters
  <2>2. more \in Seq({Closing(x)}) /\ Len(more) = L
    BY CountOfCopies
  <2>3. \A j \in 1 .. L : more[j] = Closing(x)
    BY DEF Copies
  <2> HIDE DEF more
  <2> QED  BY <2>1, <2>2, <2>3
<1> HIDE DEF more
<1>2. PutsAfter(content, more, all) /\ all \in Seq(Delimiters)
  BY <1>1, ConcatPuts
<1> HIDE DEF all
<1>3. /\ n \in Nat /\ Len(all) = n + L
      /\ \A i \in 1 .. n : all[i] = content[i]
      /\ \A j \in 1 .. L : all[n + j] = Closing(x)
  BY <1>1, <1>2 DEF PutsAfter
<1>4. PICK g : OpensBy(g, content) /\ OpenDelimiters(content) = g[n]
  BY OpenUnfolds
<1>5. PICK h : OpensBy(h, all) /\ OpenDelimiters(all) = h[Len(all)]
  BY <1>2, OpenUnfolds
<1>6. /\ g[0] = <<>> /\ \A i \in 1 .. n : g[i] = OpenAfter(g[i - 1], content[i])
      /\ h[0] = <<>> /\ \A i \in 1 .. n + L : h[i] = OpenAfter(h[i - 1], all[i])
  BY <1>3, <1>4, <1>5, Zenon DEF OpensBy
<1> HIDE DEF n
<1>7. h[n] = Copies(x, L)
  <2> DEFINE Q == {i \in 0 .. n : h[i] = g[i]}
  <2>1. 0 \in Q
    BY <1>3, <1>6
  <2>2. \A i \in 1 .. n : i - 1 \in Q => i \in Q
    BY <1>3, <1>6
  <2> HIDE DEF Q
  <2>3. \A i \in 0 .. n : i \in Q
    BY <1>3, <2>1, <2>2, PrefixInduction
  <2>4. n \in Q
    BY <1>3, <2>3
  <2> QED  BY <1>4, <2>4 DEF Q
<1>8. h[n + L] = Copies(x, 0)
  <2> DEFINE Q == {j \in 0 .. L : h[n + j] = Copies(x, L - j)}
  <2>1. 0 \in Q
    BY <1>3, <1>7
  <2>2. ASSUME NEW j \in 1 .. L, j - 1 \in Q
        PROVE  j \in Q
    <3>1. h[n + (j - 1)] = Copies(x, L - (j - 1))
      BY <2>2
    <3>2. h[n + j] = OpenAfter(h[(n + j) - 1], all[n + j])
      BY <1>3, <1>6
    <3>3. (n + j) - 1 = n + (j - 1) /\ all[n + j] = Closing(x)
      BY <1>3
    <3>4. OpenAfter(Copies(x, L - (j - 1)), Closing(x)) = Copies(x, (L - (j - 1)) - 1)
      <4>1. L - (j - 1) \in Nat \ {0}
        OBVIOUS
      <4> QED  BY <4>1, CopiesShrink
    <3>5. (L - (j - 1)) - 1 = L - j
      OBVIOUS
    <3> QED  BY <3>1, <3>2, <3>3, <3>4, <3>5
  <2> HIDE DEF Q
  <2>3. \A j \in 0 .. L : j \in Q
    BY <2>1, <2>2, PrefixInduction
  <2>4. L \in Q /\ L - L = 0
    BY <2>3
  <2> QED  BY <2>4 DEF Q
<1>9. Copies(x, 0) = <<>>
  BY DEF Copies
<1> QED  BY <1>3, <1>5, <1>8, <1>9 DEF all, more

(* Repair never takes a character away, leaves output alone that is well   *)
(* formed, is done after one pass however many it may take (repair.py      *)
(* refuses a limit below one), and gives output cut off inside one kind of *)
(* delimiter its closing ones: for output of any length that quotes no     *)
(* delimiter.                                                              *)
THEOREM RepairAlwaysBounded ==
  ASSUME NEW content \in Seq(Delimiters), NEW kind, NEW finish_reason,
         NEW max_passes \in Nat \ {0}
  PROVE  RepairIsBounded(content, kind, finish_reason, max_passes)
<1> DEFINE result == Repair(content, kind, finish_reason, max_passes)
           closed == CloseDelimiters(content)
           open == OpenDelimiters(content)
           braces == Excess(content, LBrace, RBrace)
           brackets == Excess(content, LBracket, RBracket)
           never == NonRepairable(kind, finish_reason)
<1>1. /\ result.passes <= 1
      /\ result.content = IF never THEN content ELSE closed
  BY RepairIsOnePass
<1>2. /\ IsPrefix(content, closed)
      /\ braces >= 0 /\ brackets >= 0 =>
           closed = content \o Copies(RBrace, braces) \o Copies(RBracket, brackets)
  BY ClosedOnce
<1>3. \A c : Copies(c, 0) = <<>>
  BY DEF Copies
<1>4. \A s \in Seq(Delimiters) : s \o <<>> = s
  OBVIOUS
<1>5. open # Broken => /\ open \in Seq(Openings)
                       /\ Count(open, LBrace) = braces /\ Count(open, LBracket) = brackets
  <2> SUFFICES ASSUME open # Broken
               PROVE  open \in Seq(Openings) /\ Balanced(open, content)
    BY DEF Balanced
  <2>1. PICK g : /\ OpensBy(g, content) /\ open = g[Len(content)]
                 /\ \A i \in 0 .. Len(content) : g[i] \in Opened
    BY OpenUnfolds
  <2>2. g[Len(content)] # Broken
    BY <2>1
  <2> HIDE DEF open
  <2> QED  BY <2>1, <2>2, OpenBalances
<1>6. IsPrefix(content, content)
  <2>1. SubSeq(content, 1, Len(content)) = content
    OBVIOUS
  <2> QED  BY <2>1 DEF IsPrefix
<1>7. IsPrefix(content, result.content)
  BY <1>1, <1>2, <1>6, Zenon
<1>8. open = <<>> => closed = content
  <2> SUFFICES ASSUME open = <<>>
               PROVE  closed = content
    OBVIOUS
  <2>1. open # Broken
    BY DEF Broken
  <2>2. \A c : Count(<<>>, c) = 0
    <3> TAKE c
    <3>1. Where(<<>>, c) = {} /\ <<>> \in Seq({})
      BY DEF Where
    <3> QED  BY <3>1, CountIsFinite, FS_EmptySet
  <2>3. braces = 0 /\ brackets = 0
    BY <1>5, <2>1, <2>2
  <2> HIDE DEF braces, brackets, closed
  <2>4. closed = content \o Copies(RBrace, 0) \o Copies(RBracket, 0)
    BY <1>2, <2>3
  <2> QED  BY <1>3, <1>4, <2>4
<1>9. ASSUME open # Broken, Cardinality(ToSet(open)) = 1
      PROVE  OpenDelimiters(closed) = <<>>
  <2>1. open \in Seq(Openings) /\ Count(open, LBrace) = braces /\ Count(open, LBracket) = brackets
    BY <1>5, <1>9
  <2>2. PICK x : ToSet(open) = {x}
    <3>1. IsFiniteSet(ToSet(open))
      <4>1. IsFiniteSet(Openings)
        <5>1. IsFiniteSet({LBrace})
          BY FS_Singleton
        <5>2. IsFiniteSet({LBrace} \union {LBracket})
          BY <5>1, FS_AddElement
        <5>3. Openings = {LBrace} \union {LBracket}
          BY DEF Openings
        <5> QED  BY <5>2, <5>3
      <4>2. ToSet(open) \subseteq Openings
        BY <2>1 DEF ToSet
      <4> QED  BY <4>1, <4>2, FS_Subset
    <3> DEFINE those == ToSet(open)
    <3> HIDE DEF those
    <3>2. \E x : those = {x}
      BY <1>9, <3>1, FS_Singleton DEF those
    <3> QED  BY <3>2 DEF those
  <2> DEFINE L == Len(open)
  <2>3. /\ L \in Nat /\ x \in Openings /\ open = Copies(x, L)
    <3>1. L \in Nat /\ DOMAIN open = 1 .. L /\ open = [i \in 1 .. L |-> open[i]]
      BY <2>1
    <3>2. \A i \in 1 .. L : open[i] = x
      BY <2>2, <3>1 DEF ToSet
    <3>3. x \in Openings
      BY <2>1, <2>2 DEF ToSet
    <3> HIDE DEF open, L
    <3> QED  BY <3>1, <3>2, <3>3 DEF Copies
  <2> HIDE DEF L, open
  <2>4. \A c : Count(open, c) = IF x = c THEN L ELSE 0
    <3> TAKE c
    <3>1. L \in Nat
      BY <2>3
    <3> DEFINE all == Copies(x, L)
    <3>2. /\ all \in Seq({x}) /\ Len(all) = L /\ DOMAIN all = 1 .. L
          /\ \A i \in 1 .. L : all[i] = x
      BY <3>1, CountOfCopies DEF Copies
    <3> HIDE DEF all
    <3>3. Where(all, c) = IF x = c THEN 1 .. L ELSE {}
      BY <3>2 DEF Where
    <3>4. Count(all, c) = Cardinality(Where(all, c)) /\ Cardinality(1 .. L) = L /\ Cardinality({}) = 0
      <4>1. Cardinality(1 .. L) = L
        BY <3>1, FS_Interval
      <4>2. Cardinality({}) = 0
        BY FS_EmptySet
      <4>3. Count(all, c) = Cardinality(Where(all, c))
        BY Zenon DEF Count, Where
      <4> QED  BY <4>1, <4>2, <4>3
    <3> QED  BY <2>3, <3>3, <3>4 DEF all
  <2>5. closed = content \o Copies(Closing(x), L)
    <3>1. braces = (IF x = LBrace THEN L ELSE 0) /\ brackets = IF x = LBracket THEN L ELSE 0
      BY <2>1, <2>4
    <3> HIDE DEF braces, brackets, closed
    <3>2. closed = content \o Copies(RBrace, braces) \o Copies(RBracket, brackets)
      BY <1>2, <2>3, <3>1
    <3>3. Copies(Closing(x), L) \in Seq(Delimiters)
      <4>1. Closing(x) \in Delimiters
        BY DEF Closing, Delimiters
      <4>2. Copies(Closing(x), L) \in Seq({Closing(x)})
        BY <2>3, CountOfCopies
      <4> HIDE DEF Delimiters
      <4> QED  BY <4>1, <4>2
    <3>4. CASE x = LBrace
      <4>1. braces = L /\ brackets = 0 /\ Closing(x) = RBrace
        BY <3>1, <3>4, DelimitersDiffer DEF Closing
      <4>2. closed = (content \o Copies(RBrace, L)) \o <<>>
        BY <1>3, <3>2, <4>1
      <4>3. content \o Copies(Closing(x), L) \in Seq(Delimiters)
        BY <3>3, ConcatPuts
      <4> QED  BY <1>4, <4>1, <4>2, <4>3
    <3>5. CASE x = LBracket
      <4>1. braces = 0 /\ brackets = L /\ Closing(x) = RBracket
        BY <3>1, <3>5, DelimitersDiffer DEF Closing
      <4>2. closed = (content \o <<>>) \o Copies(RBracket, L)
        BY <1>3, <3>2, <4>1
      <4> QED  BY <1>4, <4>1, <4>2
    <3> QED  BY <2>3, <3>4, <3>5 DEF Openings
  <2>6. OpenDelimiters(content \o Copies(Closing(x), L)) = <<>>
    BY <2>3, ClosesUp DEF open
  <2> QED  BY <2>5, <2>6
<1> HIDE DEF result, closed, open, never
<1>10. /\ never \/ open = <<>> => result.content = content
       /\ ~ never /\ open # Broken /\ Cardinality(ToSet(open)) = 1
            => OpenDelimiters(result.content) = <<>>
  BY <1>1, <1>8, <1>9, Zenon
<1> QED  BY <1>1, <1>7, <1>10, Zenon DEF RepairIsBounded, result, open, never

-----------------------------------------------------------------------------
(* Projections.  A summary grows event by event.                           *)
(* names: what events may be called.                                       *)
Events(names, values) == [name : names, value : values, version : Nat, at : Nat]

Moments == {{}} \union {{at} : at \in Nat}

Summaries(values) ==
  [phase : values, disposition : values, wait_reason : values, attempt : values,
   revision : Nat, event_count : Nat, first : Moments, last : Moments]

GrowsBy(g, events) ==
  g[0] = NoSummary /\ \A i \in 1 .. Len(events) : g[i] = Apply(g[i - 1], events[i])

LEMMA SummaryStays ==
  ASSUME NEW names, NEW values, Untold \in values
  PROVE  /\ NoSummary \in Summaries(values)
         /\ \A summary \in Summaries(values), event \in Events(names, values) :
              Apply(summary, event) \in Summaries(values)
<1>1. NoSummary \in Summaries(values)
  BY DEF NoSummary, Summaries, Moments
<1>2. ASSUME NEW summary \in Summaries(values), NEW event \in Events(names, values)
      PROVE  Apply(summary, event) \in Summaries(values)
  <2>1. \A name : \A old \in values : Told(event, name, old) \in values
    BY DEF Told, Events
  <2>2. event.version \in Nat /\ event.at \in Nat
    BY DEF Events
  <2>3. /\ summary.phase \in values /\ summary.disposition \in values
        /\ summary.wait_reason \in values /\ summary.attempt \in values
        /\ summary.event_count + 1 \in Nat /\ summary.first \in Moments
    BY DEF Summaries
  <2>4. {event.at} \in Moments
    BY <2>2 DEF Moments
  <2> DEFINE first == IF summary.first = {} THEN {event.at} ELSE summary.first
  <2>5. first \in Moments
    BY <2>3, <2>4
  <2> HIDE DEF first
  <2>6. /\ Told(event, "phase_changed", summary.phase) \in values
        /\ Told(event, "terminal_committed", summary.disposition) \in values
        /\ Told(event, "wait_registered", summary.wait_reason) \in values
        /\ Told(event, "retry_scheduled", summary.attempt) \in values
    BY <2>1, <2>3
  <2>7. Apply(summary, event) =
          [phase       |-> Told(event, "phase_changed", summary.phase),
           disposition |-> Told(event, "terminal_committed", summary.disposition),
           wait_reason |-> Told(event, "wait_registered", summary.wait_reason),
           attempt     |-> Told(event, "retry_scheduled", summary.attempt),
           revision    |-> event.version,
           event_count |-> summary.event_count + 1,
           first       |-> first,
           last        |-> {event.at}]
    BY Zenon DEF Apply, first
  <2> QED  BY <2>2, <2>3, <2>4, <2>5, <2>6, <2>7 DEF Summaries
<1> QED  BY <1>1, <1>2

LEMMA SummaryUnfolds ==
  ASSUME NEW names, NEW values, Untold \in values, NEW events \in Seq(Events(names, values))
  PROVE  \E g : /\ GrowsBy(g, events) /\ Summary(events) = g[Len(events)]
                /\ \A i \in 0 .. Len(events) : g[i] \in Summaries(values)
<1> DEFINE n == Len(events)
           V == Summaries(values)
           step == [i \in 1 .. n |-> [summary \in V |-> Apply(summary, events[i])]]
           Is(iter) == iter = [s \in SUBSET (1 .. n) |->
                         IF s = {} THEN NoSummary ELSE Apply(iter[s \ {Max(s)}], events[Max(s)])]
           iter == CHOOSE iter : Is(iter)
           g == [i \in 0 .. n |-> iter[1 .. i]]
<1>1. n \in Nat /\ DOMAIN events = 1 .. n /\ \A i \in 1 .. n : events[i] \in Events(names, values)
  OBVIOUS
<1>2. Summary(events) = iter[1 .. n]
  BY <1>1, Zenon DEF Summary, FoldLeft, MapThenFoldSet
<1>3. NoSummary \in V /\ \A summary \in V, i \in 1 .. n : Apply(summary, events[i]) \in V
  BY <1>1, SummaryStays
<1> HIDE DEF n, V
<1>4. PICK F \in [SUBSET (1 .. n) -> V] : FoldsBy(F, n, NoSummary, step)
  <2>1. step \in [1 .. n -> [V -> V]]
    BY <1>3
  <2> HIDE DEF step
  <2> QED  BY <1>1, <1>3, <2>1, FoldExists DEF Foldable
<1>5. Is(iter)
  <2>1. \A s \in SUBSET (1 .. n) : s # {} => Max(s) \in 1 .. n /\ s \ {Max(s)} \in SUBSET (1 .. n)
    BY <1>1, GreatestPlace
  <2>2. \A s \in SUBSET (1 .. n) :
          F[s] = IF s = {} THEN NoSummary ELSE Apply(F[s \ {Max(s)}], events[Max(s)])
    BY <1>4, <2>1 DEF FoldsBy
  <2>3. Is(F)
    BY <2>2
  <2> HIDE DEF Is
  <2> QED  BY <2>3
<1>6. \A s \in SUBSET (1 .. n) :
        iter[s] = IF s = {} THEN NoSummary ELSE Apply(iter[s \ {Max(s)}], events[Max(s)])
  <2> HIDE DEF iter
  <2> QED  BY <1>5
<1> HIDE DEF iter
<1>7. g[0] = NoSummary /\ \A i \in 1 .. n : g[i] = Apply(g[i - 1], events[i])
  <2>1. PassedPlaces(n)
    BY <1>1, PlacesPassed
  <2>2. iter[{}] = NoSummary
    BY <1>6
  <2>3. \A i \in 1 .. n : iter[1 .. i] = Apply(iter[1 .. (i - 1)], events[i])
    BY <1>6, <2>1 DEF PassedPlaces
  <2>4. \A i \in 1 .. n : g[i] = iter[1 .. i] /\ g[i - 1] = iter[1 .. (i - 1)]
    BY <1>1
  <2>5. g[0] = iter[{}]
    BY <1>1, <2>1 DEF PassedPlaces
  <2> QED  BY <2>2, <2>3, <2>4, <2>5
<1>8. g[n] = iter[1 .. n]
  BY <1>1
<1> HIDE DEF g
<1>9. GrowsBy(g, events)
  BY <1>7 DEF GrowsBy, n
<1>10. \A i \in 0 .. n : g[i] \in V
  <2> DEFINE Q == {i \in 0 .. n : g[i] \in V}
  <2>1. 0 \in Q /\ \A i \in 1 .. n : i - 1 \in Q => i \in Q
    BY <1>1, <1>3, <1>7
  <2> HIDE DEF Q
  <2>2. \A i \in 0 .. n : i \in Q
    BY <1>1, <2>1, PrefixInduction
  <2> QED  BY <2>2 DEF Q
<1> QED  BY <1>2, <1>8, <1>9, <1>10 DEF n, V

(* What a field says after the first n events.                             *)
Tells(event, name) == event.name = name /\ event.value # Untold

SaysLast(field, name, events, n) ==
  \/ field = Untold /\ \A i \in 1 .. n : ~ Tells(events[i], name)
  \/ \E k \in 1 .. n : /\ Tells(events[k], name) /\ field = events[k].value
                       /\ \A i \in (k + 1) .. n : ~ Tells(events[i], name)

LEMMA StillSays ==
  ASSUME NEW events, NEW n \in Nat \ {0}, NEW field, NEW name,
         SaysLast(field, name, events, n - 1)
  PROVE  SaysLast(Told(events[n], name, field), name, events, n)
<1>1. CASE Tells(events[n], name)
  <2>1. Told(events[n], name, field) = events[n].value
    BY <1>1 DEF Told, Tells
  <2>2. n \in 1 .. n /\ (n + 1) .. n = {}
    OBVIOUS
  <2> QED  BY <1>1, <2>1, <2>2 DEF SaysLast
<1>2. CASE ~ Tells(events[n], name)
  <2>1. Told(events[n], name, field) = field
    BY <1>2 DEF Told, Tells
  <2>2. CASE field = Untold /\ \A i \in 1 .. (n - 1) : ~ Tells(events[i], name)
    <3>1. \A i \in 1 .. n : i = n \/ i \in 1 .. (n - 1)
      OBVIOUS
    <3> QED  BY <1>2, <2>1, <2>2, <3>1 DEF SaysLast
  <2>3. ASSUME NEW k \in 1 .. (n - 1), Tells(events[k], name), field = events[k].value,
               \A i \in (k + 1) .. (n - 1) : ~ Tells(events[i], name)
        PROVE  SaysLast(field, name, events, n)
    <3>1. \A i \in (k + 1) .. n : i = n \/ i \in (k + 1) .. (n - 1)
      OBVIOUS
    <3>2. k \in 1 .. n
      OBVIOUS
    <3> QED  BY <1>2, <2>3, <3>1, <3>2 DEF SaysLast
  <2> QED  BY <2>1, <2>2, <2>3 DEF SaysLast
<1> QED  BY <1>1, <1>2

SaysSoFar(summary, events, i) ==
  /\ SaysLast(summary.phase, "phase_changed", events, i)
  /\ SaysLast(summary.disposition, "terminal_committed", events, i)
  /\ SaysLast(summary.wait_reason, "wait_registered", events, i)
  /\ SaysLast(summary.attempt, "retry_scheduled", events, i)
  /\ summary.event_count = i
  /\ summary.first = (IF i = 0 THEN {} ELSE {events[1].at})
  /\ i > 0 => summary.revision = events[i].version /\ summary.last = {events[i].at}

LEMMA SummarySays ==
  ASSUME NEW names, NEW values, Untold \in values, NEW events \in Seq(Events(names, values)), NEW g,
         GrowsBy(g, events), \A i \in 0 .. Len(events) : g[i] \in Summaries(values)
  PROVE  SaysSoFar(g[Len(events)], events, Len(events))
<1> DEFINE n == Len(events)
           Q == {i \in 0 .. n : SaysSoFar(g[i], events, i)}
<1>1. n \in Nat
  OBVIOUS
<1>2. g[0] = NoSummary /\ \A i \in 1 .. n : g[i] = Apply(g[i - 1], events[i])
  BY DEF GrowsBy
<1> HIDE DEF n
<1>3. SaysSoFar(g[0], events, 0)
  <2>1. /\ NoSummary.phase = Untold /\ NoSummary.disposition = Untold
        /\ NoSummary.wait_reason = Untold /\ NoSummary.attempt = Untold
        /\ NoSummary.event_count = 0 /\ NoSummary.first = {}
    BY DEF NoSummary
  <2>2. \A name : SaysLast(Untold, name, events, 0)
    BY DEF SaysLast
  <2> QED  BY <1>2, <2>1, <2>2 DEF SaysSoFar
<1>4. ASSUME NEW i \in 1 .. n, SaysSoFar(g[i - 1], events, i - 1)
      PROVE  SaysSoFar(g[i], events, i)
  <2> DEFINE old == g[i - 1]
             event == events[i]
             new == Apply(old, event)
  <2>1. /\ new.phase = Told(event, "phase_changed", old.phase)
        /\ new.disposition = Told(event, "terminal_committed", old.disposition)
        /\ new.wait_reason = Told(event, "wait_registered", old.wait_reason)
        /\ new.attempt = Told(event, "retry_scheduled", old.attempt)
        /\ new.revision = event.version
        /\ new.event_count = old.event_count + 1
        /\ new.first = (IF old.first = {} THEN {event.at} ELSE old.first)
        /\ new.last = {event.at}
    BY DEF Apply
  <2>2. i \in Nat \ {0}
    BY <1>1
  <2> HIDE DEF new
  <2>3. /\ SaysLast(old.phase, "phase_changed", events, i - 1)
        /\ SaysLast(old.disposition, "terminal_committed", events, i - 1)
        /\ SaysLast(old.wait_reason, "wait_registered", events, i - 1)
        /\ SaysLast(old.attempt, "retry_scheduled", events, i - 1)
        /\ old.event_count = i - 1
        /\ old.first = (IF i - 1 = 0 THEN {} ELSE {events[1].at})
    BY <1>4 DEF SaysSoFar
  <2> HIDE DEF old
  <2>4. /\ SaysLast(new.phase, "phase_changed", events, i)
        /\ SaysLast(new.disposition, "terminal_committed", events, i)
        /\ SaysLast(new.wait_reason, "wait_registered", events, i)
        /\ SaysLast(new.attempt, "retry_scheduled", events, i)
    BY <2>1, <2>2, <2>3, StillSays
  <2>5. new.event_count = i
    BY <2>1, <2>2, <2>3
  <2>6. new.first = {events[1].at}
    <3>1. CASE i = 1
      BY <2>1, <2>3, <3>1
    <3>2. CASE i # 1
      <4>1. old.first = {events[1].at}
        BY <2>2, <2>3, <3>2
      <4> QED  BY <2>1, <4>1
    <3> QED  BY <3>1, <3>2
  <2>7. SaysSoFar(new, events, i)
    BY <2>1, <2>2, <2>4, <2>5, <2>6 DEF SaysSoFar
  <2> QED  BY <1>2, <2>7 DEF new, old
<1>5. 0 \in Q /\ \A i \in 1 .. n : i - 1 \in Q => i \in Q
  <2>1. 0 \in 0 .. n
    BY <1>1
  <2> QED  BY <1>3, <1>4, <2>1
<1>6. n \in Q
  <2> HIDE DEF Q
  <2>1. \A i \in 0 .. n : i \in Q
    BY <1>1, <1>5, PrefixInduction
  <2> QED  BY <1>1, <2>1
<1>7. SaysSoFar(g[n], events, n)
  BY <1>6
<1> QED  BY <1>7 DEF n

(* What is said last is said last when it is delivered again.              *)
Redelivers(again, events, from, n) ==
  /\ \A i \in 1 .. n : again[i] = events[i]
  /\ \A i \in from .. n : again[n + i - from + 1] = events[i]

LEMMA LastIsLastAgain ==
  ASSUME NEW again, NEW events, NEW n \in Nat, NEW from \in 1 .. n,
         Redelivers(again, events, from, n), NEW name, NEW one, NEW other,
         SaysLast(one, name, events, n), SaysLast(other, name, again, n + n - from + 1)
  PROVE  one = other
<1> DEFINE m == n + n - from + 1
           T(k) == Tells(events[k], name)
           A(k) == Tells(again[k], name)
<1>0. m \in Nat /\ n <= m /\ from \in Nat /\ from >= 1
  OBVIOUS
<1>1. /\ \A i \in 1 .. n : again[i] = events[i]
      /\ \A i \in from .. n : again[n + i - from + 1] = events[i]
  BY DEF Redelivers
<1>2. \A k \in 1 .. n : A(k) <=> T(k)
  BY <1>1
<1>3. \A k \in (n + 1) .. m : /\ k - n + from - 1 \in from .. n
                              /\ again[k] = events[k - n + from - 1]
  <2> SUFFICES ASSUME NEW k \in (n + 1) .. m
               PROVE  /\ k - n + from - 1 \in from .. n
                      /\ again[k] = events[k - n + from - 1]
    OBVIOUS
  <2>1. k - n + from - 1 \in from .. n /\ n + (k - n + from - 1) - from + 1 = k
    OBVIOUS
  <2> QED  BY <1>1, <2>1
<1>4. /\ \/ one = Untold /\ (\A i \in 1 .. n : ~ T(i))
         \/ \E k \in 1 .. n : /\ T(k) /\ one = events[k].value
                              /\ \A i \in (k + 1) .. n : ~ T(i)
      /\ \/ other = Untold /\ (\A i \in 1 .. m : ~ A(i))
         \/ \E k \in 1 .. m : /\ A(k) /\ other = again[k].value
                              /\ \A i \in (k + 1) .. m : ~ A(i)
  BY Zenon DEF SaysLast
<1>5. CASE \A i \in 1 .. n : ~ T(i)
  <2>1. \A i \in 1 .. m : ~ A(i)
    <3> SUFFICES ASSUME NEW i \in 1 .. m
                 PROVE  ~ A(i)
      OBVIOUS
    <3>1. CASE i \in 1 .. n
      BY <1>1, <1>5, <3>1
    <3>2. CASE i \in (n + 1) .. m
      <4>1. i - n + from - 1 \in 1 .. n
        BY <1>0, <1>3, <3>2
      <4> QED  BY <1>3, <1>5, <3>2, <4>1
    <3> QED  BY <1>0, <3>1, <3>2
  <2> HIDE DEF T, A, m
  <2> QED  BY <1>4, <1>5, <2>1
<1>6. ASSUME NEW k \in 1 .. n, T(k), one = events[k].value, \A i \in (k + 1) .. n : ~ T(i)
      PROVE  one = other
  <2> DEFINE l == IF k < from THEN k ELSE n + k - from + 1
  <2>1. l \in 1 .. m /\ again[l] = events[k]
    BY <1>1
  <2>2. ASSUME NEW i \in (l + 1) .. m
        PROVE  ~ A(i)
    <3>1. CASE i \in 1 .. n
      <4>1. i \in (k + 1) .. n
        BY <1>0, <2>2, <3>1
      <4> QED  BY <1>1, <1>6, <3>1, <4>1
    <3>2. CASE i \in (n + 1) .. m
      <4>1. i - n + from - 1 \in (k + 1) .. n
        BY <1>0, <1>3, <2>2, <3>2
      <4> QED  BY <1>3, <1>6, <3>2, <4>1
    <3> QED  BY <1>0, <2>1, <2>2, <3>1, <3>2
  <2>3. A(l)
    BY <1>6, <2>1
  <2> HIDE DEF T, l, m
  <2>4. PICK j \in 1 .. m : /\ A(j) /\ other = again[j].value
                            /\ \A i \in (j + 1) .. m : ~ A(i)
    <3> HIDE DEF A
    <3> QED  BY <1>4, <2>1, <2>3
  <2>5. j = l
    <3> HIDE DEF A
    <3> QED  BY <1>0, <2>1, <2>2, <2>3, <2>4
  <2> QED  BY <1>6, <2>1, <2>4, <2>5
<1> HIDE DEF T, A, m
<1> QED  BY <1>4, <1>5, <1>6

(* For any events of a run and any of them to redeliver from: the stream   *)
(* delivering the rest again changes the summary in nothing but the number *)
(* of events it counted.                                                   *)
THEOREM ReplayNeverChangesAnything ==
  ASSUME NEW names, NEW values, Untold \in values, NEW events \in Seq(Events(names, values)),
         NEW from \in DOMAIN events
  PROVE  ReplayChangesNothing(events, from)
<1> DEFINE n == Len(events)
           again == events \o SubSeq(events, from, n)
           m == n + n - from + 1
           one == Summary(events)
           other == Summary(again)
<1>1. n \in Nat /\ from \in 1 .. n
  OBVIOUS
<1>2. again \in Seq(Events(names, values)) /\ Len(again) = m
  OBVIOUS
<1>3. Redelivers(again, events, from, n)
  <2>1. \A i \in 1 .. n : again[i] = events[i]
    OBVIOUS
  <2>2. \A i \in from .. n : again[n + i - from + 1] = events[i]
    <3> DEFINE rest == SubSeq(events, from, n)
    <3>1. /\ rest \in Seq(Events(names, values)) /\ Len(rest) = n - from + 1
          /\ \A j \in 1 .. n - from + 1 : rest[j] = events[from + j - 1]
      OBVIOUS
    <3> HIDE DEF rest, n
    <3>2. \A j \in 1 .. n - from + 1 : (events \o rest)[n + j] = rest[j]
      BY <1>1, <3>1 DEF n
    <3> SUFFICES ASSUME NEW i \in from .. n
                 PROVE  (events \o rest)[n + i - from + 1] = events[i]
      BY DEF rest
    <3>3. /\ i - from + 1 \in 1 .. n - from + 1
          /\ n + (i - from + 1) = n + i - from + 1 /\ from + (i - from + 1) - 1 = i
      BY <1>1
    <3> QED  BY <3>1, <3>2, <3>3
  <2> HIDE DEF again
  <2> QED  BY <2>1, <2>2 DEF Redelivers
<1> HIDE DEF again, n
<1>4. one \in Summaries(values) /\ SaysSoFar(one, events, n)
  <2>1. PICK g : /\ GrowsBy(g, events) /\ one = g[Len(events)]
                 /\ \A i \in 0 .. Len(events) : g[i] \in Summaries(values)
    BY SummaryUnfolds
  <2>2. SaysSoFar(g[Len(events)], events, Len(events))
    BY <2>1, SummarySays
  <2> QED  BY <1>1, <2>1, <2>2 DEF n
<1>5. other \in Summaries(values) /\ SaysSoFar(other, again, m)
  <2>1. PICK g : /\ GrowsBy(g, again) /\ other = g[Len(again)]
                 /\ \A i \in 0 .. Len(again) : g[i] \in Summaries(values)
    BY <1>2, SummaryUnfolds
  <2>2. SaysSoFar(g[Len(again)], again, Len(again))
    BY <1>2, <2>1, SummarySays
  <2>3. Len(again) \in 0 .. Len(again)
    BY <1>2
  <2> HIDE DEF m
  <2> QED  BY <1>2, <2>1, <2>2, <2>3
<1>6. m \in Nat /\ m > 0 /\ n > 0
  BY <1>1
<1>7. again[1] = events[1] /\ again[m] = events[n]
  BY <1>1, <1>3 DEF Redelivers
<1> HIDE DEF one, other
<1>8. /\ other.phase = one.phase /\ other.disposition = one.disposition
      /\ other.wait_reason = one.wait_reason /\ other.attempt = one.attempt
  BY <1>1, <1>3, <1>4, <1>5, LastIsLastAgain DEF SaysSoFar
<1>9. /\ other.event_count = m /\ other.revision = one.revision
      /\ other.first = one.first /\ other.last = one.last
  <2>1. /\ one.first = {events[1].at} /\ one.revision = events[n].version
        /\ one.last = {events[n].at}
    BY <1>4, <1>6 DEF SaysSoFar
  <2> HIDE DEF m
  <2>2. /\ other.first = {again[1].at} /\ other.revision = again[m].version
        /\ other.last = {again[m].at} /\ other.event_count = m
    BY <1>5, <1>6 DEF SaysSoFar
  <2> QED  BY <1>7, <2>1, <2>2
<1> HIDE DEF m
<1>10. other = [one EXCEPT !.event_count = m]
  BY <1>4, <1>5, <1>6, <1>8, <1>9 DEF Summaries
<1> QED  BY <1>2, <1>10 DEF ReplayChangesNothing, again, one, other, n

-----------------------------------------------------------------------------
(* Every joined part stands where it was put.                              *)
StaysJoined(g, i, k) ==
  Len(g[i]) <= Len(g[k]) /\ \A j \in 1 .. Len(g[i]) : g[k][j] = g[i][j]

LEMMA JoinedStays ==
  ASSUME NEW T, NEW seqs \in Seq(Seq(T)), NEW g \in [0 .. Len(seqs) -> Seq(T)],
         Joins(g, seqs), NEW i \in 0 .. Len(seqs)
  PROVE  StaysJoined(g, i, Len(seqs))
<1> DEFINE n == Len(seqs)
           P == {k \in Nat : k <= n /\ i <= k => StaysJoined(g, i, k)}
<1>1. n \in Nat /\ i \in Nat /\ \A k \in 1 .. n : seqs[k] \in Seq(T)
  OBVIOUS
<1>2. \A k \in 1 .. n : g[k] = g[k - 1] \o seqs[k]
  BY DEF Joins
<1>3. \A k \in 0 .. n : g[k] \in Seq(T)
  OBVIOUS
<1>a. \A s \in Seq(T) : Len(s) \in Nat
  OBVIOUS
<1> HIDE DEF n
<1>4. 0 \in P
  <2>1. i <= 0 => StaysJoined(g, i, 0)
    <3> SUFFICES ASSUME i <= 0
                 PROVE  StaysJoined(g, 0, 0)
      BY <1>1
    <3>1. g[0] \in Seq(T)
      BY <1>1, <1>3
    <3> QED  BY <3>1 DEF StaysJoined
  <2> QED  BY <1>1, <2>1
<1>5. ASSUME NEW k \in Nat, k \in P
      PROVE  k + 1 \in P
  <2> SUFFICES ASSUME k + 1 <= n, i <= k + 1
               PROVE  StaysJoined(g, i, k + 1)
    OBVIOUS
  <2>1. /\ k \in 0 .. n /\ k + 1 \in 1 .. n /\ k + 1 \in 0 .. n /\ (k + 1) - 1 = k
    BY <1>1
  <2>a. Len(g[i]) \in Nat /\ Len(g[k]) \in Nat /\ Len(g[k + 1]) \in Nat
    <3>1. i \in 0 .. n
      BY <1>1, <2>1
    <3> QED  BY <1>3, <1>a, <2>1, <3>1
  <2>2. g[k + 1] = g[k] \o seqs[k + 1] /\ g[k] \in Seq(T) /\ seqs[k + 1] \in Seq(T)
        /\ g[k + 1] \in Seq(T) /\ g[i] \in Seq(T)
    <3>1. i \in 0 .. n
      BY <1>1, <2>1
    <3> QED  BY <1>1, <1>2, <1>3, <2>1, <3>1
  <2>3. CASE i = k + 1
    BY <2>3, <2>a DEF StaysJoined
  <2>4. CASE i # k + 1
    <3>1. StaysJoined(g, i, k)
      BY <1>1, <1>5, <2>1, <2>4
    <3>2. PutsAfter(g[k], seqs[k + 1], g[k + 1])
      <4>1. PutsAfter(g[k], seqs[k + 1], g[k] \o seqs[k + 1])
        BY <2>2, ConcatPuts
      <4> QED  BY <2>2, <4>1
    <3> DEFINE a == Len(g[i])
               b == Len(g[k])
               c == Len(g[k + 1])
    <3>3. a \in Nat /\ b \in Nat /\ c \in Nat
      BY <2>a
    <3>4. b <= c /\ \A j \in 1 .. b : g[k + 1][j] = g[k][j]
      <4>1. c = b + Len(seqs[k + 1]) /\ Len(seqs[k + 1]) \in Nat
        BY <3>2, Zenon DEF PutsAfter
      <4>2. \A j \in 1 .. b : g[k + 1][j] = g[k][j]
        BY <3>2, Zenon DEF PutsAfter
      <4> HIDE DEF a, b, c
      <4> QED  BY <3>3, <4>1, <4>2
    <3>5. a <= b /\ \A j \in 1 .. a : g[k][j] = g[i][j]
      BY <3>1 DEF StaysJoined
    <3> HIDE DEF a, b, c
    <3>6. a <= c /\ \A j \in 1 .. a : g[k + 1][j] = g[i][j]
      BY <3>3, <3>4, <3>5
    <3> QED  BY <3>6 DEF StaysJoined, a, c
  <2> QED  BY <2>3, <2>4
<1>6. \A k \in Nat : k \in P
  <2> HIDE DEF P
  <2> QED  BY <1>4, <1>5, SetInduction
<1>7. n \in P
  <2> HIDE DEF P
  <2> QED  BY <1>1, <1>6
<1>8. i <= n
  BY <1>1 DEF n
<1> QED  BY <1>1, <1>7, <1>8 DEF n

-----------------------------------------------------------------------------
(* Projections.  What payloads are made of, with any keys but reserved ones*)
(* and without objects of unknown classes.                                 *)
Payloads(zones, keys) ==
  [is : {"atom", "tuple", "list", "object"}] \union [is : {"moment"}, zone : zones]
    \union [is : {"dict", "keyed"}, key : keys]

Reserved == {"$dt", "$tuple", "$class"}

Stored(zones, keys) == Payloads(zones, keys \union Reserved)

EncodedPart(part) ==
  CASE part.is \in {"atom", "list", "dict", "foreign"} -> <<part>>
    [] part.is = "keyed"  -> <<Tagged(part.key)>>
    [] part.is = "moment" -> <<Tagged("$dt"), part>>
    [] part.is = "tuple"  -> <<Tagged("$tuple"), [is |-> "list"]>>
    [] part.is = "object" -> <<Tagged("$class")>>

DecodedPart(value, i) ==
  LET In(key, k) == k > 1 /\ value[k - 1] = Tagged(key) IN
  CASE value[i] \in {Tagged("$dt"), Tagged("$tuple")} -> <<>>
    [] value[i] = Tagged("$class") -> <<[is |-> "object"]>>
    [] In("$dt", i)    -> <<Zoned(value[i])>>
    [] In("$tuple", i) -> <<[is |-> "tuple"]>>
    [] OTHER -> <<value[i]>>

ReadPart(part) ==
  CASE part.is = "moment" -> Zoned(part)
    [] part.is = "keyed"  -> Tagged(part.key)
    [] OTHER -> part

LEMMA TagsDiffer ==
  ASSUME NEW zones, NEW keys, Reserved \intersect keys = {},
         NEW part \in Payloads(zones, keys)
  PROVE  /\ \A key \in Reserved : part # Tagged(key)
         /\ \A key \in Reserved : Tagged(key) \in Stored(zones, keys)
         /\ \A key, other \in Reserved : key # other => Tagged(key) # Tagged(other)
         /\ part \in Stored(zones, keys) /\ [is |-> "list"] \in Stored(zones, keys)
         /\ part.is \in {"atom", "tuple", "list", "object", "moment", "dict", "keyed"}
         /\ part.is = "keyed" =>
              /\ Tagged(part.key) \in Stored(zones, keys)
              /\ \A key \in Reserved : Tagged(part.key) # Tagged(key)
<1>1. \A key : Tagged(key).is = "dict" /\ Tagged(key).key = key
  BY DEF Tagged
<1>2. CASE part \in [is : {"atom", "tuple", "list", "object"}]
  <2>1. part.is \in {"atom", "tuple", "list", "object"}
    BY <1>2
  <2> QED  BY <1>1, <1>2, <2>1 DEF Stored, Payloads, Reserved, Tagged
<1>3. CASE part \in [is : {"moment"}, zone : zones]
  <2>1. part.is = "moment"
    BY <1>3
  <2> QED  BY <1>1, <1>3, <2>1 DEF Stored, Payloads, Reserved, Tagged
<1>4. CASE part \in [is : {"dict", "keyed"}, key : keys]
  <2>1. part.is \in {"dict", "keyed"} /\ part.key \in keys /\ part.key \notin Reserved
    BY <1>4
  <2>2. part \in [is : {"dict", "keyed"}, key : keys \union Reserved]
    BY <1>4
  <2> QED  BY <1>1, <1>4, <2>1, <2>2 DEF Stored, Payloads, Reserved, Tagged
<1> QED  BY <1>2, <1>3, <1>4 DEF Payloads

LEMMA PartsEncode ==
  ASSUME NEW zones, NEW keys, Reserved \intersect keys = {},
         NEW part \in Payloads(zones, keys)
  PROVE  /\ EncodedPart(part) \in Seq(Stored(zones, keys))
         /\ \/ part.is \in {"atom", "list", "dict"} /\ EncodedPart(part) = <<part>>
            \/ part.is = "keyed" /\ EncodedPart(part) = <<Tagged(part.key)>>
            \/ part.is = "moment" /\ EncodedPart(part) = <<Tagged("$dt"), part>>
            \/ part.is = "tuple" /\ EncodedPart(part) = <<Tagged("$tuple"), [is |-> "list"]>>
            \/ part.is = "object" /\ EncodedPart(part) = <<Tagged("$class")>>
<1> DEFINE S == Stored(zones, keys)
<1>1. /\ Tagged("$dt") \in S /\ Tagged("$tuple") \in S /\ Tagged("$class") \in S
      /\ part \in S /\ [is |-> "list"] \in S
      /\ part.is \in {"atom", "tuple", "list", "object", "moment", "dict", "keyed"}
      /\ part.is = "keyed" => Tagged(part.key) \in S
  BY TagsDiffer DEF Reserved
<1>2. \A x, y \in S : <<x>> \in Seq(S) /\ <<x, y>> \in Seq(S)
  OBVIOUS
<1> DEFINE kind == part.is
<1> HIDE DEF S
<1> DEFINE plain == kind \in {"atom", "list", "dict", "foreign"}
<1>3. CASE kind \in {"atom", "list", "dict"}
  <2>1. plain
    BY <1>3
  <2>2. kind # "moment" /\ kind # "tuple" /\ kind # "object" /\ kind # "keyed"
    BY <1>3
  <2>3. EncodedPart(part) = <<part>>
    BY <2>1, <2>2, Zenon DEF EncodedPart
  <2> QED  BY <1>1, <1>2, <1>3, <2>3, Zenon DEF S
<1>4. CASE kind = "moment"
  <2>1. ~ plain /\ kind # "tuple" /\ kind # "object" /\ kind # "keyed"
    BY <1>4
  <2>2. EncodedPart(part) = <<Tagged("$dt"), part>>
    BY <1>4, <2>1, Zenon DEF EncodedPart
  <2> QED  BY <1>1, <1>2, <1>4, <2>2, Zenon DEF S
<1>5. CASE kind = "tuple"
  <2>1. ~ plain /\ kind # "moment" /\ kind # "object" /\ kind # "keyed"
    BY <1>5
  <2>2. EncodedPart(part) = <<Tagged("$tuple"), [is |-> "list"]>>
    BY <1>5, <2>1, Zenon DEF EncodedPart
  <2> QED  BY <1>1, <1>2, <1>5, <2>2, Zenon DEF S
<1>6. CASE kind = "object"
  <2>1. ~ plain /\ kind # "moment" /\ kind # "tuple" /\ kind # "keyed"
    BY <1>6
  <2>2. EncodedPart(part) = <<Tagged("$class")>>
    BY <1>6, <2>1, Zenon DEF EncodedPart
  <2> QED  BY <1>1, <1>2, <1>6, <2>2, Zenon DEF S
<1>7. CASE kind = "keyed"
  <2>1. ~ plain /\ kind # "moment" /\ kind # "tuple" /\ kind # "object"
    BY <1>7
  <2>2. EncodedPart(part) = <<Tagged(part.key)>>
    BY <1>7, <2>1, Zenon DEF EncodedPart
  <2> QED  BY <1>1, <1>2, <1>7, <2>2, Zenon DEF S
<1> QED  BY <1>1, <1>3, <1>4, <1>5, <1>6, <1>7

Beyond(enc, i, key) == i > 1 /\ enc[i - 1] = Tagged(key)

IsTag(part) == part = Tagged("$dt") \/ part = Tagged("$tuple") \/ part = Tagged("$class")

LEMMA PartsDecode ==
  ASSUME NEW enc, NEW i
  PROVE  /\ ~ Beyond(enc, i, "$dt") /\ ~ Beyond(enc, i, "$tuple") =>
              /\ enc[i] \in {Tagged("$dt"), Tagged("$tuple")} /\ enc[i] # Tagged("$class") =>
                   DecodedPart(enc, i) = <<>>
              /\ enc[i] = Tagged("$class") /\ enc[i] \notin {Tagged("$dt"), Tagged("$tuple")} =>
                   DecodedPart(enc, i) = <<[is |-> "object"]>>
              /\ ~ IsTag(enc[i]) => DecodedPart(enc, i) = <<enc[i]>>
         /\ ~ IsTag(enc[i]) =>
              /\ Beyond(enc, i, "$dt") /\ ~ Beyond(enc, i, "$tuple") =>
                   DecodedPart(enc, i) = <<Zoned(enc[i])>>
              /\ Beyond(enc, i, "$tuple") /\ ~ Beyond(enc, i, "$dt") =>
                   DecodedPart(enc, i) = <<[is |-> "tuple"]>>
<1> DEFINE a == enc[i] \in {Tagged("$dt"), Tagged("$tuple")}
           b == enc[i] = Tagged("$class")
           c == Beyond(enc, i, "$dt")
           d == Beyond(enc, i, "$tuple")
<1>1. DecodedPart(enc, i) =
        CASE a -> <<>> [] b -> <<[is |-> "object"]>> [] c -> <<Zoned(enc[i])>>
          [] d -> <<[is |-> "tuple"]>> [] OTHER -> <<enc[i]>>
  BY Zenon DEF DecodedPart, Beyond
<1>2. IsTag(enc[i]) <=> a \/ b
  BY DEF IsTag
<1> DEFINE result == DecodedPart(enc, i)
<1> HIDE DEF a, b, c, d, result
<1>3. /\ a /\ ~ b /\ ~ c /\ ~ d => result = <<>>
      /\ ~ a /\ b /\ ~ c /\ ~ d => result = <<[is |-> "object"]>>
      /\ ~ a /\ ~ b /\ c /\ ~ d => result = <<Zoned(enc[i])>>
      /\ ~ a /\ ~ b /\ ~ c /\ d => result = <<[is |-> "tuple"]>>
      /\ ~ a /\ ~ b /\ ~ c /\ ~ d => result = <<enc[i]>>
  <2>1. CASE a /\ ~ b /\ ~ c /\ ~ d
    BY <1>1, <2>1, Zenon DEF result
  <2>2. CASE ~ a /\ b /\ ~ c /\ ~ d
    BY <1>1, <2>2, Zenon DEF result
  <2>3. CASE ~ a /\ ~ b /\ c /\ ~ d
    BY <1>1, <2>3, Zenon DEF result
  <2>4. CASE ~ a /\ ~ b /\ ~ c /\ d
    BY <1>1, <2>4, Zenon DEF result
  <2>5. CASE ~ a /\ ~ b /\ ~ c /\ ~ d
    BY <1>1, <2>5, Zenon DEF result
  <2> QED  BY <2>1, <2>2, <2>3, <2>4, <2>5, Zenon
<1> QED  BY <1>2, <1>3, Zenon DEF a, b, c, d, result

LEMMA NoOtherParts ==
  ASSUME NEW zones, NEW keys, NEW part \in Payloads(zones, keys)
  PROVE  /\ part.is = "tuple" => part = [is |-> "tuple"]
         /\ part.is = "object" => part = [is |-> "object"]
<1>1. CASE part \in [is : {"atom", "tuple", "list", "object"}]
  <2>1. part = [is |-> part.is]
    BY <1>1
  <2> QED  BY <2>1
<1>2. CASE part \in [is : {"moment"}, zone : zones]
  BY <1>2
<1>3. CASE part \in [is : {"dict", "keyed"}, key : keys]
  BY <1>3
<1> QED  BY <1>1, <1>2, <1>3 DEF Payloads

Opens(part) == part = Tagged("$dt") \/ part = Tagged("$tuple")

Unread(enc, L) == L = 0 \/ ~ Opens(enc[L])

StandsAt(b, enc, L) == \A j \in 1 .. Len(b) : enc[L + j] = b[j]

DecodesOn(D, enc, L, m) ==
  \A j \in 1 .. m : D[L + j] = D[L + j - 1] \o DecodedPart(enc, L + j)

LEMMA OnePartReadsBack ==
  ASSUME NEW zones, NEW keys, Reserved \intersect keys = {},
         NEW part \in Payloads(zones, keys), NEW enc, NEW L \in Nat,
         StandsAt(EncodedPart(part), enc, L),
         Unread(enc, L), NEW U, NEW D, D[L] \in Seq(U),
         DecodesOn(D, enc, L, Len(EncodedPart(part)))
  PROVE  /\ Len(EncodedPart(part)) \in Nat \ {0}
         /\ D[L + Len(EncodedPart(part))] = D[L] \o <<ReadPart(part)>>
         /\ Unread(enc, L + Len(EncodedPart(part)))
<1> DEFINE b == EncodedPart(part)
           dt == Tagged("$dt")
           tuple == Tagged("$tuple")
           class == Tagged("$class")
           list == [is |-> "list"]
           named == Tagged(part.key)
<1>1. /\ part.is = "keyed" => named # dt /\ named # tuple /\ named # class
      /\ part # dt /\ part # tuple /\ part # class
      /\ dt # tuple /\ dt # class /\ tuple # class
      /\ list # dt /\ list # tuple /\ list # class
  <2>1. list.is = "list" /\ dt.is = "dict" /\ tuple.is = "dict" /\ class.is = "dict"
    BY DEF Tagged
  <2>2. list # dt /\ list # tuple /\ list # class
    <3> HIDE DEF list, dt, tuple, class
    <3> QED  BY <2>1
  <2> QED  BY <2>2, TagsDiffer DEF Reserved
<1>2. \/ part.is \in {"atom", "list", "dict"} /\ b = <<part>>
      \/ part.is = "keyed" /\ b = <<named>>
      \/ part.is = "moment" /\ b = <<dt, part>>
      \/ part.is = "tuple" /\ b = <<tuple, list>>
      \/ part.is = "object" /\ b = <<class>>
  BY PartsEncode
<1>3. ~ Beyond(enc, L + 1, "$dt") /\ ~ Beyond(enc, L + 1, "$tuple")
  BY DEF Unread, Opens, Beyond
<1>4. \A s \in Seq(U) : s \o <<>> = s
  OBVIOUS
<1>5. \A j \in 1 .. Len(b) : enc[L + j] = b[j] /\ D[L + j] = D[L + j - 1] \o DecodedPart(enc, L + j)
  BY DEF DecodesOn, StandsAt
<1> HIDE DEF b, dt, tuple, class, list, named
<1>6. ASSUME NEW x, b = <<x>>
      PROVE  /\ Len(b) = 1 /\ enc[L + 1] = x
             /\ D[L + 1] = D[L] \o DecodedPart(enc, L + 1)
  <2>1. Len(b) = 1 /\ b[1] = x
    BY <1>6
  <2> HIDE <1>6
  <2>2. 1 \in 1 .. Len(b) /\ L + 1 - 1 = L
    BY <2>1
  <2>3. enc[L + 1] = b[1] /\ D[L + 1] = D[L + 1 - 1] \o DecodedPart(enc, L + 1)
    BY <1>5, <2>2
  <2> QED  BY <2>1, <2>2, <2>3, Zenon
<1>7. ASSUME NEW x, NEW y, b = <<x, y>>
      PROVE  /\ Len(b) = 2 /\ enc[L + 1] = x /\ enc[L + 2] = y
             /\ D[L + 1] = D[L] \o DecodedPart(enc, L + 1)
             /\ D[L + 2] = D[L + 1] \o DecodedPart(enc, L + 2)
  <2>1. Len(b) = 2 /\ b[1] = x /\ b[2] = y
    BY <1>7
  <2> HIDE <1>7
  <2>2. /\ 1 \in 1 .. Len(b) /\ 2 \in 1 .. Len(b)
        /\ L + 1 - 1 = L /\ L + 2 - 1 = L + 1
    BY <2>1
  <2>3. /\ enc[L + 1] = b[1] /\ D[L + 1] = D[L + 1 - 1] \o DecodedPart(enc, L + 1)
        /\ enc[L + 2] = b[2] /\ D[L + 2] = D[L + 2 - 1] \o DecodedPart(enc, L + 2)
    BY <1>5, <2>2
  <2> QED  BY <2>1, <2>2, <2>3, Zenon
<1>8. CASE part.is \in {"atom", "list", "dict"} /\ b = <<part>>
  <2>1. Len(b) = 1 /\ enc[L + 1] = part /\ D[L + 1] = D[L] \o DecodedPart(enc, L + 1)
    BY <1>6, <1>8
  <2>2. DecodedPart(enc, L + 1) = <<part>>
    BY <1>1, <1>3, <2>1, PartsDecode DEF IsTag, dt, tuple, class
  <2>3. ReadPart(part) = part
    BY <1>8 DEF ReadPart
  <2>4. Unread(enc, L + 1)
    BY <1>1, <2>1 DEF Unread, Opens, dt, tuple
  <2>5. /\ Len(b) \in Nat \ {0} /\ Unread(enc, L + Len(b))
        /\ D[L + Len(b)] = D[L] \o <<ReadPart(part)>>
    <3>1. Len(b) \in Nat \ {0}
      BY <2>1
    <3> QED  BY <2>1, <2>2, <2>3, <2>4, <3>1, Zenon
  <2> QED  BY <2>5, Zenon DEF b
<1>9. CASE part.is = "object" /\ b = <<class>>
  <2>1. Len(b) = 1 /\ enc[L + 1] = class /\ D[L + 1] = D[L] \o DecodedPart(enc, L + 1)
    BY <1>6, <1>9
  <2>2. DecodedPart(enc, L + 1) = <<[is |-> "object"]>>
    BY <1>1, <1>3, <2>1, PartsDecode DEF dt, tuple, class
  <2>3. ReadPart(part) = [is |-> "object"]
    BY <1>9, NoOtherParts DEF ReadPart
  <2>4. Unread(enc, L + 1)
    BY <1>1, <2>1 DEF Unread, Opens, dt, tuple
  <2>5. /\ Len(b) \in Nat \ {0} /\ Unread(enc, L + Len(b))
        /\ D[L + Len(b)] = D[L] \o <<ReadPart(part)>>
    <3>1. Len(b) \in Nat \ {0}
      BY <2>1
    <3> QED  BY <2>1, <2>2, <2>3, <2>4, <3>1, Zenon
  <2> QED  BY <2>5, Zenon DEF b
<1>10. CASE part.is = "moment" /\ b = <<dt, part>>
  <2>1. /\ Len(b) = 2 /\ enc[L + 1] = dt /\ enc[L + 2] = part
        /\ D[L + 1] = D[L] \o DecodedPart(enc, L + 1)
        /\ D[L + 2] = D[L + 1] \o DecodedPart(enc, L + 2)
    BY <1>7, <1>10
  <2>2. DecodedPart(enc, L + 1) = <<>>
    BY <1>1, <1>3, <2>1, PartsDecode DEF dt, tuple, class
  <2>3. Beyond(enc, L + 2, "$dt") /\ ~ Beyond(enc, L + 2, "$tuple")
    BY <1>1, <2>1 DEF Beyond, dt, tuple
  <2>4. DecodedPart(enc, L + 2) = <<Zoned(part)>>
    BY <1>1, <2>1, <2>3, PartsDecode DEF IsTag, dt, tuple, class
  <2>5. ReadPart(part) = Zoned(part)
    BY <1>10 DEF ReadPart
  <2>6. Unread(enc, L + 2)
    BY <1>1, <2>1 DEF Unread, Opens, dt, tuple
  <2>7. D[L + 1] = D[L]
    BY <1>4, <2>1, <2>2
  <2>8. /\ Len(b) \in Nat \ {0} /\ Unread(enc, L + Len(b))
        /\ D[L + Len(b)] = D[L] \o <<ReadPart(part)>>
    <3>1. Len(b) \in Nat \ {0}
      BY <2>1
    <3> QED  BY <2>1, <2>4, <2>5, <2>6, <2>7, <3>1, Zenon
  <2> QED  BY <2>8, Zenon DEF b
<1>11. CASE part.is = "tuple" /\ b = <<tuple, list>>
  <2>1. /\ Len(b) = 2 /\ enc[L + 1] = tuple /\ enc[L + 2] = list
        /\ D[L + 1] = D[L] \o DecodedPart(enc, L + 1)
        /\ D[L + 2] = D[L + 1] \o DecodedPart(enc, L + 2)
    BY <1>7, <1>11
  <2>2. DecodedPart(enc, L + 1) = <<>>
    BY <1>1, <1>3, <2>1, PartsDecode DEF dt, tuple, class
  <2>3. Beyond(enc, L + 2, "$tuple") /\ ~ Beyond(enc, L + 2, "$dt")
    BY <1>1, <2>1 DEF Beyond, dt, tuple
  <2>4. DecodedPart(enc, L + 2) = <<[is |-> "tuple"]>>
    BY <1>1, <2>1, <2>3, PartsDecode DEF IsTag, dt, tuple, class
  <2>5. ReadPart(part) = [is |-> "tuple"]
    BY <1>11, NoOtherParts DEF ReadPart
  <2>6. Unread(enc, L + 2)
    BY <1>1, <2>1 DEF Unread, Opens, dt, tuple
  <2>7. D[L + 1] = D[L]
    BY <1>4, <2>1, <2>2
  <2>8. /\ Len(b) \in Nat \ {0} /\ Unread(enc, L + Len(b))
        /\ D[L + Len(b)] = D[L] \o <<ReadPart(part)>>
    <3>1. Len(b) \in Nat \ {0}
      BY <2>1
    <3> QED  BY <2>1, <2>4, <2>5, <2>6, <2>7, <3>1, Zenon
  <2> QED  BY <2>8, Zenon DEF b
<1>12. CASE part.is = "keyed" /\ b = <<named>>
  <2>1. Len(b) = 1 /\ enc[L + 1] = named /\ D[L + 1] = D[L] \o DecodedPart(enc, L + 1)
    BY <1>6, <1>12
  <2>2. DecodedPart(enc, L + 1) = <<named>>
    BY <1>1, <1>3, <1>12, <2>1, PartsDecode DEF IsTag, dt, tuple, class
  <2>3. ReadPart(part) = named
    BY <1>12 DEF ReadPart, named
  <2>4. Unread(enc, L + 1)
    BY <1>1, <1>12, <2>1 DEF Unread, Opens, dt, tuple
  <2>5. /\ Len(b) \in Nat \ {0} /\ Unread(enc, L + Len(b))
        /\ D[L + Len(b)] = D[L] \o <<ReadPart(part)>>
    <3>1. Len(b) \in Nat \ {0}
      BY <2>1
    <3> QED  BY <2>1, <2>2, <2>3, <2>4, <3>1, Zenon
  <2> QED  BY <2>5, Zenon DEF b
<1> QED  BY <1>2, <1>8, <1>9, <1>10, <1>11, <1>12, Zenon

Decoded(S) == S \union {Zoned(part) : part \in S} \union {[is |-> "object"], [is |-> "tuple"]}

LEMMA DecodedIsDecoded ==
  ASSUME NEW S, NEW enc, NEW i, enc[i] \in S
  PROVE  DecodedPart(enc, i) \in Seq(Decoded(S))
<1> DEFINE U == Decoded(S)
           result == DecodedPart(enc, i)
<1>1. \/ result = <<>>
      \/ result = <<[is |-> "object"]>>
      \/ result = <<Zoned(enc[i])>>
      \/ result = <<[is |-> "tuple"]>>
      \/ result = <<enc[i]>>
  <2> DEFINE a == enc[i] \in {Tagged("$dt"), Tagged("$tuple")}
             b == enc[i] = Tagged("$class")
             c == Beyond(enc, i, "$dt")
             d == Beyond(enc, i, "$tuple")
             z == Zoned(enc[i])
             o == [is |-> "object"]
             t == [is |-> "tuple"]
  <2>1. result = CASE a -> <<>> [] b -> <<o>> [] c -> <<z>> [] d -> <<t>> [] OTHER -> <<enc[i]>>
    BY Zenon DEF DecodedPart, Beyond
  <2> HIDE DEF a, b, c, d, z, o, t, result
  <2>2. \/ result = <<>> \/ result = <<o>> \/ result = <<z>> \/ result = <<t>>
        \/ result = <<enc[i]>>
    BY <2>1
  <2> QED  BY <2>2, Zenon DEF z, o, t
<1>2. /\ enc[i] \in U /\ Zoned(enc[i]) \in U
      /\ [is |-> "object"] \in U /\ [is |-> "tuple"] \in U
  BY DEF Decoded
<1>3. <<>> \in Seq(U) /\ \A x \in U : <<x>> \in Seq(U)
  OBVIOUS
<1> HIDE DEF U, result
<1>4. result \in Seq(U)
  BY <1>1, <1>2, <1>3, Zenon
<1> QED  BY <1>4 DEF U, result

LEMMA KnownReadsBack ==
  ASSUME NEW zones, NEW keys, Reserved \intersect keys = {},
         NEW value \in Seq(Payloads(zones, keys))
  PROVE  ReadsBack(value)
<1> DEFINE n == Len(value)
           S == Stored(zones, keys)
           U == Decoded(S)
           blocks == [i \in DOMAIN value |-> EncodedPart(value[i])]
           enc == Encode(value)
           m == Len(enc)
           decs == [k \in DOMAIN enc |-> DecodedPart(enc, k)]
           read(i) == [j \in 1 .. i |-> ReadPart(value[j])]
<1>1. /\ n \in Nat /\ DOMAIN value = 1 .. n
      /\ \A i \in 1 .. n : value[i] \in Payloads(zones, keys)
  OBVIOUS
<1>2. \A i \in 1 .. n : EncodedPart(value[i]) \in Seq(S)
  BY <1>1, PartsEncode
<1>3. enc = FlattenSeq(blocks)
  BY Zenon DEF Encode, EncodedPart
<1>4. Foreign \notin ToSet(enc) => Decode(enc) = FlattenSeq(decs)
  BY Zenon DEF Decode, DecodedPart
<1>a. Foreign \notin S
  BY DEF Stored, Payloads, Foreign
<1>b. Foreign \notin ToSet(value)
  BY DEF Payloads, Foreign, ToSet
<1> HIDE DEF n, S
<1>5. blocks \in Seq(Seq(S)) /\ Len(blocks) = n /\ \A i \in 1 .. n : blocks[i] = EncodedPart(value[i])
  <2>1. blocks \in [1 .. n -> Seq(S)] /\ \A i \in 1 .. n : blocks[i] = EncodedPart(value[i])
    BY <1>1, <1>2
  <2>2. DOMAIN blocks = 1 .. n
    BY <1>1
  <2> HIDE DEF blocks
  <2>3. blocks \in Seq(Seq(S))
    BY <1>1, <2>1, SeqDef
  <2>4. Len(blocks) = n
    BY <1>1, <2>2, <2>3
  <2> QED  BY <2>1, <2>3, <2>4
<1> HIDE DEF blocks
<1>6. PICK G \in [0 .. n -> Seq(S)] : Joins(G, blocks) /\ enc = G[n]
  BY <1>3, <1>5, FlattenJoins
<1> HIDE DEF enc
<1>7. enc \in Seq(S) /\ m \in Nat /\ DOMAIN enc = 1 .. m /\ \A k \in 1 .. m : enc[k] \in S
  <2>1. enc \in Seq(S)
    BY <1>1, <1>6
  <2> QED  BY <2>1
<1> HIDE DEF m, U
<1>8. decs \in Seq(Seq(U)) /\ Len(decs) = m /\ \A k \in 1 .. m : decs[k] = DecodedPart(enc, k)
  <2>1. \A k \in 1 .. m : DecodedPart(enc, k) \in Seq(U)
    BY <1>7, DecodedIsDecoded DEF U
  <2>2. decs \in [1 .. m -> Seq(U)] /\ \A k \in 1 .. m : decs[k] = DecodedPart(enc, k)
    BY <1>7, <2>1
  <2>3. DOMAIN decs = 1 .. m
    BY <1>7
  <2> HIDE DEF decs
  <2>4. decs \in Seq(Seq(U))
    BY <1>7, <2>2, SeqDef
  <2>5. Len(decs) = m
    BY <1>7, <2>3, <2>4
  <2> QED  BY <2>2, <2>4, <2>5
<1> HIDE DEF decs
<1>c. Foreign \notin ToSet(enc)
  BY <1>7, <1>a DEF ToSet
<1>9. PICK D \in [0 .. m -> Seq(U)] : Joins(D, decs) /\ Decode(enc) = D[m]
  BY <1>4, <1>8, <1>c, FlattenJoins
<1>10. D[0] = <<>> /\ \A k \in 1 .. m : D[k] = D[k - 1] \o DecodedPart(enc, k)
  BY <1>8, <1>9 DEF Joins
<1>11. G[0] = <<>> /\ \A i \in 1 .. n : G[i] = G[i - 1] \o EncodedPart(value[i])
  BY <1>5, <1>6 DEF Joins
<1>12. \A i \in 0 .. n : /\ G[i] \in Seq(S) /\ Len(G[i]) \in 0 .. m
                         /\ \A j \in 1 .. Len(G[i]) : enc[j] = G[i][j]
  <2> SUFFICES ASSUME NEW i \in 0 .. n
               PROVE  /\ G[i] \in Seq(S) /\ Len(G[i]) \in 0 .. m
                      /\ \A j \in 1 .. Len(G[i]) : enc[j] = G[i][j]
    OBVIOUS
  <2>1. G[i] \in Seq(S)
    OBVIOUS
  <2>2. Len(G[i]) \in Nat
    BY <2>1
  <2>3. StaysJoined(G, i, n)
    BY <1>5, <1>6, JoinedStays
  <2> QED  BY <1>6, <1>7, <2>1, <2>2, <2>3 DEF StaysJoined, m
<1> DEFINE At(i) == /\ Unread(enc, Len(G[i]))
                    /\ D[Len(G[i])] = read(i)
           Q == {i \in 0 .. n : At(i)}
<1>13. At(0)
  <2>1. Len(G[0]) = 0
    BY <1>11
  <2>2. read(0) = <<>>
    OBVIOUS
  <2> QED  BY <1>10, <2>1, <2>2 DEF Unread
<1>14. ASSUME NEW i \in 1 .. n, At(i - 1)
       PROVE  At(i)
  <2> DEFINE L == Len(G[i - 1])
             b == EncodedPart(value[i])
  <2>1. i - 1 \in 0 .. n /\ i \in 0 .. n /\ value[i] \in Payloads(zones, keys)
    BY <1>1
  <2>2. L \in Nat /\ L \in 0 .. m /\ b \in Seq(S) /\ G[i - 1] \in Seq(S)
    BY <1>2, <1>7, <1>12, <2>1
  <2>3. PutsAfter(G[i - 1], b, G[i])
    <3>1. G[i] = G[i - 1] \o b
      BY <1>11
    <3> HIDE DEF b, L
    <3>2. PutsAfter(G[i - 1], b, G[i - 1] \o b)
      BY <2>2, ConcatPuts
    <3> QED  BY <3>1, <3>2, Zenon
  <2>4. /\ Len(b) \in Nat /\ Len(G[i]) = L + Len(b)
        /\ \A j \in 1 .. Len(b) : G[i][L + j] = b[j]
    BY <2>3, Zenon DEF PutsAfter
  <2>5. Len(G[i]) <= m /\ \A j \in 1 .. Len(G[i]) : enc[j] = G[i][j]
    BY <1>7, <1>12, <2>1
  <2> HIDE DEF L, b
  <2>6. \A j \in 1 .. Len(b) : L + j \in 1 .. Len(G[i]) /\ L + j \in 1 .. m
    BY <1>7, <2>2, <2>4, <2>5
  <2>7. StandsAt(b, enc, L)
    BY <2>4, <2>5, <2>6 DEF StandsAt
  <2>8. DecodesOn(D, enc, L, Len(b))
    <3> SUFFICES ASSUME NEW j \in 1 .. Len(b)
                 PROVE  D[L + j] = D[L + j - 1] \o DecodedPart(enc, L + j)
      BY DEF DecodesOn
    <3>1. L + j \in 1 .. m /\ (L + j) - 1 = L + j - 1
      BY <2>2, <2>4, <2>6
    <3>2. D[L + j] = D[(L + j) - 1] \o DecodedPart(enc, L + j)
      BY <1>10, <3>1
    <3> QED  BY <3>1, <3>2, Zenon
  <2>9. Unread(enc, L) /\ D[L] = read(i - 1) /\ D[L] \in Seq(U)
    BY <1>14, <2>2 DEF L
  <2>10. D[L + Len(b)] = D[L] \o <<ReadPart(value[i])>> /\ Unread(enc, L + Len(b))
    <3> DEFINE part == value[i]
    <3>1. StandsAt(EncodedPart(part), enc, L)
      BY <2>7, Zenon DEF b
    <3>2. DecodesOn(D, enc, L, Len(EncodedPart(part)))
      BY <2>8, Zenon DEF b
    <3>3. part \in Payloads(zones, keys)
      BY <2>1
    <3>a. D[L] \in Seq(U) /\ Unread(enc, L) /\ L \in Nat
      BY <2>2, <2>9
    <3>b. b = EncodedPart(part)
      BY DEF b
    <3> HIDE DEF part
    <3>4. /\ D[L + Len(EncodedPart(part))] = D[L] \o <<ReadPart(part)>>
          /\ Unread(enc, L + Len(EncodedPart(part)))
      BY <3>1, <3>2, <3>3, <3>a, OnePartReadsBack
    <3> QED  BY <3>4, <3>b, Zenon DEF part
  <2>11. read(i - 1) \o <<ReadPart(value[i])>> = read(i)
    <3> DEFINE r == [j \in 1 .. n |-> ReadPart(value[j])]
               s == [j \in 1 .. (i - 1) |-> r[j]]
    <3>1. i \in Nat /\ i >= 1
      BY <1>1
    <3>2. s \o <<r[i]>> = [j \in 1 .. i |-> r[j]]
      <4> HIDE DEF r
      <4>1. DOMAIN s = 1 .. (i - 1) /\ Len(s) = i - 1
        BY <3>1
      <4> QED  BY <3>1, <4>1
    <3>3. s = read(i - 1) /\ [j \in 1 .. i |-> r[j]] = read(i) /\ r[i] = ReadPart(value[i])
      BY <1>1, <3>1
    <3> QED  BY <3>2, <3>3, Zenon
  <2> HIDE DEF read
  <2>12. D[Len(G[i])] = read(i)
    BY <2>4, <2>9, <2>10, <2>11, Zenon
  <2>13. Unread(enc, Len(G[i]))
    BY <2>4, <2>10, Zenon
  <2> QED  BY <2>12, <2>13
<1>15. At(n)
  <2> HIDE DEF At
  <2>1. 0 \in Q /\ \A i \in 1 .. n : i - 1 \in Q => i \in Q
    <3>1. 0 \in 0 .. n
      BY <1>1
    <3> QED  BY <1>13, <1>14, <3>1
  <2> HIDE DEF Q
  <2>2. \A i \in 0 .. n : i \in Q
    BY <1>1, <2>1, PrefixInduction
  <2>3. n \in Q
    BY <1>1, <2>2
  <2> QED  BY <2>3 DEF Q
<1>16. Read(value) = read(n)
  BY <1>1, Zenon DEF Read, ReadPart
<1>17. Len(G[n]) = m
  BY <1>6 DEF m
<1>18. Decode(enc) = read(n)
  <2> HIDE DEF read
  <2> QED  BY <1>9, <1>15, <1>17, Zenon
<1>19. Decode(Encode(value)) = Read(value)
  BY <1>16, <1>18, Zenon DEF enc
<1> QED  BY <1>19, <1>b, Zenon DEF ReadsBack

(* An object of a class the decoder does not know is stored as one.        *)
LEMMA ForeignIsRefused ==
  ASSUME NEW zones, NEW keys, Reserved \intersect keys = {},
         NEW value \in Seq(Payloads(zones, keys) \union {Foreign}), Foreign \in ToSet(value)
  PROVE  ReadsBack(value)
<1> DEFINE n == Len(value)
           S == Stored(zones, keys) \union {Foreign}
           blocks == [i \in DOMAIN value |-> EncodedPart(value[i])]
           enc == Encode(value)
<1>1. /\ n \in Nat /\ DOMAIN value = 1 .. n
      /\ \A i \in 1 .. n : value[i] \in Payloads(zones, keys) \/ value[i] = Foreign
  OBVIOUS
<1>2. EncodedPart(Foreign) = <<Foreign>>
  <2>1. /\ Foreign.is \in {"atom", "list", "dict", "foreign"} /\ Foreign.is # "keyed"
        /\ Foreign.is # "moment" /\ Foreign.is # "tuple" /\ Foreign.is # "object"
    BY DEF Foreign
  <2> QED  BY <2>1, Zenon DEF EncodedPart
<1>3. \A i \in 1 .. n : EncodedPart(value[i]) \in Seq(S)
  <2> SUFFICES ASSUME NEW i \in 1 .. n
               PROVE  EncodedPart(value[i]) \in Seq(S)
    OBVIOUS
  <2>1. CASE value[i] = Foreign
    BY <1>2, <2>1
  <2>2. CASE value[i] \in Payloads(zones, keys)
    <3>1. EncodedPart(value[i]) \in Seq(Stored(zones, keys))
      BY <2>2, PartsEncode
    <3> HIDE DEF enc, blocks
    <3>2. \A s \in Seq(Stored(zones, keys)) : s \in Seq(S)
      OBVIOUS
    <3> QED  BY <3>1, <3>2
  <2> QED  BY <1>1, <2>1, <2>2
<1>4. enc = FlattenSeq(blocks)
  BY Zenon DEF Encode, EncodedPart
<1>5. PICK i \in 1 .. n : value[i] = Foreign
  BY <1>1 DEF ToSet
<1> HIDE DEF n, S
<1>6. /\ blocks \in Seq(Seq(S)) /\ Len(blocks) = n
      /\ \A k \in 1 .. n : blocks[k] = EncodedPart(value[k])
  <2>1. blocks \in [1 .. n -> Seq(S)] /\ \A k \in 1 .. n : blocks[k] = EncodedPart(value[k])
    BY <1>1, <1>3
  <2>2. DOMAIN blocks = 1 .. n
    BY <1>1
  <2> HIDE DEF blocks
  <2>3. blocks \in Seq(Seq(S))
    BY <1>1, <2>1, SeqDef
  <2>4. Len(blocks) = n
    BY <1>1, <2>2, <2>3
  <2> QED  BY <2>1, <2>3, <2>4
<1> HIDE DEF blocks
<1>7. PICK G \in [0 .. n -> Seq(S)] : Joins(G, blocks) /\ enc = G[n]
  BY <1>4, <1>6, FlattenJoins
<1> HIDE DEF enc
<1>8. G[i] = G[i - 1] \o <<Foreign>>
  BY <1>2, <1>5, <1>6, <1>7 DEF Joins
<1> DEFINE last == Len(G[i])
<1>9. last \in Nat \ {0} /\ G[i][last] = Foreign
  <2>1. i - 1 \in 0 .. n
    BY <1>1
  <2>2. G[i - 1] \in Seq(S)
    BY <2>1
  <2> DEFINE before == G[i - 1]
             after == before \o <<Foreign>>
  <2> HIDE DEF before
  <2>3. Len(after) \in Nat \ {0} /\ after[Len(after)] = Foreign
    BY <2>2 DEF before
  <2> QED  BY <1>8, <2>3, Zenon DEF before
<1>10. StaysJoined(G, i, n)
  <2>1. i \in 0 .. n
    BY <1>1
  <2> QED  BY <1>6, <1>7, <2>1, JoinedStays
<1>11. Len(G[n]) \in Nat /\ DOMAIN G[n] = 1 .. Len(G[n])
  <2>1. G[n] \in Seq(S)
    BY <1>1
  <2> QED  BY <2>1
<1>12. last \in DOMAIN enc /\ enc[last] = Foreign
  <2>1. last <= Len(G[n]) /\ \A j \in 1 .. last : G[n][j] = G[i][j]
    BY <1>10, Zenon DEF StaysJoined
  <2> HIDE DEF last
  <2>2. last \in 1 .. last /\ last \in 1 .. Len(G[n])
    BY <1>9, <1>11, <2>1
  <2> QED  BY <1>7, <1>9, <1>11, <2>1, <2>2, Zenon
<1>13. Foreign \in ToSet(enc)
  BY <1>12 DEF ToSet
<1>14. Decode(Encode(value)) = Raised
  BY <1>13, Zenon DEF Decode, enc
<1> QED  BY <1>14, Zenon DEF ReadsBack

(* For any payload whose dicts have no reserved key: what was encoded is   *)
(* decoded to what was meant, and is refused if there is an object of an   *)
(* unknown class in it.                                                    *)
THEOREM PayloadAlwaysReadBack ==
  ASSUME NEW zones, NEW keys, Reserved \intersect keys = {},
         NEW value \in Seq(Payloads(zones, keys) \union {Foreign})
  PROVE  ReadsBack(value)
<1>1. CASE Foreign \in ToSet(value)
  BY <1>1, ForeignIsRefused
<1>2. CASE Foreign \notin ToSet(value)
  <2>1. \A i \in DOMAIN value : value[i] \in Payloads(zones, keys)
    BY <1>2 DEF ToSet
  <2>2. value \in Seq(Payloads(zones, keys))
    BY <2>1, SeqDef
  <2> QED  BY <2>2, KnownReadsBack
<1> QED  BY <1>1, <1>2

-----------------------------------------------------------------------------
(* ContextAssembly.  What the tokens of entries add up to.                 *)
Weighed(E) == \A entry \in E : entry.item.tokens \in Nat

AddsUp(g, entries) ==
  g[0] = 0 /\ \A i \in 1 .. Len(entries) : g[i] = g[i - 1] + entries[i].item.tokens

LEMMA TokensUnfold ==
  ASSUME NEW E, Weighed(E), NEW entries \in Seq(E)
  PROVE  \E g : /\ AddsUp(g, entries) /\ Tokens(entries) = g[Len(entries)]
                /\ \A i \in 0 .. Len(entries) : g[i] \in Nat
<1> DEFINE n == Len(entries)
           step == [i \in 1 .. n |-> [sum \in Nat |-> sum + entries[i].item.tokens]]
           Is(iter) == iter = [s \in SUBSET (1 .. n) |->
                         IF s = {} THEN 0 ELSE iter[s \ {Max(s)}] + entries[Max(s)].item.tokens]
           iter == CHOOSE iter : Is(iter)
           g == [i \in 0 .. n |-> iter[1 .. i]]
<1>1. n \in Nat /\ DOMAIN entries = 1 .. n /\ \A i \in 1 .. n : entries[i].item.tokens \in Nat
  BY DEF Weighed
<1>2. Tokens(entries) = iter[1 .. n]
  BY <1>1, Zenon DEF Tokens, FoldLeft, MapThenFoldSet
<1> HIDE DEF n
<1>3. PICK F \in [SUBSET (1 .. n) -> Nat] : FoldsBy(F, n, 0, step)
  <2>1. step \in [1 .. n -> [Nat -> Nat]] /\ 0 \in Nat
    BY <1>1
  <2> HIDE DEF step
  <2> QED  BY <1>1, <2>1, FoldExists DEF Foldable
<1>4. Is(iter)
  <2>1. \A s \in SUBSET (1 .. n) : s # {} => Max(s) \in 1 .. n /\ s \ {Max(s)} \in SUBSET (1 .. n)
    BY <1>1, GreatestPlace
  <2>2. \A s \in SUBSET (1 .. n) :
          F[s] = IF s = {} THEN 0 ELSE F[s \ {Max(s)}] + entries[Max(s)].item.tokens
    BY <1>3, <2>1 DEF FoldsBy
  <2>3. Is(F)
    BY <2>2
  <2> HIDE DEF Is
  <2> QED  BY <2>3
<1>5. \A s \in SUBSET (1 .. n) :
        iter[s] = IF s = {} THEN 0 ELSE iter[s \ {Max(s)}] + entries[Max(s)].item.tokens
  <2> HIDE DEF iter
  <2> QED  BY <1>4
<1> HIDE DEF iter
<1>6. g[0] = 0 /\ \A i \in 1 .. n : g[i] = g[i - 1] + entries[i].item.tokens
  <2>1. PassedPlaces(n)
    BY <1>1, PlacesPassed
  <2>2. iter[{}] = 0
    BY <1>5
  <2>3. \A i \in 1 .. n : iter[1 .. i] = iter[1 .. (i - 1)] + entries[i].item.tokens
    BY <1>5, <2>1 DEF PassedPlaces
  <2>4. \A i \in 1 .. n : g[i] = iter[1 .. i] /\ g[i - 1] = iter[1 .. (i - 1)]
    BY <1>1
  <2>5. g[0] = iter[{}]
    BY <1>1, <2>1 DEF PassedPlaces
  <2>6. ASSUME NEW i \in 1 .. n
        PROVE  g[i] = g[i - 1] + entries[i].item.tokens
    <3>1. /\ g[i] = iter[1 .. i] /\ g[i - 1] = iter[1 .. (i - 1)]
          /\ iter[1 .. i] = iter[1 .. (i - 1)] + entries[i].item.tokens
      BY <2>3, <2>4, Zenon
    <3> HIDE DEF g
    <3> QED  BY ONLY <3>1
  <2> QED  BY <2>2, <2>5, <2>6, Zenon
<1>7. g[n] = iter[1 .. n]
  BY <1>1
<1> HIDE DEF g
<1>8. AddsUp(g, entries)
  BY <1>6 DEF AddsUp, n
<1>9. \A i \in 0 .. n : g[i] \in Nat
  <2> DEFINE Q == {i \in 0 .. n : g[i] \in Nat}
  <2>1. 0 \in Q
    BY <1>1, <1>6
  <2>2. ASSUME NEW i \in 1 .. n, i - 1 \in Q
        PROVE  i \in Q
    <3>1. g[i - 1] \in Nat /\ entries[i].item.tokens \in Nat /\ i \in 0 .. n
      BY <1>1, <2>2
    <3>2. g[i] = g[i - 1] + entries[i].item.tokens
      BY <1>6
    <3> QED  BY <3>1, <3>2
  <2> HIDE DEF Q
  <2>3. \A i \in 0 .. n : i \in Q
    BY <1>1, <2>1, <2>2, PrefixInduction
  <2> QED  BY <2>3 DEF Q
<1> QED  BY <1>2, <1>7, <1>8, <1>9 DEF n

LEMMA TokensAppend ==
  ASSUME NEW E, Weighed(E), NEW entries \in Seq(E), NEW entry \in E
  PROVE  /\ Tokens(entries) \in Nat /\ entry.item.tokens \in Nat
         /\ Tokens(Append(entries, entry)) = Tokens(entries) + entry.item.tokens
<1> DEFINE all == Append(entries, entry)
           n == Len(entries)
<1>1. /\ all \in Seq(E) /\ Len(all) = n + 1 /\ n \in Nat /\ all[n + 1] = entry
      /\ \A i \in 1 .. n : all[i] = entries[i]
  BY AppendPuts
<1>2. PICK g : /\ AddsUp(g, entries) /\ Tokens(entries) = g[n]
               /\ \A i \in 0 .. n : g[i] \in Nat
  BY TokensUnfold
<1> HIDE DEF all
<1>3. PICK h : AddsUp(h, all) /\ Tokens(all) = h[Len(all)]
  BY <1>1, TokensUnfold
<1> HIDE DEF n
<1>4. /\ g[0] = 0 /\ \A i \in 1 .. n : g[i] = g[i - 1] + entries[i].item.tokens
      /\ h[0] = 0 /\ \A i \in 1 .. n + 1 : h[i] = h[i - 1] + all[i].item.tokens
  BY <1>1, <1>2, <1>3 DEF AddsUp, n
<1>5. h[n] = g[n]
  <2> DEFINE Q == {i \in 0 .. n : h[i] = g[i]}
  <2>1. 0 \in Q
    BY <1>1, <1>4
  <2>2. ASSUME NEW i \in 1 .. n, i - 1 \in Q
        PROVE  i \in Q
    <3>1. h[i - 1] = g[i - 1] /\ all[i] = entries[i] /\ i \in 1 .. n + 1 /\ i \in 0 .. n
      BY <1>1, <2>2
    <3>2. h[i] = h[i - 1] + all[i].item.tokens /\ g[i] = g[i - 1] + entries[i].item.tokens
      BY <1>4, <3>1
    <3> QED  BY <3>1, <3>2
  <2> HIDE DEF Q
  <2>3. \A i \in 0 .. n : i \in Q
    BY <1>1, <2>1, <2>2, PrefixInduction
  <2> QED  BY <1>1, <2>3 DEF Q
<1>6. h[n + 1] = h[n] + entry.item.tokens
  BY <1>1, <1>4
<1>7. entry.item.tokens \in Nat /\ g[n] \in Nat
  BY <1>1, <1>2 DEF Weighed
<1> QED  BY <1>1, <1>2, <1>3, <1>5, <1>6, <1>7 DEF all

LEMMA TokensOfNone ==
  Tokens(<<>>) = 0
<1>1. PICK g : AddsUp(g, <<>>) /\ Tokens(<<>>) = g[Len(<<>>)]
  <2>1. Weighed({}) /\ <<>> \in Seq({})
    BY DEF Weighed
  <2> QED  BY <2>1, TokensUnfold
<1> QED  BY <1>1 DEF AddsUp

LEMMA TokensOfPicked ==
  ASSUME NEW E, Weighed(E), NEW s \in Seq(E), NEW x \in E, NEW V
  PROVE  /\ Tokens(Picked(s, V)) \in Nat /\ x.item.tokens \in Nat
         /\ Tokens(Picked(Append(s, x), V)) =
              Tokens(Picked(s, V)) + IF x \in V THEN x.item.tokens ELSE 0
<1> DEFINE picked == Picked(s, V)
<1>1. picked \in Seq(E)
  BY PickedAppend
<1>2. Picked(Append(s, x), V) = IF x \in V THEN Append(picked, x) ELSE picked
  BY PickedAppend
<1> HIDE DEF picked
<1>3. /\ Tokens(picked) \in Nat /\ x.item.tokens \in Nat
      /\ Tokens(Append(picked, x)) = Tokens(picked) + x.item.tokens
  BY <1>1, TokensAppend
<1>4. CASE x \in V
  BY <1>2, <1>3, <1>4 DEF picked
<1>5. CASE x \notin V
  <2>1. Tokens(picked) + 0 = Tokens(picked)
    BY <1>3
  <2> QED  BY <1>2, <1>3, <1>5, <2>1 DEF picked
<1> QED  BY <1>4, <1>5

Sum(s, V, i) == Tokens(Picked(SubSeq(s, 1, i), V))

SumsUp(s, V, n) ==
  /\ n \in Nat /\ Sum(s, V, 0) = 0 /\ Sum(s, V, n) = Tokens(Picked(s, V))
  /\ \A i \in 0 .. n : Sum(s, V, i) \in Nat
  /\ \A i \in 1 .. n : /\ s[i].item.tokens \in Nat
                       /\ Sum(s, V, i) = Sum(s, V, i - 1)
                            + IF s[i] \in V THEN s[i].item.tokens ELSE 0

LEMMA SumsGrow ==
  ASSUME NEW E, Weighed(E), NEW s \in Seq(E), NEW V
  PROVE  SumsUp(s, V, Len(s))
<1>1. /\ Growing(s) /\ SubSeq(s, 1, 0) = <<>> /\ SubSeq(s, 1, Len(s)) = s
      /\ \A i \in 0 .. Len(s) : SubSeq(s, 1, i) \in Seq(E)
      /\ \A i \in 1 .. Len(s) : s[i] \in E
  BY PrefixGrows
<1>2. Sum(s, V, 0) = 0 /\ Sum(s, V, Len(s)) = Tokens(Picked(s, V))
  BY <1>1, PickedOfNone, TokensOfNone DEF Sum
<1>3. Len(s) \in Nat
  OBVIOUS
<1>4. ASSUME NEW i \in 1 .. Len(s)
      PROVE  /\ s[i].item.tokens \in Nat
             /\ Sum(s, V, i) = Sum(s, V, i - 1) + IF s[i] \in V THEN s[i].item.tokens ELSE 0
             /\ Sum(s, V, i - 1) \in Nat
  <2> DEFINE before == SubSeq(s, 1, i - 1)
  <2>1. before \in Seq(E) /\ s[i] \in E /\ SubSeq(s, 1, i) = Append(before, s[i])
    BY <1>1, <1>3 DEF Growing
  <2> HIDE DEF before
  <2>2. /\ Tokens(Picked(before, V)) \in Nat /\ s[i].item.tokens \in Nat
        /\ Tokens(Picked(Append(before, s[i]), V)) =
             Tokens(Picked(before, V)) + IF s[i] \in V THEN s[i].item.tokens ELSE 0
    BY <2>1, TokensOfPicked
  <2> QED  BY <2>1, <2>2 DEF Sum, before
<1>5. \A i \in 0 .. Len(s) : Sum(s, V, i) \in Nat
  <2> TAKE i \in 0 .. Len(s)
  <2>1. CASE i = 0
    BY <1>2, <2>1
  <2>2. CASE i # 0
    <3>1. i \in 1 .. Len(s)
      BY <1>3, <2>2
    <3>2. /\ s[i].item.tokens \in Nat /\ Sum(s, V, i - 1) \in Nat
          /\ Sum(s, V, i) = Sum(s, V, i - 1) + IF s[i] \in V THEN s[i].item.tokens ELSE 0
      BY <1>4, <3>1, Zenon
    <3> QED  BY ONLY <3>2
  <2> QED  BY <2>1, <2>2
<1> QED  BY <1>2, <1>3, <1>4, <1>5, Zenon DEF SumsUp

LEMMA SumsNeverFall ==
  ASSUME NEW E, Weighed(E), NEW s \in Seq(E), NEW V, NEW i \in 0 .. Len(s)
  PROVE  Sum(s, V, i) <= Tokens(Picked(s, V))
<1> DEFINE n == Len(s)
           Q == {k \in 0 .. n : i <= k => Sum(s, V, i) <= Sum(s, V, k)}
<1>0. SumsUp(s, V, n)
  BY SumsGrow
<1>1. /\ n \in Nat /\ Sum(s, V, n) = Tokens(Picked(s, V))
      /\ \A k \in 0 .. n : Sum(s, V, k) \in Nat
      /\ \A k \in 1 .. n : /\ s[k].item.tokens \in Nat
                           /\ Sum(s, V, k) = Sum(s, V, k - 1)
                                + IF s[k] \in V THEN s[k].item.tokens ELSE 0
  BY <1>0, Zenon DEF SumsUp
<1> HIDE DEF n
<1>2. 0 \in Q
  BY <1>1 DEF n
<1>3. ASSUME NEW k \in 1 .. n, k - 1 \in Q
      PROVE  k \in Q
  <2>1. /\ Sum(s, V, i) \in Nat /\ Sum(s, V, k) \in Nat /\ Sum(s, V, k - 1) \in Nat
        /\ Sum(s, V, k - 1) <= Sum(s, V, k) /\ k \in 0 .. n
    BY <1>1 DEF n
  <2>2. CASE i <= k - 1
    BY <1>3, <2>1, <2>2
  <2>3. CASE ~ (i <= k - 1)
    <3>1. i <= k => i = k
      BY <1>1, <2>3 DEF n
    <3> QED  BY <2>1, <3>1
  <2> QED  BY <2>2, <2>3
<1> HIDE DEF Q
<1>4. \A k \in 0 .. n : k \in Q
  BY <1>1, <1>2, <1>3, PrefixInduction
<1>5. n \in Q /\ i <= n
  BY <1>1, <1>4 DEF n
<1> QED  BY <1>1, <1>5 DEF Q

(* What a budget is asked to fit: slots told apart by their refs.          *)
Items == [ref : Int, tokens : Nat, negation : BOOLEAN]

SlotsOf(slots) ==
  /\ IsFiniteSet(slots)
  /\ \A slot \in slots : /\ slot.ref \in Int /\ slot.tier \in Nat /\ slot.max \in Nat
                         /\ slot.items \in Seq(Items)
  /\ \A one, other \in slots : one.ref = other.ref => one = other

EntriesOf(slots) ==
  {entry \in [slot : slots, item : Items] :
     \E j \in DOMAIN entry.slot.items : entry.slot.items[j] = entry.item}

InSlot(E, slot) == {entry \in E : entry.slot = slot}

Criticals(E) == {entry \in E : Critical(entry.slot)}

UpToTier(E, tier) == {entry \in E : entry.slot.tier <= tier}

LEMMA EntriesWeighed ==
  ASSUME NEW slots
  PROVE  Weighed(EntriesOf(slots))
BY DEF Weighed, EntriesOf, Items

LEMMA FiltersPick ==
  ASSUME NEW E, NEW s \in Seq(E)
  PROVE  /\ \A slot : OfSlot(s, slot) = Picked(s, InSlot(E, slot))
         /\ CriticalOf(s) = Picked(s, Criticals(E))
         /\ \A tier : Filter(s, LAMBDA entry : entry.slot.tier <= tier)
                        = Picked(s, UpToTier(E, tier))
<1>0. \A i \in DOMAIN s : s[i] \in E
  OBVIOUS
<1>1. ASSUME NEW slot
      PROVE  OfSlot(s, slot) = Picked(s, InSlot(E, slot))
  <2>1. {i \in DOMAIN s : s[i].slot = slot} = {i \in DOMAIN s : s[i] \in InSlot(E, slot)}
    BY <1>0 DEF InSlot
  <2> QED  BY <2>1, Zenon DEF OfSlot, Filter, Picked
<1>2. CriticalOf(s) = Picked(s, Criticals(E))
  <2>1. {i \in DOMAIN s : Critical(s[i].slot)} = {i \in DOMAIN s : s[i] \in Criticals(E)}
    BY <1>0 DEF Criticals
  <2> QED  BY <2>1, Zenon DEF CriticalOf, Filter, Picked
<1>3. ASSUME NEW tier
      PROVE  Filter(s, LAMBDA entry : entry.slot.tier <= tier) = Picked(s, UpToTier(E, tier))
  <2>1. {i \in DOMAIN s : s[i].slot.tier <= tier} = {i \in DOMAIN s : s[i] \in UpToTier(E, tier)}
    BY <1>0 DEF UpToTier
  <2> QED  BY <2>1, Zenon DEF Filter, Picked
<1> QED  BY <1>1, <1>2, <1>3, Zenon

(* Tokens of a slot and of all, as a fit compares them.                    *)
LEMMA FitsIs ==
  ASSUME NEW E, Weighed(E), NEW s \in Seq(E), NEW entry \in E, NEW available
  PROVE  Fits(entry, s, available) <=>
           /\ Tokens(s) + entry.item.tokens <= available
           /\ Tokens(Picked(s, InSlot(E, entry.slot))) + entry.item.tokens <= entry.slot.max
<1>1. OfSlot(s, entry.slot) = Picked(s, InSlot(E, entry.slot))
  BY FiltersPick
<1> QED  BY <1>1 DEF Fits

(* Beside more, what did not fit does not fit.                             *)
LEMMA FitsShrinks ==
  ASSUME NEW E, Weighed(E), NEW s \in Seq(E), NEW x \in E, NEW entry \in E,
         NEW available \in Int, entry.slot.max \in Int, ~ Fits(entry, s, available)
  PROVE  ~ Fits(entry, Append(s, x), available)
<1> DEFINE more == Append(s, x)
           V == InSlot(E, entry.slot)
<1>1. more \in Seq(E)
  BY AppendPuts
<1>2. /\ Tokens(s) \in Nat /\ x.item.tokens \in Nat
      /\ Tokens(more) = Tokens(s) + x.item.tokens
  BY TokensAppend
<1>3. /\ Tokens(Picked(s, V)) \in Nat
      /\ Tokens(Picked(more, V)) = Tokens(Picked(s, V)) + IF x \in V THEN x.item.tokens ELSE 0
  BY TokensOfPicked
<1>4. entry.item.tokens \in Nat
  BY DEF Weighed
<1> HIDE DEF more, V
<1>5. Tokens(more) >= Tokens(s) /\ Tokens(more) \in Nat
  BY <1>2
<1>6. Tokens(Picked(more, V)) >= Tokens(Picked(s, V)) /\ Tokens(Picked(more, V)) \in Nat
  BY <1>2, <1>3
<1>7. Fits(entry, s, available) <=>
           /\ Tokens(s) + entry.item.tokens <= available
           /\ Tokens(Picked(s, V)) + entry.item.tokens <= entry.slot.max
  BY FitsIs DEF V
<1>8. Fits(entry, more, available) <=>
           /\ Tokens(more) + entry.item.tokens <= available
           /\ Tokens(Picked(more, V)) + entry.item.tokens <= entry.slot.max
  BY <1>1, FitsIs DEF V
<1>9. ~ Fits(entry, more, available)
  <2> SUFFICES ASSUME Fits(entry, more, available)
               PROVE  FALSE
    OBVIOUS
  <2>1. \A a, b, c, d \in Int : b >= a /\ b + c <= d => a + c <= d
    OBVIOUS
  <2>2. /\ Tokens(more) + entry.item.tokens <= available
        /\ Tokens(Picked(more, V)) + entry.item.tokens <= entry.slot.max
    BY <1>8
  <2>3. Tokens(s) + entry.item.tokens <= available
    BY ONLY <2>1, <2>2, <1>2, <1>4, <1>5, available \in Int
  <2>4. Tokens(Picked(s, V)) + entry.item.tokens <= entry.slot.max
    BY ONLY <2>1, <2>2, <1>3, <1>4, <1>6, entry.slot.max \in Int
  <2> QED  BY <1>7, <2>3, <2>4
<1> QED  BY <1>9 DEF more

(* What placing one more entry does.                                       *)
Results(E) ==
  [status : {"ok", "critical_negation_would_be_truncated"}, kept : Seq(E), omitted : Seq(E)]

Keeps(result, entry, available) ==
  result.status = "ok" /\ (Critical(entry.slot) \/ Fits(entry, result.kept, available))

Loses(result, entry, available) ==
  result.status = "ok" /\ ~ Critical(entry.slot) /\ ~ Fits(entry, result.kept, available)

PlacesOne(result, entry, available, new) ==
  /\ result.status # "ok" => new = result
  /\ Keeps(result, entry, available) =>
       new = [status |-> "ok", kept |-> Append(result.kept, entry), omitted |-> result.omitted]
  /\ Loses(result, entry, available) /\ entry.item.negation =>
       new.status # "ok"
  /\ Loses(result, entry, available) /\ ~ entry.item.negation =>
       new = [status |-> "ok", kept |-> result.kept, omitted |-> Append(result.omitted, entry)]

LEMMA PlaceIs ==
  ASSUME NEW E, NEW result \in Results(E), NEW entry \in E, NEW available
  PROVE  /\ Place(result, entry, available) \in Results(E)
         /\ PlacesOne(result, entry, available, Place(result, entry, available))
<1> DEFINE new == Place(result, entry, available)
           keeps == Critical(entry.slot) \/ Fits(entry, result.kept, available)
           failed == [status |-> "critical_negation_would_be_truncated", kept |-> <<>>, omitted |-> <<>>]
<1>1. new = IF result.status # "ok" THEN result
            ELSE IF keeps THEN [result EXCEPT !.kept = Append(@, entry)]
            ELSE IF entry.item.negation THEN failed
            ELSE [result EXCEPT !.omitted = Append(@, entry)]
  BY Zenon DEF Place
<1>2. /\ result.kept \in Seq(E) /\ result.omitted \in Seq(E)
      /\ result = [status |-> result.status, kept |-> result.kept, omitted |-> result.omitted]
  BY DEF Results
<1>3. Append(result.kept, entry) \in Seq(E) /\ Append(result.omitted, entry) \in Seq(E)
  BY <1>2
<1>4. CASE result.status # "ok"
  BY <1>1, <1>4, Zenon DEF PlacesOne, Keeps, Loses
<1>5. CASE result.status = "ok" /\ keeps
  <2> DEFINE kept == [status |-> "ok", kept |-> Append(result.kept, entry), omitted |-> result.omitted]
  <2>1. new = [result EXCEPT !.kept = Append(@, entry)]
    BY <1>1, <1>5, Zenon
  <2>2. [result EXCEPT !.kept = Append(@, entry)] = kept
    <3> DEFINE longer == Append(result.kept, entry)
    <3> HIDE DEF longer
    <3>1. [[status |-> "ok", kept |-> result.kept, omitted |-> result.omitted] EXCEPT !.kept = longer]
            = [status |-> "ok", kept |-> longer, omitted |-> result.omitted]
      OBVIOUS
    <3>2. [result EXCEPT !.kept = longer] = [status |-> "ok", kept |-> longer, omitted |-> result.omitted]
      BY <1>2, <1>5, <3>1
    <3> QED  BY <3>2 DEF longer
  <2>3. kept \in Results(E)
    BY <1>2, <1>3 DEF Results
  <2> HIDE DEF kept
  <2>4. new = kept
    BY <2>1, <2>2
  <2> QED  BY <1>5, <2>3, <2>4, Zenon DEF PlacesOne, Keeps, Loses, kept
<1>6. CASE result.status = "ok" /\ ~ keeps /\ entry.item.negation
  <2>1. new = failed
    BY <1>1, <1>6, Zenon
  <2>2. failed \in Results(E) /\ failed.status # "ok"
    BY DEF Results
  <2> HIDE DEF failed
  <2> QED  BY <1>6, <2>1, <2>2, Zenon DEF PlacesOne, Keeps, Loses
<1>7. CASE result.status = "ok" /\ ~ keeps /\ ~ entry.item.negation
  <2> DEFINE left == [status |-> "ok", kept |-> result.kept, omitted |-> Append(result.omitted, entry)]
  <2>1. new = [result EXCEPT !.omitted = Append(@, entry)]
    BY <1>1, <1>7, Zenon
  <2>2. [result EXCEPT !.omitted = Append(@, entry)] = left
    <3> DEFINE longer == Append(result.omitted, entry)
    <3> HIDE DEF longer
    <3>1. [[status |-> "ok", kept |-> result.kept, omitted |-> result.omitted] EXCEPT !.omitted = longer]
            = [status |-> "ok", kept |-> result.kept, omitted |-> longer]
      OBVIOUS
    <3>2. [result EXCEPT !.omitted = longer] = [status |-> "ok", kept |-> result.kept, omitted |-> longer]
      BY <1>2, <1>7, <3>1
    <3> QED  BY <3>2 DEF longer
  <2>3. left \in Results(E)
    BY <1>2, <1>3 DEF Results
  <2> HIDE DEF left
  <2>4. new = left
    BY <2>1, <2>2
  <2> QED  BY <1>7, <2>3, <2>4, Zenon DEF PlacesOne, Keeps, Loses, left
<1> QED  BY <1>4, <1>5, <1>6, <1>7, Zenon

Begun == [status |-> "ok", kept |-> <<>>, omitted |-> <<>>]

(* The entries placed one after the other, as Budget folds them.           *)
Placed(entries, available) ==
  FoldLeft(LAMBDA result, entry : Place(result, entry, available),
           [status |-> "ok", kept |-> <<>>, omitted |-> <<>>], entries)

PlacesOneByOne(g, entries, available) ==
  /\ g[0] = Begun
  /\ \A i \in 1 .. Len(entries) : g[i] = Place(g[i - 1], entries[i], available)

LEMMA PlacingUnfolds ==
  ASSUME NEW E, NEW entries \in Seq(E), NEW available
  PROVE  \E g : PlacesOneByOne(g, entries, available) /\ Placed(entries, available) = g[Len(entries)]
<1> DEFINE n == Len(entries)
           start == [status |-> "ok", kept |-> <<>>, omitted |-> <<>>]
           Onward(result, i) == Place(result, entries[i], available)
           step == [i \in 1 .. n |-> [result \in Results(E) |-> Onward(result, i)]]
           Is(iter) == iter = [s \in SUBSET (1 .. n) |->
                         IF s = {} THEN start ELSE Onward(iter[s \ {Max(s)}], Max(s))]
           iter == CHOOSE iter : Is(iter)
           g == [i \in 0 .. n |-> iter[1 .. i]]
<1>1. n \in Nat /\ DOMAIN entries = 1 .. n /\ \A i \in 1 .. n : entries[i] \in E
  OBVIOUS
<1>2. Placed(entries, available) = iter[1 .. n]
  BY <1>1, Zenon DEF Placed, FoldLeft, MapThenFoldSet
<1>3. start \in Results(E) /\ \A result \in Results(E), i \in 1 .. n : Onward(result, i) \in Results(E)
  <2>1. start \in Results(E)
    BY DEF Results
  <2> QED  BY <1>1, <2>1, PlaceIs
<1>a. Begun = start
  BY Zenon DEF Begun
<1> HIDE DEF n, start, Onward
<1>4. PICK F \in [SUBSET (1 .. n) -> Results(E)] : FoldsBy(F, n, start, step)
  <2>1. step \in [1 .. n -> [Results(E) -> Results(E)]]
    BY <1>1, <1>3
  <2> HIDE DEF step
  <2> QED  BY <1>1, <1>3, <2>1, FoldExists DEF Foldable
<1>5. Is(iter)
  <2>1. \A s \in SUBSET (1 .. n) : s # {} => Max(s) \in 1 .. n /\ s \ {Max(s)} \in SUBSET (1 .. n)
    BY <1>1, GreatestPlace
  <2>2. \A s \in SUBSET (1 .. n) :
          F[s] = IF s = {} THEN start ELSE Onward(F[s \ {Max(s)}], Max(s))
    BY <1>4, <2>1 DEF FoldsBy
  <2>3. Is(F)
    BY <2>2
  <2> HIDE DEF Is
  <2> QED  BY <2>3
<1>6. \A s \in SUBSET (1 .. n) :
        iter[s] = IF s = {} THEN start ELSE Onward(iter[s \ {Max(s)}], Max(s))
  <2> HIDE DEF iter
  <2> QED  BY <1>5
<1> HIDE DEF iter
<1>7. g[0] = start /\ \A i \in 1 .. n : g[i] = Onward(g[i - 1], i)
  <2>1. PassedPlaces(n)
    BY <1>1, PlacesPassed
  <2>2. iter[{}] = start
    BY <1>6
  <2>3. \A i \in 1 .. n : iter[1 .. i] = Onward(iter[1 .. (i - 1)], i)
    BY <1>6, <2>1 DEF PassedPlaces
  <2>4. \A i \in 1 .. n : g[i] = iter[1 .. i] /\ g[i - 1] = iter[1 .. (i - 1)]
    BY <1>1
  <2>5. g[0] = iter[{}]
    BY <1>1, <2>1 DEF PassedPlaces
  <2> QED  BY <2>2, <2>3, <2>4, <2>5
<1>8. g[n] = iter[1 .. n]
  BY <1>1
<1> HIDE DEF g
<1>9. PlacesOneByOne(g, entries, available)
  BY <1>7, <1>a, Zenon DEF PlacesOneByOne, n, Onward
<1> QED  BY <1>2, <1>8, <1>9, Zenon DEF n

(* Entries as they are placed: tier by tier, no item twice.                *)
EntriesInOrder(entries, slots) ==
  /\ entries \in Seq(EntriesOf(slots))
  /\ \A j, k \in 1 .. Len(entries) :
       j < k => /\ entries[j].item.ref # entries[k].item.ref
                /\ entries[j].slot.tier <= entries[k].slot.tier

CriticalsFirst(entries) ==
  \A j, k \in 1 .. Len(entries) :
    j < k /\ Critical(entries[k].slot) => Critical(entries[j].slot)

(* After the first i entries: each is kept or omitted,                     *)
AllAccounted(result, entries, i) ==
  /\ Len(result.kept) + Len(result.omitted) = i
  /\ ToSet(result.kept) \union ToSet(result.omitted) = {entries[j] : j \in 1 .. i}
  /\ ToSet(result.kept) \intersect ToSet(result.omitted) = {}

(* what was omitted may be and had no room,                                *)
Omissible(E, x, kept, available) ==
  /\ ~ Critical(x.slot) /\ ~ x.item.negation
  /\ ~ Fits(x, Picked(kept, UpToTier(E, x.slot.tier)), available)

OmittedWithReason(result, E, available) ==
  \A x \in ToSet(result.omitted) : Omissible(E, x, result.kept, available)

(* slots are not filled beyond their measure, nor with more than there is. *)
SlotsHold(result, E, slots) ==
  \A slot \in slots :
    ~ Critical(slot) => Tokens(Picked(result.kept, InSlot(E, slot))) <= slot.max

NoMoreThanPut(result, E, slots, entries, i) ==
  /\ Tokens(result.kept) <= Sum(entries, E, i)
  /\ \A slot \in slots :
       Tokens(Picked(result.kept, InSlot(E, slot))) <= Sum(entries, InSlot(E, slot), i)

TotalHolds(result, entries, available) ==
  CriticalsFirst(entries) => Tokens(result.kept) <= available

NegationLost(E, entries, available) ==
  \E j \in 1 .. Len(entries) :
    /\ entries[j].item.negation /\ ~ Critical(entries[j].slot)
    /\ \/ Tokens(entries) > available
       \/ Tokens(Picked(entries, InSlot(E, entries[j].slot))) > entries[j].slot.max

BudgetedSoFar(result, slots, entries, i, available) ==
  LET E == EntriesOf(slots) IN
  /\ result.status = "ok" =>
       /\ AllAccounted(result, entries, i)
       /\ OmittedWithReason(result, E, available)
       /\ SlotsHold(result, E, slots)
       /\ NoMoreThanPut(result, E, slots, entries, i)
       /\ TotalHolds(result, entries, available)
  /\ result.status # "ok" => NegationLost(E, entries, available)

PlacesNext(slots, entries, i, available, result) ==
  /\ SlotsOf(slots) /\ EntriesInOrder(entries, slots)
  /\ i \in 1 .. Len(entries) /\ available \in Int
  /\ Tokens(Picked(entries, Criticals(EntriesOf(slots)))) <= available
  /\ result \in Results(EntriesOf(slots)) /\ result.status = "ok"
  /\ BudgetedSoFar(result, slots, entries, i - 1, available)

LEMMA NextPlaced ==
  ASSUME NEW slots, NEW entries, NEW i, NEW available, NEW result,
         PlacesNext(slots, entries, i, available, result)
  PROVE  /\ Weighed(EntriesOf(slots))
         /\ entries \in Seq(EntriesOf(slots)) /\ entries[i] \in EntriesOf(slots)
         /\ i \in Nat /\ i # 0 /\ i - 1 \in 0 .. Len(entries) /\ Len(entries) \in Nat
         /\ result.kept \in Seq(EntriesOf(slots)) /\ result.omitted \in Seq(EntriesOf(slots))
         /\ \A x \in EntriesOf(slots) : x.slot \in slots /\ x.slot.max \in Int
                                         /\ x.slot.tier \in Int /\ x.item.tokens \in Nat
<1>1. entries \in Seq(EntriesOf(slots)) /\ i \in 1 .. Len(entries) /\ result \in Results(EntriesOf(slots))
  BY DEF PlacesNext, EntriesInOrder
<1> DEFINE E == EntriesOf(slots)
<1>2. Weighed(E)
  BY EntriesWeighed
<1>3. \A x \in E : x.slot \in slots /\ x.slot.max \in Int /\ x.slot.tier \in Int
  BY DEF EntriesOf, PlacesNext, SlotsOf
<1>4. \A x \in E : x.item.tokens \in Nat
  BY <1>2 DEF Weighed
<1> HIDE DEF E
<1>5. entries[i] \in E /\ i \in Nat /\ i # 0 /\ i - 1 \in 0 .. Len(entries) /\ Len(entries) \in Nat
  BY <1>1 DEF E
<1>6. result.kept \in Seq(E) /\ result.omitted \in Seq(E)
  BY <1>1 DEF Results, E
<1> QED  BY <1>1, <1>2, <1>3, <1>4, <1>5, <1>6, Zenon DEF E

(* One more entry is one more that was not there.                          *)
LEMMA EntryIsNew ==
  ASSUME NEW slots, NEW entries, NEW i, NEW available, NEW result,
         PlacesNext(slots, entries, i, available, result)
  PROVE  /\ {entries[j] : j \in 1 .. i} = {entries[j] : j \in 1 .. i - 1} \union {entries[i]}
         /\ entries[i] \notin {entries[j] : j \in 1 .. i - 1}
         /\ \A j \in 1 .. i - 1 : entries[j] \in UpToTier(EntriesOf(slots), entries[i].slot.tier)
<1> DEFINE n == Len(entries)
<1>0. i \in Nat /\ i # 0 /\ n \in Nat /\ i \in 1 .. n
  BY NextPlaced DEF PlacesNext
<1> HIDE DEF n
<1>1. 1 .. i = (1 .. i - 1) \union {i}
  BY <1>0
<1>2. \A j \in 1 .. i - 1 : j \in 1 .. n /\ j < i
  BY <1>0
<1>3. \A j \in 1 .. i - 1 : entries[j].item.ref # entries[i].item.ref
                              /\ entries[j].slot.tier <= entries[i].slot.tier
  BY <1>0, <1>2 DEF PlacesNext, EntriesInOrder, n
<1>4. \A j \in 1 .. n : entries[j] \in EntriesOf(slots)
  BY NextPlaced DEF n
<1>5. \A j \in 1 .. i - 1 : entries[j] \in UpToTier(EntriesOf(slots), entries[i].slot.tier)
  BY <1>2, <1>3, <1>4 DEF UpToTier
<1> QED  BY <1>1, <1>3, <1>5

(* What the sums of entries come to when one is added.                     *)
LEMMA SumsStep ==
  ASSUME NEW slots, NEW entries, NEW i, NEW available, NEW result,
         PlacesNext(slots, entries, i, available, result), NEW V
  PROVE  /\ Sum(entries, V, i) \in Nat /\ Sum(entries, V, i - 1) \in Nat
         /\ entries[i].item.tokens \in Nat
         /\ Sum(entries, V, i) = Sum(entries, V, i - 1)
                                  + IF entries[i] \in V THEN entries[i].item.tokens ELSE 0
         /\ Sum(entries, V, i) <= Tokens(Picked(entries, V))
         /\ Tokens(Picked(entries, V)) \in Nat
<1>1. /\ Weighed(EntriesOf(slots)) /\ entries \in Seq(EntriesOf(slots))
      /\ i \in 1 .. Len(entries) /\ i \in 0 .. Len(entries) /\ i - 1 \in 0 .. Len(entries)
  <2>1. i \in 1 .. Len(entries)
    BY DEF PlacesNext
  <2>2. /\ Weighed(EntriesOf(slots)) /\ entries \in Seq(EntriesOf(slots))
        /\ Len(entries) \in Nat /\ i - 1 \in 0 .. Len(entries)
    BY NextPlaced, Zenon
  <2> QED  BY <2>1, <2>2
<1>2. SumsUp(entries, V, Len(entries))
  BY <1>1, SumsGrow
<1>3. Sum(entries, V, i) <= Tokens(Picked(entries, V))
  BY <1>1, SumsNeverFall
<1>4. Tokens(Picked(entries, V)) \in Nat
  <2>1. /\ Sum(entries, V, Len(entries)) = Tokens(Picked(entries, V))
        /\ \A k \in 0 .. Len(entries) : Sum(entries, V, k) \in Nat
        /\ Len(entries) \in Nat
    BY <1>2, Zenon DEF SumsUp
  <2>2. Sum(entries, V, Len(entries)) \in Nat
    BY <2>1
  <2> QED  BY <2>1, <2>2
<1> QED  BY <1>1, <1>2, <1>3, <1>4, Zenon DEF SumsUp

LEMMA SumOfAll ==
  ASSUME NEW T, NEW s \in Seq(T), NEW i \in 0 .. Len(s), NEW V, NEW W,
         \A j \in 1 .. i : s[j] \in V /\ s[j] \in W
  PROVE  Sum(s, V, i) = Sum(s, W, i)
<1> DEFINE prefix == SubSeq(s, 1, i)
<1>1. prefix \in Seq(T) /\ Len(prefix) = i /\ \A j \in 1 .. i : prefix[j] = s[j]
  OBVIOUS
<1> HIDE DEF prefix
<1>2. Picked(prefix, V) = prefix /\ Picked(prefix, W) = prefix
  BY <1>1, PickedOfAll
<1> QED  BY <1>2 DEF Sum, prefix

(* An entry that is kept.                                                  *)
LEMMA KeepsOn ==
  ASSUME NEW slots, NEW entries, NEW i, NEW available, NEW result,
         PlacesNext(slots, entries, i, available, result),
         Keeps(result, entries[i], available)
  PROVE  BudgetedSoFar([status |-> "ok", kept |-> Append(result.kept, entries[i]),
                        omitted |-> result.omitted], slots, entries, i, available)
<1> DEFINE E == EntriesOf(slots)
           x == entries[i]
           kept == result.kept
           omitted == result.omitted
           more == Append(kept, x)
           new == [status |-> "ok", kept |-> more, omitted |-> omitted]
<1>1. /\ Weighed(E) /\ entries \in Seq(E) /\ x \in E /\ kept \in Seq(E) /\ omitted \in Seq(E)
      /\ i \in Nat /\ i # 0 /\ i - 1 \in 0 .. Len(entries) /\ Len(entries) \in Nat
      /\ \A y \in E : y.slot \in slots /\ y.slot.max \in Int /\ y.slot.tier \in Int /\ y.item.tokens \in Nat
  BY NextPlaced
<1>2. /\ AllAccounted(result, entries, i - 1) /\ OmittedWithReason(result, E, available)
      /\ SlotsHold(result, E, slots) /\ NoMoreThanPut(result, E, slots, entries, i - 1)
      /\ TotalHolds(result, entries, available)
  BY Zenon DEF PlacesNext, BudgetedSoFar
<1>a. /\ i \in 1 .. Len(entries) /\ available \in Int /\ Tokens(Picked(entries, Criticals(E))) <= available
      /\ SlotsOf(slots)
  BY Zenon DEF PlacesNext
<1>3. /\ {entries[j] : j \in 1 .. i} = {entries[j] : j \in 1 .. i - 1} \union {x}
      /\ x \notin {entries[j] : j \in 1 .. i - 1}
  BY EntryIsNew
<1>b. Critical(x.slot) \/ Fits(x, kept, available)
  BY Zenon DEF Keeps
<1>4. /\ more \in Seq(E) /\ Len(more) = Len(kept) + 1 /\ Len(kept) \in Nat
      /\ ToSet(more) = ToSet(kept) \union {x}
  BY <1>1, AppendPuts
<1>c. Len(omitted) \in Nat
  BY <1>1
<1>5. /\ Tokens(kept) \in Nat /\ x.item.tokens \in Nat /\ Tokens(more) = Tokens(kept) + x.item.tokens
  BY <1>1, TokensAppend
<1>6. \A V : /\ Tokens(Picked(kept, V)) \in Nat
             /\ Tokens(Picked(more, V)) = Tokens(Picked(kept, V)) + IF x \in V THEN x.item.tokens ELSE 0
  <2> TAKE V
  <2> HIDE DEF E, x, kept, omitted
  <2> QED  BY <1>1, TokensOfPicked
<1>7. \A V : /\ Picked(kept, V) \in Seq(E)
             /\ Picked(more, V) = IF x \in V THEN Append(Picked(kept, V), x) ELSE Picked(kept, V)
  BY <1>1, PickedAppend
<1>8. \A V : /\ Sum(entries, V, i) \in Nat /\ Sum(entries, V, i - 1) \in Nat
             /\ Sum(entries, V, i) = Sum(entries, V, i - 1) + IF x \in V THEN x.item.tokens ELSE 0
             /\ Sum(entries, V, i) <= Tokens(Picked(entries, V)) /\ Tokens(Picked(entries, V)) \in Nat
  BY SumsStep
<1>d. Fits(x, kept, available) =>
        /\ Tokens(kept) + x.item.tokens <= available
        /\ Tokens(Picked(kept, InSlot(E, x.slot))) + x.item.tokens <= x.slot.max
  BY <1>1, FitsIs
<1>e. new.kept = more /\ new.omitted = omitted /\ new.status = "ok"
  OBVIOUS
<1> HIDE DEF E, x, kept, omitted, more, new
<1>9. AllAccounted(new, entries, i)
  <2>1. /\ Len(kept) + Len(omitted) = i - 1
        /\ ToSet(kept) \union ToSet(omitted) = {entries[j] : j \in 1 .. i - 1}
        /\ ToSet(kept) \intersect ToSet(omitted) = {}
    BY <1>2 DEF AllAccounted, kept, omitted
  <2>2. Len(more) + Len(omitted) = i
    BY <1>1, <1>4, <1>c, <2>1
  <2>3. ToSet(more) \union ToSet(omitted) = {entries[j] : j \in 1 .. i}
    BY <1>3, <1>4, <2>1
  <2>4. ToSet(more) \intersect ToSet(omitted) = {}
    BY <1>3, <1>4, <2>1
  <2> QED  BY <1>e, <2>2, <2>3, <2>4 DEF AllAccounted
<1>10. OmittedWithReason(new, E, available)
  <2> SUFFICES ASSUME NEW y \in ToSet(omitted)
               PROVE  Omissible(E, y, more, available)
    BY <1>e, Zenon DEF OmittedWithReason
  <2> DEFINE V == UpToTier(E, y.slot.tier)
  <2>1. Omissible(E, y, kept, available)
    BY <1>2, Zenon DEF OmittedWithReason, kept, omitted
  <2>2. y \in E /\ y.slot.max \in Int
    <3>1. y \in E
      BY <1>1 DEF ToSet
    <3> QED  BY <1>1, <3>1
  <2>3. ~ Fits(y, Picked(kept, V), available)
    BY <2>1, Zenon DEF Omissible
  <2> HIDE DEF V
  <2>4. ~ Fits(y, Append(Picked(kept, V), x), available)
    BY <1>1, <1>7, <1>a, <2>2, <2>3, FitsShrinks
  <2>5. ~ Fits(y, Picked(more, V), available)
    <3>1. CASE x \in V
      BY <1>7, <2>4, <3>1
    <3>2. CASE x \notin V
      BY <1>7, <2>3, <3>2
    <3> QED  BY <3>1, <3>2
  <2> QED  BY <2>1, <2>5, Zenon DEF Omissible, V
<1>11. SlotsHold(new, E, slots)
  <2> SUFFICES ASSUME NEW slot \in slots, ~ Critical(slot)
               PROVE  Tokens(Picked(more, InSlot(E, slot))) <= slot.max
    BY <1>e, Zenon DEF SlotsHold
  <2> DEFINE V == InSlot(E, slot)
  <2>1. Tokens(Picked(kept, V)) <= slot.max
    BY <1>2, Zenon DEF SlotsHold, kept
  <2>2. x \in V <=> x.slot = slot
    BY <1>1 DEF InSlot
  <2>3. CASE x.slot = slot
    <3>1. Tokens(Picked(kept, V)) + x.item.tokens <= slot.max
      BY <1>b, <1>d, <2>3
    <3> HIDE DEF V
    <3>2. Tokens(Picked(more, V)) = Tokens(Picked(kept, V)) + x.item.tokens
      BY <1>6, <2>2, <2>3
    <3> QED  BY <3>1, <3>2 DEF V
  <2>4. CASE x.slot # slot
    <3> HIDE DEF V
    <3>1. Tokens(Picked(more, V)) = Tokens(Picked(kept, V))
      BY <1>6, <2>2, <2>4
    <3> QED  BY <2>1, <3>1 DEF V
  <2> QED  BY <2>3, <2>4
<1>12. NoMoreThanPut(new, E, slots, entries, i)
  <2>1. /\ Tokens(kept) <= Sum(entries, E, i - 1)
        /\ \A slot \in slots : Tokens(Picked(kept, InSlot(E, slot))) <= Sum(entries, InSlot(E, slot), i - 1)
    BY <1>2, Zenon DEF NoMoreThanPut, kept
  <2>2. Tokens(more) <= Sum(entries, E, i)
    <3>1. /\ Sum(entries, E, i) = Sum(entries, E, i - 1) + x.item.tokens
          /\ Sum(entries, E, i - 1) \in Nat
      BY <1>1, <1>8
    <3> QED  BY <1>5, <2>1, <3>1
  <2>3. ASSUME NEW slot \in slots
        PROVE  Tokens(Picked(more, InSlot(E, slot))) <= Sum(entries, InSlot(E, slot), i)
    <3> DEFINE V == InSlot(E, slot)
    <3>1. Tokens(Picked(kept, V)) <= Sum(entries, V, i - 1)
      BY <2>1
    <3> HIDE DEF V
    <3>2. Sum(entries, V, i - 1) \in Nat /\ Tokens(Picked(kept, V)) \in Nat
      BY <1>6, <1>8
    <3>3. CASE x \in V
      <4>1. /\ Sum(entries, V, i) = Sum(entries, V, i - 1) + x.item.tokens
            /\ Tokens(Picked(more, V)) = Tokens(Picked(kept, V)) + x.item.tokens
        BY <1>6, <1>8, <3>3
      <4> QED  BY <1>5, <3>1, <3>2, <4>1 DEF V
    <3>4. CASE x \notin V
      <4>1. /\ Sum(entries, V, i) = Sum(entries, V, i - 1)
            /\ Tokens(Picked(more, V)) = Tokens(Picked(kept, V))
        BY <1>6, <1>8, <3>2, <3>4
      <4> QED  BY <3>1, <4>1 DEF V
    <3> QED  BY <3>3, <3>4
  <2> QED  BY <1>e, <2>2, <2>3, Zenon DEF NoMoreThanPut
<1>13. TotalHolds(new, entries, available)
  <2> SUFFICES ASSUME CriticalsFirst(entries)
               PROVE  Tokens(more) <= available
    BY <1>e, Zenon DEF TotalHolds
  <2>1. CASE Fits(x, kept, available)
    BY <1>5, <1>d, <2>1
  <2>2. CASE Critical(x.slot)
    <3>1. \A j \in 1 .. i : entries[j] \in E /\ entries[j] \in Criticals(E)
      <4> SUFFICES ASSUME NEW j \in 1 .. i
                   PROVE  entries[j] \in E /\ Critical(entries[j].slot)
        BY DEF Criticals
      <4>1. j \in 1 .. Len(entries) /\ (j < i \/ j = i)
        BY <1>1, <1>a
      <4>2. entries[j] \in E
        BY <1>1, <4>1
      <4>3. Critical(entries[j].slot)
        <5>1. CASE j = i
          BY <2>2, <5>1, Zenon DEF x
        <5>2. CASE j < i
          BY <1>a, <2>2, <4>1, <5>2, Zenon DEF CriticalsFirst, x
        <5> QED  BY <4>1, <5>1, <5>2
      <4> QED  BY <4>2, <4>3
    <3>2. Sum(entries, E, i) = Sum(entries, Criticals(E), i)
      <4>1. i \in 0 .. Len(entries)
        BY <1>a
      <4> QED  BY <1>1, <3>1, <4>1, SumOfAll
    <3>3. Sum(entries, Criticals(E), i) <= Tokens(Picked(entries, Criticals(E)))
          /\ Sum(entries, E, i) \in Nat /\ Tokens(Picked(entries, Criticals(E))) \in Nat
      BY <1>8
    <3>4. Tokens(more) <= Sum(entries, E, i)
      BY <1>12, <1>e, Zenon DEF NoMoreThanPut
    <3>5. Tokens(more) \in Nat
      BY <1>5
    <3> QED  BY <1>a, <3>2, <3>3, <3>4, <3>5
  <2> QED  BY <1>b, <2>1, <2>2
<1>14. BudgetedSoFar(new, slots, entries, i, available)
  BY <1>9, <1>10, <1>11, <1>12, <1>13, <1>e, Zenon DEF BudgetedSoFar, E
<1> QED  BY <1>14 DEF new, more, kept, omitted, x

(* An entry that is omitted.                                               *)
LEMMA OmitsOn ==
  ASSUME NEW slots, NEW entries, NEW i, NEW available, NEW result,
         PlacesNext(slots, entries, i, available, result),
         Loses(result, entries[i], available), ~ entries[i].item.negation
  PROVE  BudgetedSoFar([status |-> "ok", kept |-> result.kept,
                        omitted |-> Append(result.omitted, entries[i])],
                       slots, entries, i, available)
<1> DEFINE E == EntriesOf(slots)
           x == entries[i]
           kept == result.kept
           omitted == result.omitted
           more == Append(omitted, x)
           new == [status |-> "ok", kept |-> kept, omitted |-> more]
<1>1. /\ Weighed(E) /\ entries \in Seq(E) /\ x \in E /\ kept \in Seq(E) /\ omitted \in Seq(E)
      /\ i \in Nat /\ i # 0 /\ i - 1 \in 0 .. Len(entries) /\ Len(entries) \in Nat
      /\ \A y \in E : y.slot \in slots /\ y.slot.max \in Int /\ y.slot.tier \in Int /\ y.item.tokens \in Nat
  BY NextPlaced
<1>2. /\ AllAccounted(result, entries, i - 1) /\ OmittedWithReason(result, E, available)
      /\ SlotsHold(result, E, slots) /\ NoMoreThanPut(result, E, slots, entries, i - 1)
      /\ TotalHolds(result, entries, available)
  BY Zenon DEF PlacesNext, BudgetedSoFar
<1>3. /\ {entries[j] : j \in 1 .. i} = {entries[j] : j \in 1 .. i - 1} \union {x}
      /\ x \notin {entries[j] : j \in 1 .. i - 1}
      /\ \A j \in 1 .. i - 1 : entries[j] \in UpToTier(E, x.slot.tier)
  BY EntryIsNew
<1>b. ~ Critical(x.slot) /\ ~ Fits(x, kept, available)
  BY Zenon DEF Loses
<1>4. /\ more \in Seq(E) /\ Len(more) = Len(omitted) + 1 /\ Len(omitted) \in Nat
      /\ ToSet(more) = ToSet(omitted) \union {x}
  BY <1>1, AppendPuts
<1>c. Len(kept) \in Nat /\ DOMAIN kept = 1 .. Len(kept)
  BY <1>1
<1>8. \A V : /\ Sum(entries, V, i) \in Nat /\ Sum(entries, V, i - 1) \in Nat
             /\ Sum(entries, V, i) = Sum(entries, V, i - 1) + IF x \in V THEN x.item.tokens ELSE 0
             /\ x.item.tokens \in Nat
  BY SumsStep
<1>5. Tokens(kept) \in Nat /\ \A V : Tokens(Picked(kept, V)) \in Nat
  <2> HIDE DEF E, x, kept, omitted
  <2>1. Tokens(kept) \in Nat
    BY <1>1, TokensAppend
  <2>2. \A V : Tokens(Picked(kept, V)) \in Nat
    BY <1>1, TokensOfPicked
  <2> QED  BY <2>1, <2>2
<1>e. new.kept = kept /\ new.omitted = more /\ new.status = "ok"
  OBVIOUS
<1>f. ~ x.item.negation
  OBVIOUS
<1> HIDE DEF E, x, kept, omitted, more, new
<1>7. /\ Len(kept) + Len(omitted) = i - 1
      /\ ToSet(kept) \union ToSet(omitted) = {entries[j] : j \in 1 .. i - 1}
      /\ ToSet(kept) \intersect ToSet(omitted) = {}
  BY <1>2 DEF AllAccounted, kept, omitted
<1>9. AllAccounted(new, entries, i)
  <2>2. Len(kept) + Len(more) = i
    BY <1>1, <1>4, <1>c, <1>7
  <2>3. ToSet(kept) \union ToSet(more) = {entries[j] : j \in 1 .. i}
    BY <1>3, <1>4, <1>7
  <2>4. ToSet(kept) \intersect ToSet(more) = {}
    BY <1>3, <1>4, <1>7
  <2> QED  BY <1>e, <2>2, <2>3, <2>4 DEF AllAccounted
<1>10. OmittedWithReason(new, E, available)
  <2>1. \A y \in ToSet(omitted) : Omissible(E, y, kept, available)
    BY <1>2, Zenon DEF OmittedWithReason, kept, omitted
  <2>2. Omissible(E, x, kept, available)
    <3>1. \A k \in 1 .. Len(kept) : kept[k] \in UpToTier(E, x.slot.tier)
      <4> TAKE k \in 1 .. Len(kept)
      <4>1. kept[k] \in ToSet(kept)
        BY <1>c DEF ToSet
      <4>2. kept[k] \in {entries[j] : j \in 1 .. i - 1}
        BY <1>7, <4>1
      <4> QED  BY <1>3, <4>2
    <3>2. Picked(kept, UpToTier(E, x.slot.tier)) = kept
      BY <1>1, <3>1, PickedOfAll
    <3> QED  BY <1>b, <1>f, <3>2 DEF Omissible
  <2> QED  BY <1>4, <1>e, <2>1, <2>2 DEF OmittedWithReason
<1>11. SlotsHold(new, E, slots)
  BY <1>2, <1>e, Zenon DEF SlotsHold, kept
<1>12. NoMoreThanPut(new, E, slots, entries, i)
  <2>0. \A V : Sum(entries, V, i - 1) <= Sum(entries, V, i)
    <3> TAKE V
    <3>1. CASE x \in V
      <4>1. /\ Sum(entries, V, i) = Sum(entries, V, i - 1) + x.item.tokens
            /\ Sum(entries, V, i - 1) \in Nat /\ x.item.tokens \in Nat
        BY <1>8, <3>1
      <4> QED  BY <4>1
    <3>2. CASE x \notin V
      <4>1. Sum(entries, V, i) = Sum(entries, V, i - 1) /\ Sum(entries, V, i - 1) \in Nat
        BY <1>8, <3>2
      <4> QED  BY <4>1
    <3> QED  BY <3>1, <3>2
  <2>1. /\ Tokens(kept) <= Sum(entries, E, i - 1)
        /\ \A slot \in slots : Tokens(Picked(kept, InSlot(E, slot))) <= Sum(entries, InSlot(E, slot), i - 1)
    BY <1>2, Zenon DEF NoMoreThanPut, kept
  <2>a. \A a, b, c \in Nat : a <= b /\ b <= c => a <= c
    OBVIOUS
  <2>2. Tokens(kept) <= Sum(entries, E, i)
    BY <1>5, <1>8, <2>0, <2>1, <2>a
  <2>3. ASSUME NEW slot \in slots
        PROVE  Tokens(Picked(kept, InSlot(E, slot))) <= Sum(entries, InSlot(E, slot), i)
    BY <1>5, <1>8, <2>0, <2>1, <2>a
  <2> QED  BY <1>e, <2>2, <2>3, Zenon DEF NoMoreThanPut
<1>13. TotalHolds(new, entries, available)
  BY <1>2, <1>e, Zenon DEF TotalHolds, kept
<1>14. BudgetedSoFar(new, slots, entries, i, available)
  BY <1>9, <1>10, <1>11, <1>12, <1>13, <1>e, Zenon DEF BudgetedSoFar, E
<1> QED  BY <1>14 DEF new, more, kept, omitted, x

(* A negation that has no room.                                            *)
LEMMA NegationHasNoRoom ==
  ASSUME NEW slots, NEW entries, NEW i, NEW available, NEW result,
         PlacesNext(slots, entries, i, available, result),
         Loses(result, entries[i], available), entries[i].item.negation
  PROVE  NegationLost(EntriesOf(slots), entries, available)
<1> DEFINE E == EntriesOf(slots)
           x == entries[i]
           kept == result.kept
           V == InSlot(E, x.slot)
<1>1. /\ Weighed(E) /\ entries \in Seq(E) /\ x \in E /\ kept \in Seq(E)
      /\ x.slot \in slots /\ x.slot.max \in Int /\ x.item.tokens \in Nat
  BY NextPlaced
<1>2. NoMoreThanPut(result, E, slots, entries, i - 1)
  BY Zenon DEF PlacesNext, BudgetedSoFar
<1>3. i \in 1 .. Len(entries) /\ available \in Int
  BY Zenon DEF PlacesNext
<1>4. ~ Critical(x.slot) /\ ~ Fits(x, kept, available)
  BY Zenon DEF Loses
<1>5. Tokens(kept) \in Nat /\ Tokens(Picked(kept, V)) \in Nat
  <2> HIDE DEF E, x, kept, V
  <2>1. Tokens(kept) \in Nat
    BY <1>1, TokensAppend
  <2>2. Tokens(Picked(kept, V)) \in Nat
    BY <1>1, TokensOfPicked
  <2> QED  BY <2>1, <2>2
<1>6. \A W : /\ Sum(entries, W, i) \in Nat /\ Sum(entries, W, i - 1) \in Nat
             /\ Sum(entries, W, i) = Sum(entries, W, i - 1) + IF x \in W THEN x.item.tokens ELSE 0
             /\ Sum(entries, W, i) <= Tokens(Picked(entries, W)) /\ Tokens(Picked(entries, W)) \in Nat
  BY SumsStep
<1>7. \/ ~ (Tokens(kept) + x.item.tokens <= available)
      \/ ~ (Tokens(Picked(kept, V)) + x.item.tokens <= x.slot.max)
  BY <1>1, <1>4, FitsIs
<1>8. Tokens(kept) <= Sum(entries, E, i - 1) /\ Tokens(Picked(kept, V)) <= Sum(entries, V, i - 1)
  BY <1>1, <1>2, Zenon DEF NoMoreThanPut
<1>9. x.item.negation
  OBVIOUS
<1>10. x \in E /\ x \in V
  BY <1>1 DEF InSlot
<1>11. Picked(entries, E) = entries
  BY <1>1, PickedOfAll
<1> HIDE DEF E, x, kept, V
<1>12. /\ Tokens(kept) + x.item.tokens <= Tokens(entries) /\ Tokens(entries) \in Nat
  <2>1. /\ Sum(entries, E, i) = Sum(entries, E, i - 1) + x.item.tokens
        /\ Sum(entries, E, i) <= Tokens(entries) /\ Sum(entries, E, i - 1) \in Nat
        /\ Sum(entries, E, i) \in Nat /\ Tokens(entries) \in Nat
    BY <1>6, <1>10, <1>11
  <2> QED  BY <1>1, <1>5, <1>8, <2>1
<1>13. /\ Tokens(Picked(kept, V)) + x.item.tokens <= Tokens(Picked(entries, V))
       /\ Tokens(Picked(entries, V)) \in Nat
  <2>1. /\ Sum(entries, V, i) = Sum(entries, V, i - 1) + x.item.tokens
        /\ Sum(entries, V, i) <= Tokens(Picked(entries, V)) /\ Sum(entries, V, i - 1) \in Nat
        /\ Sum(entries, V, i) \in Nat /\ Tokens(Picked(entries, V)) \in Nat
    BY <1>6, <1>10
  <2> QED  BY <1>1, <1>5, <1>8, <2>1
<1>14. Tokens(entries) > available \/ Tokens(Picked(entries, V)) > x.slot.max
  <2>0. \A a, b, c \in Int : a <= b /\ ~ (a <= c) => b > c
    OBVIOUS
  <2>1. Tokens(kept) + x.item.tokens \in Int /\ Tokens(Picked(kept, V)) + x.item.tokens \in Int
    BY <1>1, <1>5
  <2>2. CASE ~ (Tokens(kept) + x.item.tokens <= available)
    <3>1. Tokens(entries) > available
      BY ONLY <1>3, <1>12, <2>0, <2>1, <2>2, Tokens(entries) \in Int
    <3> QED  BY <3>1
  <2>3. CASE ~ (Tokens(Picked(kept, V)) + x.item.tokens <= x.slot.max)
    <3>1. Tokens(Picked(entries, V)) > x.slot.max
      BY ONLY <1>1, <1>13, <2>0, <2>1, <2>3, Tokens(Picked(entries, V)) \in Int
    <3> QED  BY <3>1
  <2> QED  BY <1>7, <2>2, <2>3
<1> QED  BY <1>3, <1>4, <1>9, <1>14 DEF NegationLost, V, x, E

LEMMA BudgetBegins ==
  ASSUME NEW slots, SlotsOf(slots), NEW entries, EntriesInOrder(entries, slots),
         NEW available \in Int, Tokens(Picked(entries, Criticals(EntriesOf(slots)))) <= available
  PROVE  Begun \in Results(EntriesOf(slots)) /\ BudgetedSoFar(Begun, slots, entries, 0, available)
<1> DEFINE E == EntriesOf(slots)
<1>1. Weighed(E) /\ entries \in Seq(E)
  BY EntriesWeighed DEF EntriesInOrder
<1>2. Begun.status = "ok" /\ Begun.kept = <<>> /\ Begun.omitted = <<>>
  BY DEF Begun
<1>3. Begun \in Results(E)
  BY DEF Begun, Results
<1>4. \A V : Tokens(Picked(<<>>, V)) = 0 /\ Tokens(<<>>) = 0
  BY PickedOfNone, TokensOfNone
<1>5. \A V : SumsUp(entries, V, Len(entries))
  BY <1>1, SumsGrow
<1>6. \A V : Sum(entries, V, 0) = 0 /\ Tokens(Picked(entries, V)) \in Nat
  <2> TAKE V
  <2>1. /\ Sum(entries, V, 0) = 0 /\ Sum(entries, V, Len(entries)) = Tokens(Picked(entries, V))
        /\ \A k \in 0 .. Len(entries) : Sum(entries, V, k) \in Nat
        /\ Len(entries) \in Nat
    BY <1>5, Zenon DEF SumsUp
  <2>2. Sum(entries, V, Len(entries)) \in Nat
    BY <2>1
  <2> QED  BY <2>1, <2>2
<1>7. available >= 0
  <2>1. Tokens(Picked(entries, Criticals(E))) \in Nat
    BY <1>6
  <2> QED  BY <2>1
<1> HIDE DEF E
<1>8. AllAccounted(Begun, entries, 0)
  <2>1. Len(<<>>) = 0 /\ ToSet(<<>>) = {} /\ 1 .. 0 = {}
    BY DEF ToSet
  <2> QED  BY <1>2, <2>1 DEF AllAccounted
<1>9. OmittedWithReason(Begun, E, available)
  <2>1. ToSet(<<>>) = {}
    BY DEF ToSet
  <2> QED  BY <1>2, <2>1 DEF OmittedWithReason
<1>10. SlotsHold(Begun, E, slots)
  <2>1. \A slot \in slots : slot.max \in Nat
    BY DEF SlotsOf
  <2>2. \A slot \in slots : Tokens(Picked(<<>>, InSlot(E, slot))) <= slot.max
    BY <1>4, <2>1
  <2> QED  BY <1>2, <2>2, Zenon DEF SlotsHold
<1>11. NoMoreThanPut(Begun, E, slots, entries, 0)
  <2>1. Tokens(<<>>) <= Sum(entries, E, 0)
    BY <1>4, <1>6
  <2>2. \A slot \in slots : Tokens(Picked(<<>>, InSlot(E, slot))) <= Sum(entries, InSlot(E, slot), 0)
    BY <1>4, <1>6
  <2> QED  BY <1>2, <2>1, <2>2, Zenon DEF NoMoreThanPut
<1>12. TotalHolds(Begun, entries, available)
  BY <1>2, <1>4, <1>7 DEF TotalHolds
<1>13. BudgetedSoFar(Begun, slots, entries, 0, available)
  BY <1>2, <1>8, <1>9, <1>10, <1>11, <1>12, Zenon DEF BudgetedSoFar, E
<1> QED  BY <1>3, <1>13 DEF E

LEMMA BudgetedFurther ==
  ASSUME NEW slots, SlotsOf(slots), NEW entries, EntriesInOrder(entries, slots),
         NEW available \in Int, Tokens(Picked(entries, Criticals(EntriesOf(slots)))) <= available,
         NEW i \in 1 .. Len(entries), NEW result \in Results(EntriesOf(slots)),
         BudgetedSoFar(result, slots, entries, i - 1, available)
  PROVE  /\ Place(result, entries[i], available) \in Results(EntriesOf(slots))
         /\ BudgetedSoFar(Place(result, entries[i], available), slots, entries, i, available)
<1> DEFINE new == Place(result, entries[i], available)
<1>1. entries[i] \in EntriesOf(slots)
  BY DEF EntriesInOrder
<1>2. new \in Results(EntriesOf(slots)) /\ PlacesOne(result, entries[i], available, new)
  BY <1>1, PlaceIs
<1> HIDE DEF new
<1>3. BudgetedSoFar(new, slots, entries, i, available)
  <2>1. CASE result.status # "ok"
    <3>1. new = result
      BY <1>2, <2>1, Zenon DEF PlacesOne
    <3> QED  BY <2>1, <3>1, Zenon DEF BudgetedSoFar
  <2>2. CASE result.status = "ok"
    <3>0. PlacesNext(slots, entries, i, available, result)
      BY <2>2, Zenon DEF PlacesNext
    <3>1. CASE Keeps(result, entries[i], available)
      <4>1. new = [status |-> "ok", kept |-> Append(result.kept, entries[i]), omitted |-> result.omitted]
        BY <1>2, <3>1, Zenon DEF PlacesOne
      <4> QED  BY <3>0, <3>1, <4>1, KeepsOn, Zenon
    <3>2. CASE Loses(result, entries[i], available) /\ ~ entries[i].item.negation
      <4>1. new = [status |-> "ok", kept |-> result.kept, omitted |-> Append(result.omitted, entries[i])]
        BY <1>2, <3>2, Zenon DEF PlacesOne
      <4> QED  BY <3>0, <3>2, <4>1, OmitsOn, Zenon
    <3>3. CASE Loses(result, entries[i], available) /\ entries[i].item.negation
      <4>1. new.status # "ok"
        BY <1>2, <3>3, Zenon DEF PlacesOne
      <4>2. NegationLost(EntriesOf(slots), entries, available)
        BY <3>0, <3>3, NegationHasNoRoom, Zenon
      <4> QED  BY <4>1, <4>2, Zenon DEF BudgetedSoFar
    <3> QED  BY <2>2, <3>1, <3>2, <3>3, Zenon DEF Keeps, Loses
  <2> QED  BY <2>1, <2>2
<1> QED  BY <1>2, <1>3 DEF new

(* What placing all entries comes to.                                      *)
LEMMA BudgetedAll ==
  ASSUME NEW slots, SlotsOf(slots), NEW entries, EntriesInOrder(entries, slots),
         NEW available \in Int, Tokens(Picked(entries, Criticals(EntriesOf(slots)))) <= available
  PROVE  /\ Placed(entries, available) \in Results(EntriesOf(slots))
         /\ BudgetedSoFar(Placed(entries, available), slots, entries, Len(entries), available)
<1> DEFINE n == Len(entries)
           E == EntriesOf(slots)
<1>0. entries \in Seq(E)
  BY DEF EntriesInOrder
<1>1. entries \in Seq(E) /\ n \in Nat
  BY <1>0
<1>2. PICK g : PlacesOneByOne(g, entries, available) /\ Placed(entries, available) = g[n]
  BY <1>1, PlacingUnfolds, Zenon
<1> DEFINE Q == {i \in 0 .. n : g[i] \in Results(E) /\ BudgetedSoFar(g[i], slots, entries, i, available)}
<1> HIDE DEF n
<1>3. 0 \in Q
  <2>1. g[0] = Begun
    BY <1>2 DEF PlacesOneByOne
  <2> QED  BY <1>1, <2>1, BudgetBegins
<1>4. ASSUME NEW i \in 1 .. n, i - 1 \in Q
      PROVE  i \in Q
  <2>1. g[i] = Place(g[i - 1], entries[i], available)
    BY <1>2 DEF PlacesOneByOne, n
  <2>2. g[i - 1] \in Results(E) /\ BudgetedSoFar(g[i - 1], slots, entries, i - 1, available)
    BY <1>4
  <2>3. i \in 1 .. Len(entries) /\ i \in 0 .. n
    BY <1>1 DEF n
  <2> HIDE DEF E
  <2>4. g[i] \in Results(E) /\ BudgetedSoFar(g[i], slots, entries, i, available)
    BY <2>1, <2>2, <2>3, BudgetedFurther DEF E
  <2> QED  BY <2>3, <2>4
<1> HIDE DEF Q
<1>5. \A i \in 0 .. n : i \in Q
  BY <1>1, <1>3, <1>4, PrefixInduction
<1>6. n \in Q
  BY <1>1, <1>5
<1> QED  BY <1>2, <1>6 DEF Q, n

(* The slots in order, tier by tier.                                       *)
EarlierSlots(slots) ==
  [b \in slots |-> {a \in slots : a.tier < b.tier \/ (a.tier = b.tier /\ a.ref < b.ref)}]

SlotsListed(order, slots) ==
  /\ order \in [1 .. Cardinality(slots) -> slots] /\ Cardinality(slots) \in Nat
  /\ \A slot \in slots : \E k \in 1 .. Cardinality(slots) : order[k] = slot
  /\ \A j, k \in 1 .. Cardinality(slots) : j < k => order[j].tier <= order[k].tier

LEMMA SlotsAreListed ==
  ASSUME NEW slots, SlotsOf(slots)
  PROVE  SlotsListed(SlotOrder(slots), slots)
<1> DEFINE earlier == EarlierSlots(slots)
           order == SlotOrder(slots)
<1>1. order = RankedBy(slots, earlier)
  BY Zenon DEF SlotOrder, InOrder, EarlierSlots
<1>2. \A x, y \in slots : x \in earlier[y] <=> x.tier < y.tier \/ (x.tier = y.tier /\ x.ref < y.ref)
  BY DEF EarlierSlots
<1>3. /\ IsFiniteSet(slots) /\ \A x \in slots : x.tier \in Int /\ x.ref \in Int
      /\ \A x, y \in slots : x.ref = y.ref => x = y
  BY DEF SlotsOf
<1>4. \A x \in slots : earlier[x] \subseteq slots
  BY DEF EarlierSlots
<1> HIDE DEF earlier, order
<1>5. OrdersSet(slots, earlier)
  <2>1. \A x \in slots : x \notin earlier[x]
    BY <1>2, <1>3
  <2>2. \A x, y, z \in slots : x \in earlier[y] /\ z \in earlier[x] => z \in earlier[y]
    BY <1>2, <1>3
  <2>3. \A x, y \in slots : x # y => x \in earlier[y] \/ y \in earlier[x]
    BY <1>2, <1>3
  <2> QED  BY <1>4, <2>1, <2>2, <2>3 DEF OrdersSet
<1>6. /\ Cardinality(slots) \in Nat /\ order \in [1 .. Cardinality(slots) -> slots]
      /\ \A x \in slots : \E k \in 1 .. Cardinality(slots) : order[k] = x
      /\ \A j, k \in 1 .. Cardinality(slots) : j < k <=> order[j] \in earlier[order[k]]
  BY <1>1, <1>3, <1>5, RankedLists
<1>7. ASSUME NEW j \in 1 .. Cardinality(slots), NEW k \in 1 .. Cardinality(slots), j < k
      PROVE  order[j].tier <= order[k].tier
  <2>1. order[j] \in slots /\ order[k] \in slots /\ order[j] \in earlier[order[k]]
    BY <1>6, <1>7
  <2> QED  BY <1>2, <1>3, <2>1
<1> QED  BY <1>6, <1>7 DEF SlotsListed, order

(* The rows of entries, one for each slot, and the one list they make.     *)
RowsOf(order) ==
  [i \in DOMAIN order |-> [j \in DOMAIN order[i].items |->
                             [slot |-> order[i], item |-> order[i].items[j]]]]

Joined(s, order, i) ==
  /\ \A j, k \in 1 .. Len(s) : j < k => s[j].slot.tier <= s[k].slot.tier
  /\ \A k \in 1 .. Len(s) : \E j \in 1 .. i : s[k].slot = order[j]
  /\ \A j \in 1 .. i : \A m \in DOMAIN order[j].items :
       \E k \in 1 .. Len(s) : s[k].item = order[j].items[m]

LEMMA RowsAre ==
  ASSUME NEW slots, SlotsOf(slots), NEW order, SlotsListed(order, slots)
  PROVE  /\ RowsOf(order) \in Seq(Seq(EntriesOf(slots)))
         /\ Len(RowsOf(order)) = Cardinality(slots)
         /\ \A i \in 1 .. Cardinality(slots) :
              /\ order[i] \in slots /\ order[i].items \in Seq(Items)
              /\ Len(RowsOf(order)[i]) = Len(order[i].items)
              /\ \A j \in 1 .. Len(order[i].items) :
                   RowsOf(order)[i][j] = [slot |-> order[i], item |-> order[i].items[j]]
<1> DEFINE n == Cardinality(slots)
           rows == RowsOf(order)
<1>1. n \in Nat /\ DOMAIN order = 1 .. n /\ \A i \in 1 .. n : order[i] \in slots
  BY DEF SlotsListed
<1>2. ASSUME NEW i \in 1 .. n
      PROVE  /\ order[i] \in slots /\ order[i].items \in Seq(Items)
             /\ rows[i] \in Seq(EntriesOf(slots)) /\ Len(rows[i]) = Len(order[i].items)
             /\ \A j \in 1 .. Len(order[i].items) :
                  rows[i][j] = [slot |-> order[i], item |-> order[i].items[j]]
  <2> DEFINE items == order[i].items
             row == [j \in DOMAIN items |-> [slot |-> order[i], item |-> items[j]]]
  <2>1. rows[i] = row
    BY <1>1 DEF RowsOf
  <2>2. order[i] \in slots /\ items \in Seq(Items)
    BY <1>1 DEF SlotsOf
  <2>3. Len(items) \in Nat /\ DOMAIN items = 1 .. Len(items) /\ \A j \in 1 .. Len(items) : items[j] \in Items
    BY <2>2
  <2>4. \A j \in 1 .. Len(items) : [slot |-> order[i], item |-> items[j]] \in EntriesOf(slots)
    BY <2>2, <2>3 DEF EntriesOf
  <2>5. row \in [1 .. Len(items) -> EntriesOf(slots)]
    BY <2>3, <2>4
  <2>6. row \in Seq(EntriesOf(slots)) /\ Len(row) = Len(items)
    <3> HIDE DEF row
    <3> QED  BY <2>3, <2>5
  <2>7. \A j \in 1 .. Len(items) : row[j] = [slot |-> order[i], item |-> items[j]]
    BY <2>3
  <2> HIDE DEF row
  <2> QED  BY <2>1, <2>2, <2>6, <2>7
<1>3. rows \in [1 .. n -> Seq(EntriesOf(slots))]
  BY <1>1, <1>2 DEF RowsOf
<1> HIDE DEF rows, n
<1>4. rows \in Seq(Seq(EntriesOf(slots))) /\ Len(rows) = n
  BY <1>1, <1>3
<1> QED  BY <1>2, <1>4, Zenon DEF rows, n

LEMMA RowsJoin ==
  ASSUME NEW slots, SlotsOf(slots), NEW order, SlotsListed(order, slots)
  PROVE  /\ FlattenSeq(RowsOf(order)) \in Seq(EntriesOf(slots))
         /\ Joined(FlattenSeq(RowsOf(order)), order, Cardinality(slots))
<1> DEFINE n == Cardinality(slots)
           rows == RowsOf(order)
           E == EntriesOf(slots)
<1>1. n \in Nat /\ \A j, k \in 1 .. n : j < k => order[j].tier <= order[k].tier
  BY DEF SlotsListed
<1>2. /\ rows \in Seq(Seq(E)) /\ Len(rows) = n
      /\ \A i \in 1 .. n :
           /\ order[i] \in slots /\ order[i].items \in Seq(Items)
           /\ Len(rows[i]) = Len(order[i].items)
           /\ \A j \in 1 .. Len(order[i].items) :
                rows[i][j] = [slot |-> order[i], item |-> order[i].items[j]]
  BY RowsAre
<1>3. \A i \in 1 .. n : order[i].tier \in Int
  BY <1>2 DEF SlotsOf
<1>4. \A i \in 1 .. n : rows[i] \in Seq(E)
  BY <1>1, <1>2
<1> HIDE DEF n, rows, E
<1>5. PICK g \in [0 .. Len(rows) -> Seq(E)] : Joins(g, rows) /\ FlattenSeq(rows) = g[Len(rows)]
  BY <1>2, FlattenJoins
<1> DEFINE Q == {i \in 0 .. n : Joined(g[i], order, i)}
<1>6. 0 \in Q
  <2>1. g[0] = <<>> /\ Len(<<>>) = 0 /\ 1 .. 0 = {}
    BY <1>5 DEF Joins
  <2>2. Joined(g[0], order, 0)
    BY <2>1 DEF Joined
  <2> QED  BY <1>1, <2>2
<1>7. ASSUME NEW i \in 1 .. n, i - 1 \in Q
      PROVE  i \in Q
  <2> DEFINE s == g[i - 1]
             t == rows[i]
             all == s \o t
  <2>1. g[i] = all /\ s \in Seq(E) /\ t \in Seq(E) /\ i \in 0 .. n
    <3>1. i \in 1 .. Len(rows) /\ i - 1 \in 0 .. Len(rows)
      BY <1>1, <1>2
    <3>2. g[i] = g[i - 1] \o rows[i]
      BY <1>5, <3>1 DEF Joins
    <3> QED  BY <1>1, <1>4, <1>5, <3>1, <3>2
  <2>2. Joined(s, order, i - 1)
    BY <1>7
  <2>3. \A j \in 1 .. i - 1 : j \in 1 .. n /\ j < i /\ j \in 1 .. i
    BY <1>1
  <2>4. /\ \A j \in 1 .. Len(t) : t[j].slot = order[i] /\ t[j].item = order[i].items[j]
        /\ Len(t) = Len(order[i].items) /\ DOMAIN order[i].items = 1 .. Len(t)
    <3>1. Len(t) = Len(order[i].items) /\ order[i].items \in Seq(Items)
      BY <1>2
    <3>2. \A j \in 1 .. Len(t) : t[j] = [slot |-> order[i], item |-> order[i].items[j]]
      BY <1>2, <3>1
    <3>3. DOMAIN order[i].items = 1 .. Len(t)
      BY <3>1
    <3> HIDE DEF t
    <3>4. \A j \in 1 .. Len(t) : t[j].slot = order[i] /\ t[j].item = order[i].items[j]
      <4> TAKE j \in 1 .. Len(t)
      <4>1. t[j] = [slot |-> order[i], item |-> order[i].items[j]]
        BY <3>2
      <4> QED  BY <4>1
    <3> QED  BY <3>1, <3>3, <3>4
  <2> HIDE DEF s, t, all, Q
  <2>5. PutsAfter(s, t, all)
    BY <2>1, ConcatPuts DEF all
  <2>6. /\ Len(s) \in Nat /\ Len(t) \in Nat /\ Len(all) = Len(s) + Len(t)
        /\ \A j \in 1 .. Len(s) : all[j] = s[j]
        /\ \A j \in 1 .. Len(t) : all[Len(s) + j] = t[j]
    BY <2>5 DEF PutsAfter
  <2>7. \A k \in 1 .. Len(all) : \/ k \in 1 .. Len(s) /\ all[k] = s[k]
                                 \/ k > Len(s) /\ all[k].slot = order[i]
    <3> TAKE k \in 1 .. Len(all)
    <3>1. CASE k <= Len(s)
      <4>1. k \in 1 .. Len(s)
        BY <2>6, <3>1
      <4> QED  BY <2>6, <4>1
    <3>2. CASE ~ (k <= Len(s))
      <4>1. k - Len(s) \in 1 .. Len(t) /\ Len(s) + (k - Len(s)) = k /\ k > Len(s)
        BY <2>6, <3>2
      <4>2. all[Len(s) + (k - Len(s))] = t[k - Len(s)]
        BY <2>6, <4>1
      <4> QED  BY <2>4, <4>1, <4>2
    <3> QED  BY <3>1, <3>2
  <2>8. \A k \in 1 .. Len(s) : \E j \in 1 .. i - 1 : s[k].slot = order[j]
    BY <2>2 DEF Joined
  <2>9. \A j, k \in 1 .. Len(all) : j < k => all[j].slot.tier <= all[k].slot.tier
    <3> SUFFICES ASSUME NEW j \in 1 .. Len(all), NEW k \in 1 .. Len(all), j < k
                 PROVE  all[j].slot.tier <= all[k].slot.tier
      OBVIOUS
    <3>1. CASE j \in 1 .. Len(s) /\ k \in 1 .. Len(s)
      BY <2>2, <2>6, <3>1 DEF Joined
    <3>2. CASE j \in 1 .. Len(s) /\ k \notin 1 .. Len(s)
      <4>1. all[k].slot = order[i] /\ all[j] = s[j]
        BY <2>6, <2>7, <3>2
      <4>2. PICK m \in 1 .. i - 1 : s[j].slot = order[m]
        BY <2>8, <3>2
      <4>3. order[m].tier <= order[i].tier
        BY <1>1, <2>3, <4>2
      <4> QED  BY <4>1, <4>2, <4>3
    <3>3. CASE j \notin 1 .. Len(s)
      <4>1. k \notin 1 .. Len(s)
        BY <2>6, <3>3
      <4>2. all[j].slot = order[i] /\ all[k].slot = order[i]
        BY <2>7, <3>3, <4>1
      <4> QED  BY <1>3, <4>2
    <3> QED  BY <3>1, <3>2, <3>3
  <2>10. \A k \in 1 .. Len(all) : \E j \in 1 .. i : all[k].slot = order[j]
    <3> TAKE k \in 1 .. Len(all)
    <3>1. CASE k \in 1 .. Len(s) /\ all[k] = s[k]
      BY <2>3, <2>8, <3>1
    <3>2. CASE all[k].slot = order[i]
      <4>1. i \in 1 .. i
        BY <1>1
      <4> QED  BY <3>2, <4>1
    <3> QED  BY <2>7, <3>1, <3>2
  <2>11. ASSUME NEW j \in 1 .. i, NEW m \in DOMAIN order[j].items
         PROVE  \E k \in 1 .. Len(all) : all[k].item = order[j].items[m]
    <3>1. CASE j = i
      <4>1. m \in 1 .. Len(t) /\ t[m].item = order[i].items[m]
        BY <2>4, <3>1
      <4>2. Len(s) + m \in 1 .. Len(all) /\ all[Len(s) + m] = t[m]
        BY <2>6, <4>1
      <4> QED  BY <3>1, <4>1, <4>2
    <3>2. CASE j # i
      <4>1. j \in 1 .. i - 1
        BY <1>1, <3>2
      <4>2. PICK k \in 1 .. Len(s) : s[k].item = order[j].items[m]
        BY <2>2, <2>11, <4>1 DEF Joined
      <4>3. k \in 1 .. Len(all) /\ all[k] = s[k]
        BY <2>6
      <4> QED  BY <4>2, <4>3
    <3> QED  BY <3>1, <3>2
  <2>12. Joined(all, order, i)
    BY <2>9, <2>10, <2>11 DEF Joined
  <2> QED  BY <2>1, <2>12 DEF Q
<1> HIDE DEF Q
<1>8. \A i \in 0 .. n : i \in Q
  BY <1>1, <1>6, <1>7, PrefixInduction
<1>9. n \in Q /\ g[n] \in Seq(E)
  BY <1>1, <1>2, <1>5, <1>8
<1> QED  BY <1>2, <1>5, <1>9 DEF Q, n, rows, E

(* An item counts where it comes first.                                    *)
Seen(seen, entry) ==
  IF \E i \in DOMAIN seen : seen[i].item.ref = entry.item.ref THEN seen ELSE Append(seen, entry)

SeenFirst(all) == FoldLeft(LAMBDA seen, entry : Seen(seen, entry), <<>>, all)

SeesOneByOne(g, all) ==
  g[0] = <<>> /\ \A i \in 1 .. Len(all) : g[i] = Seen(g[i - 1], all[i])

LEMMA SeeingUnfolds ==
  ASSUME NEW T, NEW all \in Seq(T)
  PROVE  \E g : SeesOneByOne(g, all) /\ SeenFirst(all) = g[Len(all)]
<1> DEFINE n == Len(all)
           step == [i \in 1 .. n |-> [seen \in Seq(T) |-> Seen(seen, all[i])]]
           Is(iter) == iter = [s \in SUBSET (1 .. n) |->
                         IF s = {} THEN <<>> ELSE Seen(iter[s \ {Max(s)}], all[Max(s)])]
           iter == CHOOSE iter : Is(iter)
           g == [i \in 0 .. n |-> iter[1 .. i]]
<1>1. n \in Nat /\ DOMAIN all = 1 .. n /\ \A i \in 1 .. n : all[i] \in T
  OBVIOUS
<1>2. SeenFirst(all) = iter[1 .. n]
  BY <1>1, Zenon DEF SeenFirst, FoldLeft, MapThenFoldSet
<1>3. <<>> \in Seq(T) /\ \A seen \in Seq(T), x \in T : Seen(seen, x) \in Seq(T)
  BY DEF Seen
<1> HIDE DEF n
<1>4. PICK F \in [SUBSET (1 .. n) -> Seq(T)] : FoldsBy(F, n, <<>>, step)
  <2>1. step \in [1 .. n -> [Seq(T) -> Seq(T)]]
    BY <1>1, <1>3
  <2> HIDE DEF step
  <2> QED  BY <1>1, <1>3, <2>1, FoldExists DEF Foldable
<1>5. Is(iter)
  <2>1. \A s \in SUBSET (1 .. n) : s # {} => Max(s) \in 1 .. n /\ s \ {Max(s)} \in SUBSET (1 .. n)
    BY <1>1, GreatestPlace
  <2>2. \A s \in SUBSET (1 .. n) :
          F[s] = IF s = {} THEN <<>> ELSE Seen(F[s \ {Max(s)}], all[Max(s)])
    BY <1>4, <2>1 DEF FoldsBy
  <2>3. Is(F)
    BY <2>2
  <2> HIDE DEF Is
  <2> QED  BY <2>3
<1>6. \A s \in SUBSET (1 .. n) :
        iter[s] = IF s = {} THEN <<>> ELSE Seen(iter[s \ {Max(s)}], all[Max(s)])
  <2> HIDE DEF iter
  <2> QED  BY <1>5
<1> HIDE DEF iter
<1>7. g[0] = <<>> /\ \A i \in 1 .. n : g[i] = Seen(g[i - 1], all[i])
  <2>1. PassedPlaces(n)
    BY <1>1, PlacesPassed
  <2>2. iter[{}] = <<>>
    BY <1>6
  <2>3. \A i \in 1 .. n : iter[1 .. i] = Seen(iter[1 .. (i - 1)], all[i])
    BY <1>6, <2>1 DEF PassedPlaces
  <2>4. \A i \in 1 .. n : g[i] = iter[1 .. i] /\ g[i - 1] = iter[1 .. (i - 1)]
    BY <1>1
  <2>5. g[0] = iter[{}]
    BY <1>1, <2>1 DEF PassedPlaces
  <2> QED  BY <2>2, <2>3, <2>4, <2>5
<1>8. g[n] = iter[1 .. n]
  BY <1>1
<1> HIDE DEF g
<1>9. SeesOneByOne(g, all)
  BY <1>7 DEF SeesOneByOne, n
<1> QED  BY <1>2, <1>8, <1>9 DEF n

SeenSoFar(seen, all, i) ==
  /\ \A j, k \in 1 .. Len(seen) :
       j < k => /\ seen[j].item.ref # seen[k].item.ref
                /\ seen[j].slot.tier <= seen[k].slot.tier
  /\ \A k \in 1 .. Len(seen) : \E j \in 1 .. i : seen[k] = all[j]
  /\ \A j \in 1 .. i : \E k \in 1 .. Len(seen) : seen[k].item.ref = all[j].item.ref

LEMMA SeenFurther ==
  ASSUME NEW T, NEW all \in Seq(T), NEW i \in 1 .. Len(all), NEW seen \in Seq(T),
         \A j, k \in 1 .. Len(all) : j < k => all[j].slot.tier <= all[k].slot.tier,
         SeenSoFar(seen, all, i - 1)
  PROVE  Seen(seen, all[i]) \in Seq(T) /\ SeenSoFar(Seen(seen, all[i]), all, i)
<1> DEFINE x == all[i]
           more == Append(seen, x)
<1>1. /\ x \in T /\ DOMAIN seen = 1 .. Len(seen) /\ Len(seen) \in Nat /\ Len(all) \in Nat
      /\ i \in Nat /\ i # 0 /\ i \in 1 .. i
      /\ \A j \in 1 .. i - 1 : j \in 1 .. i /\ j \in 1 .. Len(all) /\ j < i
      /\ \A j \in 1 .. i : j \in 1 .. i - 1 \/ j = i
  OBVIOUS
<1>2. /\ more \in Seq(T) /\ Len(more) = Len(seen) + 1 /\ more[Len(seen) + 1] = x
      /\ \A j \in 1 .. Len(seen) : more[j] = seen[j]
  BY <1>1, AppendPuts
<1>3. /\ \A j, k \in 1 .. Len(seen) :
           j < k => /\ seen[j].item.ref # seen[k].item.ref
                    /\ seen[j].slot.tier <= seen[k].slot.tier
      /\ \A k \in 1 .. Len(seen) : \E j \in 1 .. i - 1 : seen[k] = all[j]
      /\ \A j \in 1 .. i - 1 : \E k \in 1 .. Len(seen) : seen[k].item.ref = all[j].item.ref
  BY DEF SeenSoFar
<1>4. \A k \in 1 .. Len(seen) : seen[k].slot.tier <= x.slot.tier
  <2> TAKE k \in 1 .. Len(seen)
  <2>1. PICK j \in 1 .. i - 1 : seen[k] = all[j]
    BY <1>3
  <2>2. j \in 1 .. Len(all) /\ j < i
    BY <1>1
  <2> QED  BY <2>1, <2>2
<1>x. all[i] = x
  OBVIOUS
<1> HIDE DEF x, more
<1>5. CASE \E k \in DOMAIN seen : seen[k].item.ref = x.item.ref
  <2>1. Seen(seen, all[i]) = seen
    BY <1>5, <1>x, Zenon DEF Seen
  <2>2. SeenSoFar(seen, all, i)
    <3>1. \A k \in 1 .. Len(seen) : \E j \in 1 .. i : seen[k] = all[j]
      BY <1>1, <1>3
    <3>2. \A j \in 1 .. i : \E k \in 1 .. Len(seen) : seen[k].item.ref = all[j].item.ref
      BY <1>1, <1>3, <1>5, <1>x
    <3> QED  BY <1>3, <3>1, <3>2, Zenon DEF SeenSoFar
  <2> QED  BY <2>1, <2>2
<1>6. CASE ~ \E k \in DOMAIN seen : seen[k].item.ref = x.item.ref
  <2>1. Seen(seen, all[i]) = more
    BY <1>6, <1>x, Zenon DEF Seen, more
  <2>2. \A k \in 1 .. Len(more) : k \in 1 .. Len(seen) \/ k = Len(seen) + 1
    BY <1>1, <1>2
  <2>3. ASSUME NEW j \in 1 .. Len(more), NEW k \in 1 .. Len(more), j < k
        PROVE  more[j].item.ref # more[k].item.ref /\ more[j].slot.tier <= more[k].slot.tier
    <3>1. j \in 1 .. Len(seen)
      BY <1>1, <1>2, <2>3
    <3>2. CASE k \in 1 .. Len(seen)
      <4>1. more[j] = seen[j] /\ more[k] = seen[k]
        BY <1>2, <3>1, <3>2
      <4>2. seen[j].item.ref # seen[k].item.ref /\ seen[j].slot.tier <= seen[k].slot.tier
        BY <1>3, <2>3, <3>1, <3>2, Zenon
      <4> QED  BY <4>1, <4>2, Zenon
    <3>3. CASE k = Len(seen) + 1
      BY <1>1, <1>2, <1>4, <1>6, <3>1, <3>3
    <3> QED  BY <2>2, <3>2, <3>3
  <2>4. \A k \in 1 .. Len(more) : \E j \in 1 .. i : more[k] = all[j]
    <3> TAKE k \in 1 .. Len(more)
    <3>1. CASE k \in 1 .. Len(seen)
      <4>1. PICK j \in 1 .. i - 1 : seen[k] = all[j]
        BY <1>3, <3>1, Zenon
      <4>2. more[k] = seen[k] /\ j \in 1 .. i
        BY <1>1, <1>2, <3>1, Zenon
      <4> QED  BY <4>1, <4>2, Zenon
    <3>2. CASE k = Len(seen) + 1
      BY <1>1, <1>2, <1>x, <3>2
    <3> QED  BY <2>2, <3>1, <3>2
  <2>5. \A j \in 1 .. i : \E k \in 1 .. Len(more) : more[k].item.ref = all[j].item.ref
    <3> TAKE j \in 1 .. i
    <3>0. Len(seen) + 1 \in 1 .. Len(more) /\ \A k \in 1 .. Len(seen) : k \in 1 .. Len(more)
      BY <1>1, <1>2
    <3>1. CASE j \in 1 .. i - 1
      <4>1. PICK k \in 1 .. Len(seen) : seen[k].item.ref = all[j].item.ref
        BY <1>3, <3>1
      <4> QED  BY <1>2, <3>0, <4>1
    <3>2. CASE j = i
      BY <1>2, <1>x, <3>0, <3>2
    <3> QED  BY <1>1, <3>1, <3>2
  <2>6. SeenSoFar(more, all, i)
    BY <2>3, <2>4, <2>5, Zenon DEF SeenSoFar
  <2> QED  BY <1>2, <2>1, <2>6
<1> QED  BY <1>5, <1>6

(* The entries of slots come in order, each item where it comes first.     *)
LEMMA EntriesComeInOrder ==
  ASSUME NEW slots, SlotsOf(slots)
  PROVE  /\ EntriesInOrder(Entries(slots), slots)
         /\ \A slot \in slots : \A m \in DOMAIN slot.items :
              \E k \in 1 .. Len(Entries(slots)) : Entries(slots)[k].item.ref = slot.items[m].ref
<1> DEFINE order == SlotOrder(slots)
           all == FlattenSeq(RowsOf(order))
           n == Len(all)
           E == EntriesOf(slots)
<1>1. SlotsListed(order, slots)
  BY SlotsAreListed
<1>2. Entries(slots) = SeenFirst(all)
  BY Zenon DEF Entries, SeenFirst, Seen, RowsOf
<1> HIDE DEF order
<1>3. all \in Seq(E) /\ Joined(all, order, Cardinality(slots))
  BY <1>1, RowsJoin
<1> HIDE DEF all, E
<1>4. n \in Nat /\ <<>> \in Seq(E) /\ Len(<<>>) = 0
  BY <1>3
<1>5. PICK g : SeesOneByOne(g, all) /\ SeenFirst(all) = g[n]
  BY <1>3, SeeingUnfolds
<1> DEFINE Q == {i \in 0 .. n : g[i] \in Seq(E) /\ SeenSoFar(g[i], all, i)}
<1>6. 0 \in Q
  <2>1. g[0] = <<>> /\ 1 .. 0 = {}
    BY <1>5 DEF SeesOneByOne
  <2>2. SeenSoFar(<<>>, all, 0)
    BY <1>4, <2>1 DEF SeenSoFar
  <2>3. g[0] \in Seq(E) /\ SeenSoFar(g[0], all, 0)
    BY <1>4, <2>1, <2>2, Zenon
  <2>4. 0 \in 0 .. n
    BY <1>4
  <2> QED  BY <2>3, <2>4, Zenon
<1>7. ASSUME NEW i \in 1 .. n, i - 1 \in Q
      PROVE  i \in Q
  <2>1. g[i] = Seen(g[i - 1], all[i])
    BY <1>5 DEF SeesOneByOne
  <2>2. g[i - 1] \in Seq(E) /\ SeenSoFar(g[i - 1], all, i - 1)
    BY <1>7
  <2>3. \A j, k \in 1 .. Len(all) : j < k => all[j].slot.tier <= all[k].slot.tier
    BY <1>3 DEF Joined
  <2> HIDE DEF Q
  <2>4. g[i] \in Seq(E) /\ SeenSoFar(g[i], all, i)
    BY <1>3, <2>1, <2>2, <2>3, SeenFurther
  <2>5. i \in 0 .. n
    BY <1>4
  <2> QED  BY <2>4, <2>5 DEF Q
<1> HIDE DEF Q, n
<1>8. \A i \in 0 .. n : i \in Q
  BY <1>4, <1>6, <1>7, PrefixInduction
<1>9. g[n] \in Seq(E) /\ SeenSoFar(g[n], all, n)
  BY <1>4, <1>8 DEF Q
<1>10. EntriesInOrder(g[n], slots)
  BY <1>9 DEF EntriesInOrder, SeenSoFar, E
<1>11. ASSUME NEW slot \in slots, NEW m \in DOMAIN slot.items
       PROVE  \E k \in 1 .. Len(g[n]) : g[n][k].item.ref = slot.items[m].ref
  <2>1. PICK j \in 1 .. Cardinality(slots) : order[j] = slot
    BY <1>1 DEF SlotsListed
  <2>2. PICK k \in 1 .. Len(all) : all[k].item = slot.items[m]
    BY <1>3, <1>11, <2>1 DEF Joined
  <2>3. k \in 1 .. n
    BY DEF n
  <2> QED  BY <1>9, <2>2, <2>3 DEF SeenSoFar
<1> QED  BY <1>2, <1>5, <1>10, <1>11

(* What a budget comes to: refused at once, or its entries placed.         *)
Refuses(slots, available, result) ==
  /\ result.status = "critical_slots_exceed_budget"
  /\ Tokens(CriticalOf(Entries(slots))) > available

Settles(slots, available, result) ==
  /\ result \in Results(EntriesOf(slots))
  /\ BudgetedSoFar(result, slots, Entries(slots), Len(Entries(slots)), available)

LEMMA BudgetIs ==
  ASSUME NEW slots, SlotsOf(slots), NEW available \in Int
  PROVE  \/ Refuses(slots, available, Budget(slots, available))
         \/ Settles(slots, available, Budget(slots, available))
<1> DEFINE E == EntriesOf(slots)
           entries == Entries(slots)
           refused == [status |-> "critical_slots_exceed_budget", kept |-> <<>>, omitted |-> <<>>]
<1>1. EntriesInOrder(entries, slots) /\ entries \in Seq(E) /\ Weighed(E)
  BY EntriesComeInOrder, EntriesWeighed DEF EntriesInOrder
<1>2. Budget(slots, available) = IF Tokens(CriticalOf(entries)) > available THEN refused
                                 ELSE Placed(entries, available)
  BY Zenon DEF Budget, Placed
<1>3. refused.status = "critical_slots_exceed_budget"
  OBVIOUS
<1> HIDE DEF entries, refused, E
<1>4. CriticalOf(entries) = Picked(entries, Criticals(E))
  BY <1>1, FiltersPick
<1>5. Tokens(CriticalOf(entries)) \in Nat
  <2>1. CriticalOf(entries) \in Seq(E)
    <3>1. {i \in DOMAIN entries : entries[i] \in Criticals(E)} \in SUBSET (1 .. Len(entries))
      BY <1>1
    <3> QED  BY <1>1, <1>4, <3>1, SubSeqAtIs DEF Picked
  <2>2. PICK g : /\ Tokens(CriticalOf(entries)) = g[Len(CriticalOf(entries))]
                 /\ \A i \in 0 .. Len(CriticalOf(entries)) : g[i] \in Nat
    BY <1>1, <2>1, TokensUnfold
  <2>3. Len(CriticalOf(entries)) \in 0 .. Len(CriticalOf(entries))
    BY <2>1
  <2> QED  BY <2>2, <2>3
<1>6. CASE Tokens(CriticalOf(entries)) > available
  <2>1. Budget(slots, available) = refused
    BY <1>2, <1>6, Zenon
  <2> QED  BY <1>3, <1>6, <2>1, Zenon DEF Refuses, entries
<1>7. CASE ~ (Tokens(CriticalOf(entries)) > available)
  <2>1. Budget(slots, available) = Placed(entries, available)
    BY <1>2, <1>7, Zenon
  <2>2. Tokens(Picked(entries, Criticals(EntriesOf(slots)))) <= available
    BY <1>4, <1>5, <1>7 DEF E
  <2>3. /\ Placed(entries, available) \in Results(EntriesOf(slots))
        /\ BudgetedSoFar(Placed(entries, available), slots, entries, Len(entries), available)
    BY <1>1, <2>2, BudgetedAll, Zenon
  <2> QED  BY <2>1, <2>3, Zenon DEF Settles, entries
<1> QED  BY <1>6, <1>7

LEMMA EntriesCount ==
  ASSUME NEW slots, NEW entries, EntriesInOrder(entries, slots)
  PROVE  /\ Cardinality(ToSet(entries)) = Len(entries)
         /\ ToSet(entries) = {entries[j] : j \in 1 .. Len(entries)}
         /\ \A x, y \in ToSet(entries) : x.item.ref = y.item.ref => x = y
<1> DEFINE n == Len(entries)
<1>0. entries \in Seq(EntriesOf(slots))
  BY DEF EntriesInOrder
<1>1. n \in Nat /\ DOMAIN entries = 1 .. n
  BY <1>0
<1>2. \A j, k \in 1 .. n : j < k => entries[j].item.ref # entries[k].item.ref
  BY DEF EntriesInOrder
<1> HIDE DEF n
<1>3. ToSet(entries) = {entries[j] : j \in 1 .. n}
  BY <1>1 DEF ToSet
<1>4. \A j, k \in 1 .. n : entries[j].item.ref = entries[k].item.ref => j = k
  BY <1>1, <1>2
<1>5. entries \in Bijection(1 .. n, ToSet(entries))
  <2>1. entries \in [1 .. n -> ToSet(entries)]
    BY <1>0, <1>1, <1>3
  <2>2. \A x \in ToSet(entries) : \E j \in 1 .. n : entries[j] = x
    BY <1>3
  <2>3. \A j, k \in 1 .. n : entries[j] = entries[k] => j = k
    BY <1>4
  <2> QED  BY <2>1, <2>2, <2>3 DEF Bijection, Injection, Surjection, IsInjective
<1>6. Cardinality(ToSet(entries)) = n
  BY <1>1, <1>5, FS_CountingElements DEF ExistsBijection
<1>7. \A x, y \in ToSet(entries) : x.item.ref = y.item.ref => x = y
  BY <1>3, <1>4, Zenon
<1> QED  BY <1>3, <1>6, <1>7 DEF n

(* For any slots that are told apart by their refs and any budget: every   *)
(* item is accounted for once, what is omitted may be and has no room, and *)
(* a failure has a reason.                                                 *)
THEOREM BudgetAlwaysKeepsWhatMatters ==
  ASSUME NEW slots, SlotsOf(slots), NEW available \in Int
  PROVE  BudgetKeepsWhatMatters(slots, available)
<1> DEFINE E == EntriesOf(slots)
           entries == Entries(slots)
           result == Budget(slots, available)
<1>1. EntriesInOrder(entries, slots) /\ entries \in Seq(E)
  BY EntriesComeInOrder DEF EntriesInOrder
<1>2. /\ Cardinality(ToSet(entries)) = Len(entries)
      /\ ToSet(entries) = {entries[j] : j \in 1 .. Len(entries)}
  BY <1>1, EntriesCount
<1>3. Refuses(slots, available, result) \/ Settles(slots, available, result)
  BY BudgetIs
<1> DEFINE Whole == LET kept == ToSet(result.kept)
                        omitted == ToSet(result.omitted) IN
             /\ kept \union omitted = ToSet(entries)
             /\ kept \intersect omitted = {}
             /\ Len(result.kept) + Len(result.omitted) = Cardinality(ToSet(entries))
           Justified == \A entry \in ToSet(result.omitted) :
             /\ ~ Critical(entry.slot)
             /\ ~ entry.item.negation
             /\ ~ Fits(entry, Filter(result.kept, LAMBDA e :
                                  e.slot.tier <= entry.slot.tier), available)
           Measured == \A slot \in slots :
              ~ Critical(slot) => Tokens(OfSlot(result.kept, slot)) <= slot.max
           Refused == Tokens(CriticalOf(entries)) > available
           Lost == \E entry \in ToSet(entries) :
             /\ entry.item.negation
             /\ ~ Critical(entry.slot)
             /\ \/ entry.item.tokens > entry.slot.max
                \/ Tokens(entries) > available
                \/ Tokens(OfSlot(entries, entry.slot)) > entry.slot.max
<1>4. BudgetKeepsWhatMatters(slots, available) <=>
        CASE result.status = "ok" -> Whole /\ Justified /\ Measured
          [] result.status = "critical_slots_exceed_budget" -> Refused
          [] OTHER -> Lost
  BY Zenon DEF BudgetKeepsWhatMatters
<1>s. "ok" # "critical_slots_exceed_budget"
      /\ "critical_negation_would_be_truncated" # "critical_slots_exceed_budget"
  OBVIOUS
<1> HIDE DEF result, entries, E
<1>5. CASE Refuses(slots, available, result)
  <2>1. result.status = "critical_slots_exceed_budget" /\ Refused
    BY <1>5, Zenon DEF Refuses, entries
  <2> HIDE DEF Whole, Justified, Measured, Refused, Lost
  <2> QED  BY <1>4, <1>s, <2>1, Zenon
<1>6. CASE Settles(slots, available, result)
  <2>0. /\ result \in Results(E)
        /\ BudgetedSoFar(result, slots, entries, Len(entries), available)
    BY <1>6, Zenon DEF Settles, entries, E
  <2>1. CASE result.status = "ok"
    <3>1. /\ AllAccounted(result, entries, Len(entries)) /\ OmittedWithReason(result, E, available)
          /\ SlotsHold(result, E, slots)
      BY <2>0, <2>1, Zenon DEF BudgetedSoFar, E
    <3>2. result.kept \in Seq(E)
      BY <2>0 DEF Results
    <3>3. Whole
      BY <1>2, <3>1, Zenon DEF AllAccounted
    <3>4. Justified
      <4> SUFFICES ASSUME NEW y \in ToSet(result.omitted)
                   PROVE  /\ ~ Critical(y.slot) /\ ~ y.item.negation
                          /\ ~ Fits(y, Filter(result.kept, LAMBDA e : e.slot.tier <= y.slot.tier),
                                    available)
        BY Zenon
      <4>1. Omissible(E, y, result.kept, available)
        BY <3>1, Zenon DEF OmittedWithReason
      <4>2. Filter(result.kept, LAMBDA e : e.slot.tier <= y.slot.tier)
              = Picked(result.kept, UpToTier(E, y.slot.tier))
        BY <3>2, FiltersPick, Zenon
      <4> QED  BY <4>1, <4>2, Zenon DEF Omissible
    <3>5. Measured
      <4>1. \A slot : OfSlot(result.kept, slot) = Picked(result.kept, InSlot(E, slot))
        BY <3>2, FiltersPick, Zenon
      <4> QED  BY <3>1, <4>1, Zenon DEF SlotsHold
    <3> HIDE DEF Whole, Justified, Measured, Refused, Lost
    <3> QED  BY <1>4, <1>s, <2>1, <3>3, <3>4, <3>5, Zenon
  <2>2. CASE result.status # "ok"
    <3>1. NegationLost(E, entries, available)
      BY <2>0, <2>2, Zenon DEF BudgetedSoFar, E
    <3>2. result.status = "critical_negation_would_be_truncated"
      BY <2>0, <2>2 DEF Results
    <3>3. Lost
      <4>1. PICK j \in 1 .. Len(entries) :
              /\ entries[j].item.negation /\ ~ Critical(entries[j].slot)
              /\ \/ Tokens(entries) > available
                 \/ Tokens(Picked(entries, InSlot(E, entries[j].slot))) > entries[j].slot.max
        BY <3>1, Zenon DEF NegationLost
      <4>2. entries[j] \in ToSet(entries)
        BY <1>2
      <4>3. OfSlot(entries, entries[j].slot) = Picked(entries, InSlot(E, entries[j].slot))
        BY <1>1, FiltersPick, Zenon
      <4> QED  BY <4>1, <4>2, <4>3, Zenon
    <3> HIDE DEF Whole, Justified, Measured, Refused, Lost
    <3> QED  BY <1>4, <1>s, <2>2, <3>2, <3>3, Zenon
  <2> QED  BY <2>1, <2>2
<1> QED  BY <1>3, <1>5, <1>6

(* What a context is built from.                                           *)
ManifestInputOf(input) ==
  /\ IsFiniteSet(input.sources)
  /\ \A source \in input.sources : source.ref \in Int /\ source.tokens \in Nat
  /\ \A one, other \in input.sources : one.ref = other.ref => one = other
  /\ input.max_snippets \in Nat /\ input.max_tokens \in Nat /\ input.reserve \in Int

EarlierSources(S) ==
  [b \in S |-> {a \in S : \/ TierOf(a.trust) < TierOf(b.trust)
                          \/ TierOf(a.trust) = TierOf(b.trust) /\ a.ref < b.ref}]

(* What is selected of S: the first max in order.                          *)
SelectedOf(selected, S, max) ==
  /\ selected \in Seq(S) /\ Len(selected) \in Nat /\ Len(selected) <= max
  /\ \A j, k \in 1 .. Len(selected) : selected[j] = selected[k] => j = k
  /\ \A x \in S : (\A k \in 1 .. Len(selected) : selected[k] # x) =>
       /\ Len(selected) = max
       /\ \A k \in 1 .. Len(selected) : TierOf(selected[k].trust) <= TierOf(x.trust)

LEMMA TiersAre ==
  ASSUME NEW trust
  PROVE  TierOf(trust) \in Nat /\ (TierOf(trust) = 0 <=> trust = "tier0")
<1>1. TierOf(trust) = IF trust = "tier0" THEN 0 ELSE IF trust = "high" THEN 1
                      ELSE IF trust = "medium" THEN 2 ELSE 4
  BY DEF TierOf
<1> QED  BY <1>1

LEMMA SourcesSelected ==
  ASSUME NEW sources, IsFiniteSet(sources), \A source \in sources : source.ref \in Int,
         \A one, other \in sources : one.ref = other.ref => one = other,
         NEW principal, NEW max \in Nat
  PROVE  SelectedOf(Selected(sources, principal, max), Permitted(sources, principal), max)
<1> DEFINE S == Permitted(sources, principal)
           earlier == EarlierSources(S)
           order == RankedBy(S, earlier)
           n == Cardinality(S)
           m == IF n < max THEN n ELSE max
           selected == Selected(sources, principal, max)
<1>1. S \subseteq sources
  BY DEF Permitted
<1>2. selected = SubSeq(order, 1, IF Len(order) < max THEN Len(order) ELSE max)
  BY Zenon DEF Selected, FirstN, InOrder, EarlierSources
<1>3. \A x, y \in S : x \in earlier[y] <=> \/ TierOf(x.trust) < TierOf(y.trust)
                                           \/ TierOf(x.trust) = TierOf(y.trust) /\ x.ref < y.ref
  BY DEF EarlierSources
<1>4. /\ IsFiniteSet(S) /\ \A x \in S : TierOf(x.trust) \in Int /\ x.ref \in Int
      /\ \A x, y \in S : x.ref = y.ref => x = y
  <2>1. IsFiniteSet(S)
    BY <1>1, FS_Subset
  <2>2. \A x \in S : TierOf(x.trust) \in Int
    BY TiersAre
  <2> QED  BY <1>1, <2>1, <2>2
<1>5. \A x \in S : earlier[x] \subseteq S
  BY DEF EarlierSources
<1> HIDE DEF S, earlier
<1>6. OrdersSet(S, earlier)
  <2>1. \A x \in S : x \notin earlier[x]
    BY <1>3, <1>4
  <2>2. \A x, y, z \in S : x \in earlier[y] /\ z \in earlier[x] => z \in earlier[y]
    BY <1>3, <1>4
  <2>3. \A x, y \in S : x # y => x \in earlier[y] \/ y \in earlier[x]
    BY <1>3, <1>4
  <2> QED  BY <1>5, <2>1, <2>2, <2>3 DEF OrdersSet
<1>7. /\ n \in Nat /\ order \in [1 .. n -> S]
      /\ \A x \in S : \E k \in 1 .. n : order[k] = x
      /\ \A j, k \in 1 .. n : j < k <=> order[j] \in earlier[order[k]]
  BY <1>4, <1>6, RankedLists
<1> HIDE DEF order, n, selected
<1>8. order \in Seq(S) /\ Len(order) = n
  BY <1>7
<1>9. m \in Nat /\ m <= n /\ m <= max /\ (m < n => m = max) /\ \A k \in 1 .. m : k \in 1 .. n
  BY <1>7
<1>10. selected = SubSeq(order, 1, m)
  BY <1>2, <1>8
<1> HIDE DEF m
<1>11. selected \in Seq(S) /\ Len(selected) = m /\ \A k \in 1 .. m : selected[k] = order[k]
  BY <1>8, <1>9, <1>10
<1>12. \A j, k \in 1 .. n : order[j] = order[k] => j = k
  <2> SUFFICES ASSUME NEW j \in 1 .. n, NEW k \in 1 .. n, order[j] = order[k]
               PROVE  j = k
    OBVIOUS
  <2>1. order[j] \notin earlier[order[j]]
    BY <1>6, <1>7 DEF OrdersSet
  <2>2. ~ (j < k) /\ ~ (k < j)
    BY <1>7, <2>1
  <2> QED  BY <2>2
<1>13. \A j, k \in 1 .. m : selected[j] = selected[k] => j = k
  BY <1>9, <1>11, <1>12
<1>14. ASSUME NEW x \in S, \A k \in 1 .. m : selected[k] # x
       PROVE  m = max /\ \A k \in 1 .. m : TierOf(selected[k].trust) <= TierOf(x.trust)
  <2>1. PICK p \in 1 .. n : order[p] = x
    BY <1>7
  <2>2. p \notin 1 .. m
    BY <1>11, <1>14, <2>1
  <2>3. p > m
    BY <1>9, <2>2
  <2>4. m = max
    BY <1>7, <1>9, <2>3
  <2>5. ASSUME NEW k \in 1 .. m
        PROVE  TierOf(selected[k].trust) <= TierOf(x.trust)
    <3>1. k \in 1 .. n /\ k < p
      BY <1>9, <2>3
    <3>2. order[k] \in S /\ order[k] \in earlier[x]
      BY <1>7, <2>1, <3>1
    <3>3. TierOf(order[k].trust) <= TierOf(x.trust)
      BY <1>3, <1>4, <3>2
    <3> QED  BY <1>11, <3>3
  <2> QED  BY <2>4, <2>5
<1> QED  BY <1>9, <1>11, <1>13, <1>14, Zenon DEF SelectedOf, S, selected

(* The slots that are made of what was selected.                           *)
SlotsFrom(selected, max_tokens) == {SlotOf(selected[i], max_tokens) : i \in DOMAIN selected}

SlotShape(slot, source, max_tokens) ==
  /\ slot.ref = source.ref /\ slot.tier = TierOf(source.trust) /\ slot.max = max_tokens
  /\ Critical(slot) <=> slot.tier = 0
  /\ slot.items \in Seq(Items) /\ DOMAIN slot.items = {1} /\ slot.items[1].ref = source.ref

LEMMA SlotIs ==
  ASSUME NEW source, source.ref \in Int, source.tokens \in Nat, NEW max_tokens
  PROVE  SlotShape(SlotOf(source, max_tokens), source, max_tokens)
<1> DEFINE slot == SlotOf(source, max_tokens)
           item == [ref |-> source.ref, tokens |-> source.tokens, negation |-> FALSE]
<1>1. slot = [ref |-> source.ref, tier |-> TierOf(source.trust), max |-> max_tokens,
              critical |-> TierOf(source.trust) = 0, items |-> <<item>>]
  BY Zenon DEF SlotOf
<1>2. item \in Items /\ item.ref = source.ref
  BY DEF Items
<1> HIDE DEF item, slot
<1>3. <<item>> \in Seq(Items) /\ DOMAIN <<item>> = {1} /\ <<item>>[1] = item
  BY <1>2
<1>4. /\ slot.ref = source.ref /\ slot.tier = TierOf(source.trust) /\ slot.max = max_tokens
      /\ slot.items = <<item>>
  BY <1>1
<1>5. slot.critical <=> TierOf(source.trust) = 0
  BY <1>1
<1>6. Critical(slot) <=> slot.tier = 0
  BY <1>4, <1>5 DEF Critical
<1>7. slot.items \in Seq(Items) /\ DOMAIN slot.items = {1} /\ slot.items[1].ref = source.ref
  BY <1>2, <1>3, <1>4
<1> QED  BY <1>4, <1>6, <1>7 DEF SlotShape, slot

LEMMA SlotsFromSelected ==
  ASSUME NEW S, NEW selected \in Seq(S), NEW max_tokens \in Nat,
         \A source \in S : source.ref \in Int /\ source.tokens \in Nat,
         \A one, other \in S : one.ref = other.ref => one = other
  PROVE  /\ SlotsOf(SlotsFrom(selected, max_tokens))
         /\ \A slot \in SlotsFrom(selected, max_tokens) :
              \E i \in 1 .. Len(selected) : /\ slot = SlotOf(selected[i], max_tokens)
                                            /\ SlotShape(slot, selected[i], max_tokens)
<1> DEFINE n == Len(selected)
           slots == SlotsFrom(selected, max_tokens)
           f == [i \in 1 .. n |-> SlotOf(selected[i], max_tokens)]
<1>1. n \in Nat /\ DOMAIN selected = 1 .. n /\ \A i \in 1 .. n : selected[i] \in S
  OBVIOUS
<1>2. slots = {SlotOf(selected[i], max_tokens) : i \in 1 .. n}
  BY <1>1 DEF SlotsFrom
<1> HIDE DEF n, slots
<1>3. \A i \in 1 .. n : SlotShape(SlotOf(selected[i], max_tokens), selected[i], max_tokens)
  BY <1>1, SlotIs
<1>4. \A slot \in slots : \E i \in 1 .. n : /\ slot = SlotOf(selected[i], max_tokens)
                                            /\ SlotShape(slot, selected[i], max_tokens)
  BY <1>2, <1>3
<1>5. IsFiniteSet(slots)
  <2>0. n \in Int /\ 1 \in Int
    BY <1>1
  <2>1. IsFiniteSet(1 .. n)
    BY ONLY <2>0, FS_Interval
  <2>2. f \in Surjection(1 .. n, slots)
    <3>1. f \in [1 .. n -> slots]
      BY <1>2
    <3>2. \A slot \in slots : \E i \in 1 .. n : f[i] = slot
      BY <1>2
    <3> HIDE DEF f
    <3> QED  BY <3>1, <3>2 DEF Surjection
  <2> HIDE DEF f
  <2> QED  BY <2>1, <2>2, FS_Surjection
<1>6. ASSUME NEW slot \in slots
      PROVE  slot.ref \in Int /\ slot.tier \in Nat /\ slot.max \in Nat /\ slot.items \in Seq(Items)
  <2>1. PICK i \in 1 .. n : SlotShape(slot, selected[i], max_tokens)
    BY <1>4
  <2> QED  BY <1>1, <2>1, TiersAre DEF SlotShape
<1>7. ASSUME NEW one \in slots, NEW other \in slots, one.ref = other.ref
      PROVE  one = other
  <2>1. PICK i \in 1 .. n : one = SlotOf(selected[i], max_tokens) /\ SlotShape(one, selected[i], max_tokens)
    BY <1>4
  <2>2. PICK j \in 1 .. n : other = SlotOf(selected[j], max_tokens) /\ SlotShape(other, selected[j], max_tokens)
    BY <1>4
  <2>3. selected[i].ref = selected[j].ref
    BY <1>7, <2>1, <2>2 DEF SlotShape
  <2>4. selected[i] = selected[j]
    BY <1>1, <2>3
  <2> QED  BY <2>1, <2>2, <2>4
<1>8. SlotsOf(slots)
  BY <1>5, <1>6, <1>7 DEF SlotsOf
<1> QED  BY <1>4, <1>8 DEF n, slots

(* What the builder returns where the budget succeeds.                     *)
SectionsOf(budgeted) == {entry.item.ref : entry \in ToSet(budgeted.kept)}

OmissionsOf(budgeted) == {entry.item.ref : entry \in ToSet(budgeted.omitted)}

Refs(sources) == {source.ref : source \in sources}

(* The evidence pack is of all sections or, where freshness was required,  *)
(* of none.                                                                *)
LEMMA PackedSources ==
  ASSUME NEW S, NEW selected \in Seq(S), NEW input, NEW budgeted,
         SectionsOf(budgeted) \subseteq Refs(ToSet(selected))
  PROVE  LET manifest == Manifest(input, selected, budgeted) IN
         /\ manifest.status = "ok" /\ manifest.tokens = Tokens(budgeted.kept)
         /\ manifest.sections = SectionsOf(budgeted) /\ manifest.omissions = OmissionsOf(budgeted)
         /\ manifest.source_refs \in {manifest.sections, {}}
         /\ manifest.source_refs # manifest.sections => input.max_age # Unknown
<1> DEFINE sections == {budgeted.kept[i].item.ref : i \in DOMAIN budgeted.kept}
           omissions == {budgeted.omitted[i].item.ref : i \in DOMAIN budgeted.omitted}
           fitting == {i \in DOMAIN selected : selected[i].ref \in sections}
           fitted == SubSeqAt(selected, fitting)
           offered == [i \in DOMAIN fitted |-> CandidateOfSource(fitted[i])]
           usable == {i \in DOMAIN offered :
                        offered[i].proof /\ ~ Stale(offered[i], Unknown, input.max_age)}
           items == SubSeqAt(offered, usable)
           source_refs == {items[i].source : i \in DOMAIN items}
           manifest == Manifest(input, selected, budgeted)
<1>1. /\ manifest.status = "ok" /\ manifest.tokens = Tokens(budgeted.kept)
      /\ manifest.sections = sections /\ manifest.omissions = omissions
      /\ manifest.source_refs = source_refs
  <2> DEFINE told == [status |-> "ok", sections |-> sections, source_refs |-> source_refs,
                      omissions |-> omissions, tokens |-> Tokens(budgeted.kept)]
  <2> DEFINE pack == Assemble(offered, {}, {}, Unknown, input.max_age)
  <2>0. Filter(selected, LAMBDA source : source.ref \in sections) = fitted
    BY Zenon DEF Filter
  <2>1. manifest = [status |-> "ok", sections |-> sections,
                    source_refs |-> {pack.items[i].source : i \in DOMAIN pack.items},
                    omissions |-> omissions, tokens |-> Tokens(budgeted.kept)]
    BY <2>0, Zenon DEF Manifest
  <2>2. pack.items = items
    <3> HIDE DEF offered
    <3>1. Filter(offered, LAMBDA c : c.proof /\ ~ Stale(c, Unknown, input.max_age)) = items
      BY Zenon DEF Filter
    <3> DEFINE others == {items[i].source : i \in DOMAIN items}
               conflicts == {conflict \in {} : conflict.sources \intersect others # {}}
               missing == {} \ others
    <3>2. pack = [items |-> items, conflicts |-> conflicts, missing |-> missing]
      BY <3>1, Zenon DEF Assemble
    <3> HIDE DEF items, conflicts, missing, pack
    <3> QED  BY <3>2
  <2>3. manifest = told
    <3> HIDE DEF pack, items, manifest
    <3> QED  BY <2>1, <2>2
  <2> HIDE DEF sections, omissions, source_refs, manifest
  <2> QED  BY <2>3
<1>2. sections = SectionsOf(budgeted) /\ omissions = OmissionsOf(budgeted)
  BY DEF SectionsOf, OmissionsOf, ToSet
<1>3. DOMAIN selected = 1 .. Len(selected)
  OBVIOUS
<1>4. /\ fitted \in Seq(S) /\ ToSet(fitted) = {selected[i] : i \in fitting}
  <2>1. fitting \in SUBSET (1 .. Len(selected))
    BY <1>3
  <2> HIDE DEF fitting
  <2> QED  BY <2>1, SubSeqAtIs
<1>5. Refs(ToSet(fitted)) = sections
  <2>1. Refs(ToSet(selected)) = {selected[i].ref : i \in DOMAIN selected}
    BY DEF Refs, ToSet
  <2>2. Refs(ToSet(fitted)) = {selected[i].ref : i \in fitting}
    BY <1>4 DEF Refs
  <2>3. sections \subseteq {selected[i].ref : i \in DOMAIN selected}
    BY <1>2, <2>1
  <2> HIDE DEF sections, fitted
  <2> QED  BY <2>2, <2>3
<1> HIDE DEF fitting, fitted
<1> DEFINE n == Len(fitted)
           C == {CandidateOfSource(s) : s \in S}
<1>6. n \in Nat /\ DOMAIN fitted = 1 .. n /\ \A i \in 1 .. n : fitted[i] \in S
  BY <1>4
<1> HIDE DEF n
<1>7. /\ DOMAIN offered = 1 .. n
      /\ \A i \in 1 .. n : /\ offered[i].source = fitted[i].ref /\ offered[i].proof = TRUE
                           /\ offered[i].observed = Unknown /\ offered[i] \in C
  BY <1>6 DEF CandidateOfSource
<1>8. offered \in Seq(C) /\ Len(offered) = n
  <2>1. offered = [i \in 1 .. n |-> offered[i]]
    BY <1>6
  <2> HIDE DEF offered, C
  <2> QED  BY <1>6, <1>7, <2>1
<1>9. usable = IF input.max_age = Unknown THEN 1 .. n ELSE {}
  <2>1. \A i \in 1 .. n : Stale(offered[i], Unknown, input.max_age) <=> input.max_age # Unknown
    <3> HIDE DEF offered
    <3> QED  BY <1>7 DEF Stale
  <2> HIDE DEF offered
  <2> QED  BY <1>7, <2>1
<1> HIDE DEF offered, usable, C
<1>10. ToSet(items) = {offered[i] : i \in usable}
  <2>1. usable \in SUBSET (1 .. Len(offered))
    BY <1>8, <1>9
  <2> QED  BY <1>8, <2>1, SubSeqAtIs
<1>11. source_refs = {offered[i].source : i \in usable}
  <2>1. source_refs = {c.source : c \in ToSet(items)}
    BY DEF ToSet
  <2> HIDE DEF items
  <2> QED  BY <1>10, <2>1
<1>12. sections = {fitted[i].ref : i \in 1 .. n}
  <2>1. ToSet(fitted) = {fitted[i] : i \in 1 .. n}
    BY <1>6 DEF ToSet
  <2> HIDE DEF sections
  <2> QED  BY <1>5, <2>1 DEF Refs
<1> HIDE DEF sections, omissions, source_refs, manifest
<1>13. CASE input.max_age = Unknown
  <2>1. source_refs = {fitted[i].ref : i \in 1 .. n}
    BY <1>7, <1>9, <1>11, <1>13
  <2> QED  BY <1>1, <1>2, <1>12, <2>1 DEF manifest
<1>14. CASE input.max_age # Unknown
  <2>1. source_refs = {}
    BY <1>9, <1>11, <1>14
  <2> QED  BY <1>1, <1>2, <1>14, <2>1 DEF manifest
<1> QED  BY <1>13, <1>14

(* The builder's slots, budgeted: the sections and omissions tell of all   *)
(* that was selected.                                                      *)
TellsOf(S, selected, budgeted, available) ==
  /\ SectionsOf(budgeted) \union OmissionsOf(budgeted) = Refs(ToSet(selected))
  /\ SectionsOf(budgeted) \intersect OmissionsOf(budgeted) = {}
  /\ Refs({source \in S : source.trust = "tier0"}) \intersect OmissionsOf(budgeted) = {}
  /\ Tokens(budgeted.kept) <= available

LEMMA BudgetTells ==
  ASSUME NEW S, NEW selected \in Seq(S), NEW max_tokens \in Nat, NEW available \in Int,
         \A source \in S : source.ref \in Int /\ source.tokens \in Nat,
         \A one, other \in S : one.ref = other.ref => one = other,
         NEW budgeted, budgeted = Budget(SlotsFrom(selected, max_tokens), available),
         budgeted.status = "ok"
  PROVE  TellsOf(S, selected, budgeted, available)
<1> DEFINE slots == SlotsFrom(selected, max_tokens)
           entries == Entries(slots)
           E == EntriesOf(slots)
           n == Len(selected)
           kept == ToSet(budgeted.kept)
           omitted == ToSet(budgeted.omitted)
<1>1. /\ SlotsOf(slots)
      /\ \A slot \in slots : \E i \in 1 .. n : /\ slot = SlotOf(selected[i], max_tokens)
                                               /\ SlotShape(slot, selected[i], max_tokens)
  BY SlotsFromSelected
<1>a. /\ n \in Nat /\ DOMAIN selected = 1 .. n /\ \A i \in 1 .. n : selected[i] \in S
      /\ slots = {SlotOf(selected[i], max_tokens) : i \in 1 .. n}
  BY DEF SlotsFrom
<1> HIDE DEF slots
<1>2. Settles(slots, available, budgeted)
  <2>1. Refuses(slots, available, budgeted) \/ Settles(slots, available, budgeted)
    BY <1>1, BudgetIs DEF slots
  <2>2. ~ Refuses(slots, available, budgeted)
    BY DEF Refuses
  <2> QED  BY <2>1, <2>2
<1>3. /\ EntriesInOrder(entries, slots) /\ entries \in Seq(E)
      /\ \A slot \in slots : \A m \in DOMAIN slot.items :
           \E k \in 1 .. Len(entries) : entries[k].item.ref = slot.items[m].ref
  BY <1>1, EntriesComeInOrder DEF EntriesInOrder
<1>4. /\ ToSet(entries) = {entries[j] : j \in 1 .. Len(entries)}
      /\ \A x, y \in ToSet(entries) : x.item.ref = y.item.ref => x = y
  BY <1>3, EntriesCount
<1>5. /\ AllAccounted(budgeted, entries, Len(entries)) /\ OmittedWithReason(budgeted, E, available)
      /\ TotalHolds(budgeted, entries, available)
  BY <1>2, Zenon DEF Settles, BudgetedSoFar
<1> HIDE DEF entries
<1>6. kept \union omitted = ToSet(entries) /\ kept \intersect omitted = {}
  BY <1>4, <1>5 DEF AllAccounted
<1>7. \A j \in 1 .. Len(entries) : entries[j] \in E
  BY <1>3
<1>8. ASSUME NEW x \in E
      PROVE  \E i \in 1 .. n : /\ SlotShape(x.slot, selected[i], max_tokens)
                               /\ x.item.ref = selected[i].ref
  <2>1. x.slot \in slots /\ \E j \in DOMAIN x.slot.items : x.slot.items[j] = x.item
    BY DEF EntriesOf
  <2>2. PICK i \in 1 .. n : SlotShape(x.slot, selected[i], max_tokens)
    BY <1>1, <2>1
  <2>3. x.item.ref = selected[i].ref
    BY <2>1, <2>2 DEF SlotShape
  <2> QED  BY <2>2, <2>3
<1>9. ToSet(selected) = {selected[i] : i \in 1 .. n}
  BY <1>a DEF ToSet
<1> HIDE DEF E, kept, omitted, n
<1>10. Refs(ToSet(selected)) = {x.item.ref : x \in ToSet(entries)}
  <2>1. ASSUME NEW x \in ToSet(entries)
        PROVE  x.item.ref \in Refs(ToSet(selected))
    <3>1. x \in E
      BY <1>4, <1>7
    <3>2. PICK i \in 1 .. n : x.item.ref = selected[i].ref
      BY <1>8, <3>1
    <3> QED  BY <1>9, <3>2 DEF Refs
  <2>2. ASSUME NEW i \in 1 .. n
        PROVE  \E x \in ToSet(entries) : x.item.ref = selected[i].ref
    <3> DEFINE slot == SlotOf(selected[i], max_tokens)
    <3>1. slot \in slots /\ SlotShape(slot, selected[i], max_tokens)
      <4>1. slot \in slots
        BY <1>a
      <4>2. selected[i].ref \in Int /\ selected[i].tokens \in Nat
        BY <1>a
      <4> QED  BY <4>1, <4>2, SlotIs
    <3> HIDE DEF slot
    <3>2. 1 \in DOMAIN slot.items /\ slot.items[1].ref = selected[i].ref
      BY <3>1 DEF SlotShape
    <3>3. PICK k \in 1 .. Len(entries) : entries[k].item.ref = slot.items[1].ref
      BY <1>3, <3>1, <3>2
    <3> QED  BY <1>4, <3>2, <3>3
  <2> QED  BY <1>9, <2>1, <2>2 DEF Refs
<1>11. SectionsOf(budgeted) \union OmissionsOf(budgeted) = Refs(ToSet(selected))
  BY <1>6, <1>10 DEF SectionsOf, OmissionsOf, kept, omitted
<1>12. SectionsOf(budgeted) \intersect OmissionsOf(budgeted) = {}
  <2> SUFFICES ASSUME NEW x \in kept, NEW y \in omitted, x.item.ref = y.item.ref
               PROVE  FALSE
    BY DEF SectionsOf, OmissionsOf, kept, omitted
  <2> QED  BY <1>4, <1>6
<1>13. Refs({source \in S : source.trust = "tier0"}) \intersect OmissionsOf(budgeted) = {}
  <2> SUFFICES ASSUME NEW source \in S, source.trust = "tier0", NEW y \in omitted,
                      source.ref = y.item.ref
               PROVE  FALSE
    BY DEF Refs, OmissionsOf, omitted
  <2>1. ~ Critical(y.slot)
    BY <1>5, Zenon DEF OmittedWithReason, Omissible, omitted
  <2>2. y \in E
    BY <1>4, <1>6, <1>7
  <2>3. PICK i \in 1 .. n : SlotShape(y.slot, selected[i], max_tokens) /\ y.item.ref = selected[i].ref
    BY <1>8, <2>2
  <2>4. selected[i] = source
    BY <1>a, <2>3
  <2>5. y.slot.tier = 0
    BY <2>3, <2>4, TiersAre DEF SlotShape
  <2> QED  BY <2>1, <2>3, <2>5 DEF SlotShape
<1>14. CriticalsFirst(entries)
  <2> SUFFICES ASSUME NEW j \in 1 .. Len(entries), NEW k \in 1 .. Len(entries), j < k,
                      Critical(entries[k].slot)
               PROVE  Critical(entries[j].slot)
    BY DEF CriticalsFirst
  <2>1. entries[j].slot.tier <= entries[k].slot.tier
    BY <1>3 DEF EntriesInOrder
  <2>2. \A x \in E : (Critical(x.slot) <=> x.slot.tier = 0) /\ x.slot.tier \in Nat
    <3> TAKE x \in E
    <3>1. PICK i \in 1 .. n : SlotShape(x.slot, selected[i], max_tokens)
      BY <1>8
    <3> QED  BY <3>1, TiersAre DEF SlotShape
  <2>3. entries[k].slot.tier = 0 /\ entries[j].slot.tier \in Nat
    BY <1>7, <2>2
  <2>4. entries[j].slot.tier = 0
    BY <2>1, <2>3
  <2> QED  BY <1>7, <2>2, <2>4
<1>15. Tokens(budgeted.kept) <= available
  BY <1>5, <1>14, Zenon DEF TotalHolds
<1> QED  BY <1>11, <1>12, <1>13, <1>15 DEF TellsOf

LEMMA SelectedCount ==
  ASSUME NEW S, NEW max, NEW selected, SelectedOf(selected, S, max),
         \A one, other \in S : one.ref = other.ref => one = other
  PROVE  Cardinality(Refs(ToSet(selected))) = Len(selected)
<1> DEFINE n == Len(selected)
           R == Refs(ToSet(selected))
           f == [i \in 1 .. n |-> selected[i].ref]
<1>1. /\ n \in Nat /\ DOMAIN selected = 1 .. n /\ \A i \in 1 .. n : selected[i] \in S
      /\ \A j, k \in 1 .. n : selected[j] = selected[k] => j = k
  BY DEF SelectedOf
<1> HIDE DEF n
<1>2. R = {selected[i].ref : i \in 1 .. n}
  BY <1>1 DEF Refs, ToSet
<1>3. f \in Bijection(1 .. n, R)
  <2>1. f \in [1 .. n -> R]
    BY <1>2
  <2>2. \A r \in R : \E i \in 1 .. n : f[i] = r
    BY <1>2
  <2>3. \A j, k \in 1 .. n : f[j] = f[k] => j = k
    BY <1>1
  <2> HIDE DEF f, R
  <2> QED  BY <2>1, <2>2, <2>3 DEF Bijection, Injection, Surjection, IsInjective
<1> HIDE DEF f, R
<1>4. Cardinality(R) = n
  BY <1>1, <1>3, FS_CountingElements DEF ExistsBijection
<1> QED  BY <1>4 DEF R, n

(* For any sources that are told apart by their refs, and any limits: a    *)
(* manifest tells of every source that was selected, once, within its      *)
(* tokens.                                                                 *)
THEOREM ManifestAlwaysTraceable ==
  ASSUME NEW input, ManifestInputOf(input)
  PROVE  ManifestIsTraceable(input)
<1> DEFINE S == Permitted(input.sources, input.principal)
           max == input.max_snippets
           selected == Selected(input.sources, input.principal, max)
           available == input.max_tokens - input.reserve
           slots == SlotsFrom(selected, input.max_tokens)
           budgeted == Budget(slots, available)
           manifest == Build(input)
<1>1. /\ IsFiniteSet(input.sources)
      /\ \A source \in input.sources : source.ref \in Int /\ source.tokens \in Nat
      /\ \A one, other \in input.sources : one.ref = other.ref => one = other
      /\ max \in Nat /\ input.max_tokens \in Nat /\ available \in Int
  BY DEF ManifestInputOf
<1>2. /\ S = {source \in input.sources : source.scopes \intersect input.principal # {}}
      /\ S \subseteq input.sources
  BY DEF Permitted
<1>3. /\ \A source \in S : source.ref \in Int /\ source.tokens \in Nat
      /\ \A one, other \in S : one.ref = other.ref => one = other
  BY <1>1, <1>2
<1>4. SelectedOf(selected, S, max)
  BY <1>1, SourcesSelected
<1>5. manifest = IF budgeted.status = "ok" THEN Manifest(input, selected, budgeted)
                 ELSE Rejection(budgeted.status)
  BY Zenon DEF Build, SlotsFrom
<1>6. ManifestIsTraceable(input) <=> TracesItsSources(manifest, S, input)
  BY <1>2, Zenon DEF ManifestIsTraceable
<1> HIDE DEF S, selected, budgeted, manifest, slots
<1>7. CASE budgeted.status # "ok"
  <2>1. manifest = [status |-> budgeted.status]
    BY <1>5, <1>7, Zenon DEF Rejection
  <2>2. manifest.status # "ok"
    BY <1>7, <2>1
  <2> QED  BY <1>6, <2>2, Zenon DEF TracesItsSources
<1>8. CASE budgeted.status = "ok"
  <2>1. manifest = Manifest(input, selected, budgeted)
    BY <1>5, <1>8, Zenon
  <2>2. selected \in Seq(S)
    BY <1>4 DEF SelectedOf
  <2>3. TellsOf(S, selected, budgeted, available)
    BY <1>1, <1>3, <1>8, <2>2, BudgetTells DEF budgeted, slots
  <2>4. SectionsOf(budgeted) \subseteq Refs(ToSet(selected))
    BY <2>3 DEF TellsOf
  <2>5. /\ manifest.status = "ok" /\ manifest.tokens = Tokens(budgeted.kept)
        /\ manifest.sections = SectionsOf(budgeted) /\ manifest.omissions = OmissionsOf(budgeted)
        /\ manifest.source_refs \in {manifest.sections, {}}
        /\ manifest.source_refs # manifest.sections => input.max_age # Unknown
    BY <2>1, <2>2, <2>4, PackedSources
  <2> DEFINE told == manifest.sections \union manifest.omissions
  <2>6. told = Refs(ToSet(selected)) /\ manifest.tokens <= available
        /\ manifest.sections \intersect manifest.omissions = {}
        /\ Refs({source \in S : source.trust = "tier0"}) \intersect manifest.omissions = {}
    BY <2>3, <2>5 DEF TellsOf
  <2> HIDE DEF told
  <2>7. Cardinality(told) = Len(selected)
    BY <1>3, <1>4, <2>6, SelectedCount
  <2>8. Len(selected) \in Nat /\ Len(selected) <= max /\ ToSet(selected) = {selected[k] : k \in 1 .. Len(selected)}
    <3>1. DOMAIN selected = 1 .. Len(selected)
      BY <2>2
    <3> QED  BY <1>4, <3>1 DEF SelectedOf, ToSet
  <2>9. told \subseteq Refs(S)
    <3>1. ToSet(selected) \subseteq S
      BY <2>2, <2>8
    <3> QED  BY <2>6, <3>1 DEF Refs
  <2>10. ASSUME NEW source \in S, source.ref \notin told
         PROVE  /\ Cardinality(told) = max
                /\ \A other \in S : other.ref \in told => TierOf(other.trust) <= TierOf(source.trust)
    <3>1. \A k \in 1 .. Len(selected) : selected[k] # source
      BY <2>6, <2>8, <2>10 DEF Refs
    <3>2. /\ Len(selected) = max
          /\ \A k \in 1 .. Len(selected) : TierOf(selected[k].trust) <= TierOf(source.trust)
      BY <1>4, <3>1 DEF SelectedOf
    <3>3. ASSUME NEW other \in S, other.ref \in told
          PROVE  TierOf(other.trust) <= TierOf(source.trust)
      <4>1. PICK k \in 1 .. Len(selected) : selected[k].ref = other.ref
        BY <2>6, <2>8, <3>3 DEF Refs
      <4>2. selected[k] \in S
        BY <2>2
      <4>3. selected[k] = other
        BY <1>3, <4>1, <4>2
      <4> QED  BY <3>2, <4>3
    <3> QED  BY <2>7, <3>2, <3>3
  <2>11. TracesItsSources(manifest, S, input)
    <3>1. Cardinality(told) <= max
      BY <2>7, <2>8
    <3> QED  BY <2>5, <2>6, <2>9, <2>10, <3>1, Zenon DEF TracesItsSources, told, Refs
  <2> QED  BY <1>6, <2>11
<1> QED  BY <1>7, <1>8

-----------------------------------------------------------------------------
(* MCDecisions.  The two chains that are put, what is made of them, and how*)
(* every alteration is noticed.                                            *)
Judges == Gates \union {"decision"}

JudgeFields ==
  {"id", "shape", "meta", "status", "outcome", "issued", "expires", "failures", "candidate",
   "environment", "scope", "by"}

(* What a gate or a decision of the chains that are put looks like.        *)
Judged(part, p, again, outcome, at) ==
  /\ part = [field \in DOMAIN part |-> part[field]] /\ JudgeFields \subseteq DOMAIN part
  /\ part.id = <<p, again>> /\ part.shape = "valid" /\ part.meta = Meta(p, <<p, again>>, "t1")
  /\ part.status = "active" /\ part.outcome = outcome /\ part.issued = at /\ part.expires = 9
  /\ part.failures = {} /\ part.candidate = <<"candidate", "only">>
  /\ part.environment = "prod" /\ part.scope = Scope("t1") /\ part.by = p

CandidatePut(part) ==
  part = [id |-> <<"candidate", "only">>, shape |-> "valid", by |-> "builder",
          meta |-> Meta("candidate", <<"candidate", "only">>, "t1"), built |-> 1,
          components |-> Built, ranges |-> "r", matrix |-> "m", migrations |-> {"g"}]

ManifestPut(part, again, at) ==
  part = [id |-> <<"manifest", again>>, shape |-> "valid", by |-> "publisher",
          meta |-> Meta("manifest", <<"manifest", again>>, "t1"), status |-> "active",
          created |-> at, expiry |-> {}, environment |-> "prod",
          gates |-> [gate \in Gates |-> <<gate, again>>], decision |-> <<"decision", again>>,
          versions |-> Versions, ranges |-> "r", matrix |-> "m", migrations |-> {"g"}]

ChainPut(chain, again, moment) ==
  /\ chain = [p \in Parts |-> chain[p]]
  /\ \A gate \in Gates : Judged(chain[gate], gate, again, "pass", moment)
  /\ Judged(chain["decision"], "decision", again, "approved", moment + 1)
  /\ "gates" \in DOMAIN chain["decision"]
  /\ chain["decision"].gates = [gate \in Gates |-> <<gate, again>>]
  /\ CandidatePut(chain["candidate"])
  /\ ManifestPut(chain["manifest"], again, moment + 2)

LEMMA ChainsPut ==
  ASSUME NEW again, NEW moment
  PROVE  ChainPut(Chain(again, moment), again, moment)
<1> DEFINE id == [p \in Parts |-> IF p = "candidate" THEN <<p, "only">> ELSE <<p, again>>]
           judged(p, outcome, at) ==
             [id |-> id[p], shape |-> "valid", meta |-> Meta(p, id[p], "t1"),
              status |-> "active", outcome |-> outcome, issued |-> at, expires |-> 9,
              failures |-> {}, candidate |-> <<"candidate", "only">>, environment |-> "prod",
              scope |-> Scope("t1"), by |-> p]
           cited == [gate \in Gates |-> id[gate]]
           chain == Chain(again, moment)
<1>1. /\ \A p \in Gates \union {"decision", "manifest"} : p \in Parts /\ id[p] = <<p, again>>
      /\ id["candidate"] = <<"candidate", "only">>
      /\ cited = [gate \in Gates |-> <<gate, again>>]
  BY DEF Parts, Gates
<1>2. /\ chain = [p \in Parts |-> chain[p]]
      /\ \A gate \in Gates : chain[gate] = judged(gate, "pass", moment)
      /\ chain["decision"] = Citing(judged("decision", "approved", moment + 1), cited)
      /\ chain["candidate"] =
           [id |-> id["candidate"], shape |-> "valid", by |-> "builder",
            meta |-> Meta("candidate", id["candidate"], "t1"), built |-> 1,
            components |-> Built, ranges |-> "r", matrix |-> "m", migrations |-> {"g"}]
      /\ chain["manifest"] =
           [id |-> id["manifest"], shape |-> "valid", by |-> "publisher",
            meta |-> Meta("manifest", id["manifest"], "t1"), status |-> "active",
            created |-> moment + 2, expiry |-> {}, environment |-> "prod", gates |-> cited,
            decision |-> id["decision"], versions |-> Versions, ranges |-> "r", matrix |-> "m",
            migrations |-> {"g"}]
  BY DEF Chain, Parts, Gates
<1>3. \A p, outcome, at : id[p] = <<p, again>> =>
        Judged(judged(p, outcome, at), p, again, outcome, at)
  <2> SUFFICES ASSUME NEW p, NEW outcome, NEW at, id[p] = <<p, again>>
               PROVE  Judged(judged(p, outcome, at), p, again, outcome, at)
    OBVIOUS
  <2> DEFINE named == <<p, again>>
  <2>1. \A one : LET part == [id |-> one, shape |-> "valid", meta |-> Meta(p, one, "t1"),
                             status |-> "active", outcome |-> outcome, issued |-> at,
                             expires |-> 9, failures |-> {},
                             candidate |-> <<"candidate", "only">>, environment |-> "prod",
                             scope |-> Scope("t1"), by |-> p]
                IN  one = named => Judged(part, p, again, outcome, at)
    <3> TAKE one
    <3> DEFINE part == [id |-> one, shape |-> "valid", meta |-> Meta(p, one, "t1"),
                        status |-> "active", outcome |-> outcome, issued |-> at,
                        expires |-> 9, failures |-> {},
                        candidate |-> <<"candidate", "only">>, environment |-> "prod",
                        scope |-> Scope("t1"), by |-> p]
    <3>1. part = [field \in DOMAIN part |-> part[field]] /\ JudgeFields \subseteq DOMAIN part
      BY DEF JudgeFields
    <3>2. /\ part.id = one /\ part.shape = "valid" /\ part.meta = Meta(p, one, "t1")
          /\ part.status = "active" /\ part.outcome = outcome /\ part.issued = at
          /\ part.expires = 9 /\ part.failures = {}
          /\ part.candidate = <<"candidate", "only">> /\ part.environment = "prod"
          /\ part.scope = Scope("t1") /\ part.by = p
      OBVIOUS
    <3> HIDE DEF part
    <3> SUFFICES ASSUME one = named
                 PROVE  Judged(part, p, again, outcome, at)
      BY DEF part
    <3> QED  BY <3>1, <3>2, Zenon DEF Judged
  <2> QED  BY <2>1
<1>4. \A part, gates, p, outcome, at : Judged(part, p, again, outcome, at) =>
        /\ Judged(Citing(part, gates), p, again, outcome, at)
        /\ "gates" \in DOMAIN Citing(part, gates) /\ Citing(part, gates).gates = gates
  BY DEF Judged, JudgeFields, Citing
<1> HIDE DEF id, judged, cited, chain
<1>5. \A gate \in Gates : Judged(chain[gate], gate, again, "pass", moment)
  <2> TAKE gate \in Gates
  <2>1. id[gate] = <<gate, again>> /\ chain[gate] = judged(gate, "pass", moment)
    BY <1>1, <1>2, Zenon
  <2> QED  BY <1>3, <2>1, Zenon
<1>6. /\ Judged(chain["decision"], "decision", again, "approved", moment + 1)
      /\ "gates" \in DOMAIN chain["decision"] /\ chain["decision"].gates = cited
  BY <1>1, <1>2, <1>3, <1>4
<1>7. CandidatePut(chain["candidate"]) /\ ManifestPut(chain["manifest"], again, moment + 2)
  BY <1>1, <1>2 DEF CandidatePut, ManifestPut
<1> QED  BY <1>1, <1>2, <1>5, <1>6, <1>7 DEF ChainPut, chain

(* A mixture of the two chains.                                            *)
MixedPut(chain) ==
  /\ chain = [p \in Parts |-> chain[p]]
  /\ \A gate \in Gates : \E again \in {"first", "again"}, at \in {2, 3} :
       Judged(chain[gate], gate, again, "pass", at)
  /\ \E again \in {"first", "again"}, at \in {3, 4} :
       Judged(chain["decision"], "decision", again, "approved", at)
  /\ "gates" \in DOMAIN chain["decision"]
  /\ CandidatePut(chain["candidate"])
  /\ \E again \in {"first", "again"}, at \in {4, 5} : ManifestPut(chain["manifest"], again, at)

LEMMA MixturesPut ==
  ASSUME NEW parts
  PROVE  MixedPut(Mixed(Chain("first", 2), Chain("again", 3), parts))
<1> DEFINE one == Chain("first", 2)
           other == Chain("again", 3)
           mixed == Mixed(one, other, parts)
<1>1. ChainPut(one, "first", 2) /\ ChainPut(other, "again", 3)
  BY ChainsPut
<1> HIDE DEF one, other
<1>2. mixed = [p \in Parts |-> mixed[p]] /\ \A p \in Parts : mixed[p] \in {one[p], other[p]}
  BY DEF Mixed
<1>3. Gates \subseteq Parts /\ {"decision", "candidate", "manifest"} \subseteq Parts
  BY DEF Parts
<1> HIDE DEF mixed
<1>4. \A gate \in Gates : \E again \in {"first", "again"}, at \in {2, 3} :
        Judged(mixed[gate], gate, again, "pass", at)
  BY <1>1, <1>2, <1>3 DEF ChainPut
<1>5. /\ \E again \in {"first", "again"}, at \in {3, 4} :
           Judged(mixed["decision"], "decision", again, "approved", at)
      /\ "gates" \in DOMAIN mixed["decision"]
  <2>1. mixed["decision"] \in {one["decision"], other["decision"]}
    BY <1>2, <1>3
  <2>2. 2 + 1 = 3 /\ 3 + 1 = 4
    OBVIOUS
  <2>3. /\ Judged(one["decision"], "decision", "first", "approved", 3)
        /\ Judged(other["decision"], "decision", "again", "approved", 4)
        /\ "gates" \in DOMAIN one["decision"] /\ "gates" \in DOMAIN other["decision"]
    BY <1>1, <2>2 DEF ChainPut
  <2> QED  BY <2>1, <2>3
<1>6. CandidatePut(mixed["candidate"])
  BY <1>1, <1>2, <1>3 DEF ChainPut
<1>7. \E again \in {"first", "again"}, at \in {4, 5} : ManifestPut(mixed["manifest"], again, at)
  <2>1. mixed["manifest"] \in {one["manifest"], other["manifest"]}
    BY <1>2, <1>3
  <2>2. 2 + 2 = 4 /\ 3 + 2 = 5
    OBVIOUS
  <2>3. ManifestPut(one["manifest"], "first", 4) /\ ManifestPut(other["manifest"], "again", 5)
    BY <1>1, <2>2 DEF ChainPut
  <2> QED  BY <2>1, <2>3
<1> QED  BY <1>2, <1>4, <1>5, <1>6, <1>7 DEF MixedPut, mixed, one, other

LEMMA FieldAltered ==
  ASSUME NEW chain, chain = [p \in Parts |-> chain[p]],
         NEW part \in Parts, NEW field \in DOMAIN chain[part], NEW value
  PROVE  LET altered == [chain EXCEPT ![part][field] = value] IN
         \A p \in Parts : \A f \in DOMAIN chain[p] :
           altered[p][f] = IF p = part /\ f = field THEN value ELSE chain[p][f]
<1>1. DOMAIN chain = Parts
  OBVIOUS
<1> QED  BY <1>1

(* What a mixture has in its parts.                                        *)
LEMMA JudgesHave ==
  ASSUME NEW chain, MixedPut(chain), NEW p \in Judges
  PROVE  /\ JudgeFields \subseteq DOMAIN chain[p]
         /\ chain[p].id \in {<<p, "first">>, <<p, "again">>}
         /\ chain[p].meta = Meta(p, chain[p].id, "t1")
         /\ chain[p].issued \in IF p = "decision" THEN {3, 4} ELSE {2, 3}
         /\ chain[p].candidate = <<"candidate", "only">>
         /\ chain[p].environment = "prod" /\ chain[p].scope = Scope("t1") /\ chain[p].by = p
<1>1. \A again, outcome, at : Judged(chain[p], p, again, outcome, at) =>
        /\ JudgeFields \subseteq DOMAIN chain[p]
        /\ chain[p].id = <<p, again>> /\ chain[p].meta = Meta(p, chain[p].id, "t1")
        /\ chain[p].issued = at /\ chain[p].candidate = <<"candidate", "only">>
        /\ chain[p].environment = "prod" /\ chain[p].scope = Scope("t1") /\ chain[p].by = p
  BY DEF Judged
<1>2. CASE p \in Gates
  <2>1. PICK again \in {"first", "again"}, at \in {2, 3} : Judged(chain[p], p, again, "pass", at)
    BY <1>2 DEF MixedPut
  <2>2. p # "decision"
    BY <1>2 DEF Gates
  <2> QED  BY <1>1, <2>1, <2>2
<1>3. CASE p = "decision"
  <2>1. PICK again \in {"first", "again"}, at \in {3, 4} :
          Judged(chain[p], p, again, "approved", at)
    BY <1>3 DEF MixedPut
  <2> QED  BY <1>1, <1>3, <2>1
<1> QED  BY <1>2, <1>3 DEF Judges

LEMMA ManifestHas ==
  ASSUME NEW chain, MixedPut(chain)
  PROVE  LET part == chain["manifest"] IN
         /\ DOMAIN part = {"id", "shape", "by", "meta", "status", "created", "expiry",
                           "environment", "gates", "decision", "versions", "ranges", "matrix",
                           "migrations"}
         /\ part.id \in {<<"manifest", "first">>, <<"manifest", "again">>}
         /\ part.meta = Meta("manifest", part.id, "t1") /\ part.by = "publisher"
         /\ part.created \in {4, 5} /\ part.environment = "prod"
         /\ part.versions = Versions /\ part.ranges = "r" /\ part.matrix = "m"
         /\ part.migrations = {"g"}
BY DEF MixedPut, ManifestPut

Altered(chain, field, part, value, altered) ==
  altered = [chain EXCEPT ![part][field] = value]

(* One field of a mixture is altered, and the chain is activated.          *)
Unnoticed(chain, field, part, value, altered) ==
  /\ MixedPut(chain) /\ part \in Parts /\ field \in DOMAIN chain[part]
  /\ Altered(chain, field, part, value, altered)
  /\ \E refused : Activates(altered, <<"candidate", "only">>, refused, 5, altered)

(* What of a chain is altered, and what is not.                            *)
AlteredOnly(chain, field, part, value, altered) ==
  /\ altered[part][field] = value
  /\ \A p \in Parts : \A f \in DOMAIN chain[p] :
       p # part \/ f # field => altered[p][f] = chain[p][f]

LEMMA OnlyThatIsAltered ==
  ASSUME NEW chain, NEW field, NEW part, NEW value, NEW altered,
         Unnoticed(chain, field, part, value, altered)
  PROVE  AlteredOnly(chain, field, part, value, altered)
<1>1. chain = [p \in Parts |-> chain[p]]
  BY DEF Unnoticed, MixedPut
<1> QED  BY <1>1, FieldAltered DEF Unnoticed, Altered, AlteredOnly

LEMMA PartsAre == Parts = Judges \union {"candidate", "manifest"} /\ Gates \subseteq Judges
BY DEF Parts, Judges

LEMMA MetaHas ==
  \A contract, object, tenant :
    /\ Meta(contract, object, tenant).object = object
    /\ Meta(contract, object, tenant).tenant = tenant
BY DEF Meta

(* The id and the metadata of a part agree.                                *)
LEMMA NamesNoticed ==
  ASSUME NEW chain, NEW field, NEW part, NEW value, NEW altered,
         Unnoticed(chain, field, part, value, altered)
  PROVE  /\ field = "shape" => value = "valid"
         /\ field = "id" => value # Other
         /\ field = "meta" => /\ value # Meta("candidate", Other, "t1")
                              /\ value # Meta("manifest", Other, "t2")
                              /\ value.tenant # "t2"
<1>1. AlteredOnly(chain, field, part, value, altered)
  BY OnlyThatIsAltered
<1>2. \A p \in Parts : /\ altered[p].shape = "valid" /\ altered[p].meta.contract = p
                       /\ altered[p].meta.object = altered[p].id
  BY DEF Unnoticed, Activates, FitsContract
<1>3. \A p, q \in Parts : altered[p].meta.tenant = altered[q].meta.tenant
  BY DEF Unnoticed, Activates, OneTenant
<1>4. MixedPut(chain) /\ part \in Parts
  BY DEF Unnoticed
<1>5. /\ "id" \in DOMAIN chain["candidate"] /\ "meta" \in DOMAIN chain["candidate"]
      /\ chain["candidate"].id = <<"candidate", "only">>
      /\ chain["candidate"].meta = Meta("candidate", <<"candidate", "only">>, "t1")
  BY <1>4 DEF MixedPut, CandidatePut
<1>6. \A p \in Parts : /\ "id" \in DOMAIN chain[p] /\ "meta" \in DOMAIN chain[p]
                       /\ chain[p].id \in {<<p, "first">>, <<p, "again">>, <<p, "only">>}
                       /\ chain[p].meta = Meta(p, chain[p].id, "t1")
  BY <1>4, <1>5, JudgesHave, ManifestHas, PartsAre DEF JudgeFields
<1>7. ASSUME field = "shape"
      PROVE  value = "valid"
  BY <1>1, <1>2, <1>4, <1>7 DEF AlteredOnly
<1>8. ASSUME field = "id", value = Other
      PROVE  FALSE
  <2>1. altered[part].id = Other /\ altered[part].meta = chain[part].meta
    BY <1>1, <1>4, <1>6, <1>8 DEF AlteredOnly
  <2>2. altered[part].meta.object = chain[part].id
    BY <1>4, <1>6, <2>1, MetaHas
  <2> QED  BY <1>2, <1>4, <1>6, <2>1, <2>2 DEF Other
<1>9. ASSUME field = "meta"
      PROVE  /\ value # Meta("candidate", Other, "t1") /\ value # Meta("manifest", Other, "t2")
             /\ value.tenant # "t2"
  <2>1. altered[part].meta = value /\ altered[part].id = chain[part].id
    BY <1>1, <1>4, <1>6, <1>9 DEF AlteredOnly
  <2>2. value.object \in {<<part, "first">>, <<part, "again">>, <<part, "only">>}
    BY <1>2, <1>4, <1>6, <2>1
  <2>3. value.contract = part
    BY <1>2, <1>4, <2>1
  <2>4. value.tenant # "t2"
    <3>1. PICK q \in Parts : q # part
      BY <1>4 DEF Parts
    <3>2. altered[q].meta = chain[q].meta
      BY <1>1, <1>6, <3>1 DEF AlteredOnly
    <3>3. altered[q].meta.tenant = "t1"
      BY <1>6, <3>1, <3>2, MetaHas
    <3> QED  BY <1>3, <1>4, <2>1, <3>3
  <2>5. value # Meta("candidate", Other, "t1")
    <3> SUFFICES ASSUME value = Meta("candidate", Other, "t1")
                 PROVE  FALSE
      OBVIOUS
    <3>1. value.object = <<"candidate", "other">>
      BY DEF Meta, Other
    <3> QED  BY <2>2, <3>1
  <2>6. value # Meta("manifest", Other, "t2")
    BY <2>4 DEF Meta
  <2> QED  BY <2>4, <2>5, <2>6
<1> QED  BY <1>7, <1>8, <1>9

(* What a gate or the decision says.                                       *)
LEMMA JudgmentsNoticed ==
  ASSUME NEW chain, NEW field, NEW part \in Judges, NEW value, NEW altered,
         Unnoticed(chain, field, part, value, altered)
  PROVE  /\ field = "status" => value # "revoked"
         /\ field = "outcome" => value # "fail"
         /\ field = "issued" => value \notin {0, 6, 9}
         /\ field = "expires" => value # 5
         /\ field = "failures" /\ part \in {"quality", "security"} => value # {"h"}
         /\ field = "candidate" => value # Other
         /\ field = "scope" => value # Scope("t2")
         /\ field = "environment" => value # "test"
<1>1. AlteredOnly(chain, field, part, value, altered) /\ MixedPut(chain)
  BY OnlyThatIsAltered DEF Unnoticed
<1>2. /\ \A gate \in Gates : GatePasses(altered, gate, <<"candidate", "only">>, 5)
      /\ DecisionApproves(altered, <<"candidate", "only">>, 5)
      /\ OneTenant(altered)
  BY DEF Unnoticed, Activates
<1>3. \A p \in Judges :
        /\ altered[p].status = "active" /\ altered[p].outcome \in {"pass", "approved"}
        /\ altered[p].issued < altered[p].expires /\ altered[p].issued <= 5
        /\ 5 < altered[p].expires
        /\ p \in {"quality", "security"} => altered[p].failures = {}
        /\ altered[p].candidate = <<"candidate", "only">>
        /\ altered[p].environment = altered["quality"].environment
        /\ altered[p].scope = altered["quality"].scope
  BY <1>2 DEF GatePasses, DecisionApproves, Active, SameSubject, Judges, Gates
<1>4. ASSUME field \in {"status", "outcome", "expires", "candidate"}
      PROVE  /\ field = "status" => value # "revoked"
             /\ field = "outcome" => value # "fail"
             /\ field = "expires" => value # 5
             /\ field = "candidate" => value # Other
  <2>1. /\ field = "status" => value = "active"
        /\ field = "outcome" => value \in {"pass", "approved"}
        /\ field = "expires" => 5 < value
        /\ field = "candidate" => value = <<"candidate", "only">>
    BY <1>1, <1>3 DEF AlteredOnly
  <2> QED  BY <2>1 DEF Other
<1>5. ASSUME field = "failures", part \in {"quality", "security"}
      PROVE  value # {"h"}
  BY <1>1, <1>3, <1>5 DEF AlteredOnly
<1>6. ASSUME field = "issued"
      PROVE  value \notin {0, 6, 9}
  <2>1. value = altered[part].issued /\ value <= 5
    BY <1>1, <1>3, <1>6 DEF AlteredOnly
  <2>2. value # 0
    <3>1. CASE part \in Gates
      <4>1. altered["candidate"].built = 1
        <5>1. chain["candidate"].built = 1 /\ "built" \in DOMAIN chain["candidate"]
          BY <1>1 DEF MixedPut, CandidatePut
        <5> QED  BY <1>1, <1>6, <5>1 DEF AlteredOnly, Parts
      <4>2. altered["candidate"].built <= altered[part].issued
        BY <1>2, <3>1 DEF GatePasses
      <4> QED  BY <2>1, <4>1, <4>2
    <3>2. CASE part = "decision"
      <4>1. chain["quality"].issued \in {2, 3} /\ "issued" \in DOMAIN chain["quality"]
        BY <1>1, JudgesHave DEF Judges, Gates, JudgeFields
      <4>2. altered["quality"].issued = chain["quality"].issued
        BY <1>1, <3>2, <4>1 DEF AlteredOnly, Parts, Gates
      <4>3. altered["quality"].issued <= altered["decision"].issued
        BY <1>2 DEF DecisionApproves, Gates
      <4> QED  BY <2>1, <3>2, <4>1, <4>2, <4>3
    <3> QED  BY <3>1, <3>2 DEF Judges
  <2> QED  BY <2>1, <2>2
<1>7. ASSUME field \in {"scope", "environment"}
      PROVE  /\ field = "scope" => value # Scope("t2")
             /\ field = "environment" => value # "test"
  <2>1. /\ "quality" \in Judges /\ "security" \in Judges /\ Judges \subseteq Parts
    BY DEF Judges, Gates, Parts
  <2>2. \A p \in Judges : /\ "scope" \in DOMAIN chain[p] /\ "environment" \in DOMAIN chain[p]
                          /\ "meta" \in DOMAIN chain[p]
                          /\ chain[p].scope = Scope("t1") /\ chain[p].environment = "prod"
                          /\ chain[p].meta.tenant = "t1"
    BY <1>1, JudgesHave, MetaHas DEF JudgeFields
  <2>3. PICK other \in {"quality", "security"} : other # part
    OBVIOUS
  <2>4. altered[other].scope = Scope("t1") /\ altered[other].environment = "prod"
    BY <1>1, <2>1, <2>2, <2>3 DEF AlteredOnly
  <2>5. altered[part].scope = altered[other].scope
        /\ altered[part].environment = altered[other].environment
    BY <1>3, <2>1, <2>3
  <2>6. Scope("t1") # Scope("t2")
    <3>1. Scope("t1").tenant = "t1" /\ Scope("t2").tenant = "t2"
      BY DEF Scope
    <3> QED  BY <3>1
  <2> QED  BY <1>1, <2>4, <2>5, <2>6 DEF AlteredOnly
<1> QED  BY <1>4, <1>5, <1>6, <1>7

LEMMA JudgesOf ==
  /\ {"quality", "security", "readiness", "decision"} = Judges /\ Judges \subseteq Parts
  /\ "candidate" \in Parts /\ "manifest" \in Parts
BY DEF Judges, Gates, Parts

(* Who wrote it, and what it cites.                                        *)
LEMMA AuthorsNoticed ==
  ASSUME NEW chain, NEW field, NEW part, NEW value, NEW altered,
         Unnoticed(chain, field, part, value, altered)
  PROVE  /\ field = "by" /\ part # "candidate" => value # "builder"
         /\ field = "by" /\ part = "quality" => value \notin {"security", "readiness", "decision"}
         /\ field = "by" /\ part = "candidate" => value \notin Judges \union {"publisher"}
         /\ field = "gates" /\ part \in {"decision", "manifest"} => value # OtherGates
         /\ field = "decision" /\ part = "manifest" => value # Other
<1>1. AlteredOnly(chain, field, part, value, altered) /\ MixedPut(chain) /\ part \in Parts
  BY OnlyThatIsAltered DEF Unnoticed
<1>2. /\ \A p, q \in Judges : p # q => altered[p].by # altered[q].by
      /\ \A p \in Judges \union {"manifest"} : altered[p].by # altered["candidate"].by
  BY DEF Unnoticed, Activates, Separated, Judges
<1>3. /\ \A p \in Judges : /\ "by" \in DOMAIN chain[p] /\ chain[p].by = p
                           /\ "id" \in DOMAIN chain[p]
                           /\ chain[p].id \in {<<p, "first">>, <<p, "again">>}
      /\ "by" \in DOMAIN chain["manifest"] /\ chain["manifest"].by = "publisher"
      /\ "by" \in DOMAIN chain["candidate"] /\ chain["candidate"].by = "builder"
  <2>1. \A p \in Judges : /\ "by" \in DOMAIN chain[p] /\ chain[p].by = p
                          /\ "id" \in DOMAIN chain[p]
                          /\ chain[p].id \in {<<p, "first">>, <<p, "again">>}
    BY <1>1, JudgesHave DEF JudgeFields
  <2>2. "by" \in DOMAIN chain["manifest"] /\ chain["manifest"].by = "publisher"
    BY <1>1, ManifestHas
  <2>3. "by" \in DOMAIN chain["candidate"] /\ chain["candidate"].by = "builder"
    BY <1>1 DEF MixedPut, CandidatePut
  <2> QED  BY <2>1, <2>2, <2>3
<1>4. ASSUME field = "by"
      PROVE  /\ part # "candidate" => value # "builder"
             /\ part = "quality" => value \notin {"security", "readiness", "decision"}
             /\ part = "candidate" => value \notin Judges \union {"publisher"}
  <2>1. altered[part].by = value
    BY <1>1, <1>4 DEF AlteredOnly
  <2>2. /\ \A p \in Judges : p # part => altered[p].by = p
        /\ "manifest" # part => altered["manifest"].by = "publisher"
        /\ "candidate" # part => altered["candidate"].by = "builder"
    BY <1>1, <1>3, JudgesOf DEF AlteredOnly
  <2>3. part # "candidate" => value # "builder"
    BY <1>1, <1>2, <2>1, <2>2, PartsAre
  <2>4. part = "quality" => value \notin {"security", "readiness", "decision"}
    <3> SUFFICES ASSUME part = "quality", value \in {"security", "readiness", "decision"}
                 PROVE  FALSE
      OBVIOUS
    <3>1. value \in Judges /\ part \in Judges /\ value # part
      BY JudgesOf
    <3> QED  BY <1>2, <2>1, <2>2, <3>1
  <2>5. part = "candidate" => value \notin Judges \union {"publisher"}
    <3> SUFFICES ASSUME part = "candidate", value \in Judges \union {"publisher"}
                 PROVE  FALSE
      OBVIOUS
    <3>1. \A p \in Judges : p # "candidate"
      BY JudgesOf
    <3> QED  BY <1>2, <2>1, <2>2, <3>1
  <2> QED  BY <2>3, <2>4, <2>5
<1>5. ASSUME field = "gates", part \in {"decision", "manifest"}, value = OtherGates
      PROVE  FALSE
  <2>1. DecisionApproves(altered, <<"candidate", "only">>, 5) /\ ManifestCites(altered, 5)
    BY DEF Unnoticed, Activates
  <2>2. /\ altered["decision"].gates["security"] = altered["security"].id
        /\ altered["manifest"].gates["security"] = altered["security"].id
    BY <2>1 DEF DecisionApproves, ManifestCites, Gates
  <2>3. altered["security"].id \in {<<"security", "first">>, <<"security", "again">>}
    BY <1>1, <1>3, <1>5, JudgesOf DEF AlteredOnly
  <2>4. altered[part].gates["security"] = <<"security", "none">>
    BY <1>1, <1>5 DEF AlteredOnly, OtherGates, Gates
  <2> QED  BY <1>5, <2>2, <2>3, <2>4
<1>6. ASSUME field = "decision", part = "manifest", value = Other
      PROVE  FALSE
  <2>1. ManifestCites(altered, 5)
    BY DEF Unnoticed, Activates
  <2>2. altered["manifest"].decision = altered["decision"].id
    BY <2>1 DEF ManifestCites
  <2>3. altered["decision"].id \in {<<"decision", "first">>, <<"decision", "again">>}
    BY <1>1, <1>3, <1>6, JudgesOf DEF AlteredOnly
  <2>4. altered["manifest"].decision = <<"candidate", "other">>
    BY <1>1, <1>6 DEF AlteredOnly, Other
  <2> QED  BY <2>2, <2>3, <2>4
<1> QED  BY <1>4, <1>5, <1>6

LEMMA ComponentsBuilt ==
  /\ Versions.prompt = {"p@1"} /\ Versions.tool = {"t@1", "u@1"}
  /\ DOMAIN Versions = {"prompt", "tool"}
  /\ Built \in Seq([type : {"prompt", "tool"}, version : {"p@1", "t@1", "u@1"}]) /\ Len(Built) = 3
  /\ Built[1] = Component("prompt", "p@1") /\ Built[2] = Component("tool", "t@1")
  /\ Built[3] = Component("tool", "u@1")
<1>1. /\ Component("prompt", "p@1") \in [type : {"prompt", "tool"}, version : {"p@1", "t@1", "u@1"}]
      /\ Component("tool", "t@1") \in [type : {"prompt", "tool"}, version : {"p@1", "t@1", "u@1"}]
      /\ Component("tool", "u@1") \in [type : {"prompt", "tool"}, version : {"p@1", "t@1", "u@1"}]
  BY DEF Component
<1> QED  BY <1>1 DEF Versions, Built

(* What was built, and what the manifest lists.                            *)
LEMMA BindingNoticed ==
  ASSUME NEW chain, NEW field, NEW part, NEW value, NEW altered,
         Unnoticed(chain, field, part, value, altered)
  PROVE  /\ field = "built" /\ part = "candidate" => value \notin {4, 6}
         /\ field = "components" /\ part = "candidate" =>
              value \notin {<<>>, Tail(Built), <<Head(Built)>> \o Built}
         /\ part = "manifest" =>
              /\ field = "status" => value # "retired"
              /\ field = "created" => value \notin {0, 6}
              /\ field = "expiry" => value \notin {{0}, {5}}
              /\ field = "environment" => value # "test"
              /\ field = "versions" => value \notin {[Versions EXCEPT !.tool = @ \union {"v@1"}],
                                                     [Versions EXCEPT !.tool = {"t@1"}]}
         /\ part \in {"candidate", "manifest"} =>
              /\ field \in {"ranges", "matrix"} => value # "other"
              /\ field = "migrations" => value \notin {{}, {"g", "h"}}
<1>1. AlteredOnly(chain, field, part, value, altered) /\ MixedPut(chain) /\ part \in Parts
  BY OnlyThatIsAltered DEF Unnoticed
<1> DEFINE candidate == altered["candidate"]
           manifest == altered["manifest"]
<1>2. /\ candidate.built <= 5 /\ \A gate \in Gates : candidate.built <= altered[gate].issued
      /\ ManifestCites(altered, 5) /\ BindsCandidate(candidate, manifest)
  BY DEF Unnoticed, Activates, GatePasses
<1>3. /\ "quality" \in Gates /\ Gates \subseteq Parts /\ Gates \subseteq Judges
      /\ "candidate" \in Parts /\ "manifest" \in Parts /\ "decision" \in Parts
      /\ "candidate" \notin Gates /\ "manifest" \notin Gates
  BY DEF Gates, Parts, Judges
<1>4. /\ \A f \in {"built", "components", "ranges", "matrix", "migrations"} :
           f \in DOMAIN chain["candidate"]
      /\ chain["candidate"].built = 1 /\ chain["candidate"].components = Built
      /\ chain["candidate"].ranges = "r" /\ chain["candidate"].matrix = "m"
      /\ chain["candidate"].migrations = {"g"}
  BY <1>1 DEF MixedPut, CandidatePut
<1>5. /\ chain["manifest"].created \in {4, 5} /\ chain["manifest"].versions = Versions
      /\ chain["manifest"].ranges = "r" /\ chain["manifest"].matrix = "m"
      /\ chain["manifest"].migrations = {"g"}
      /\ \A f \in {"created", "versions", "ranges", "matrix", "migrations"} :
           f \in DOMAIN chain["manifest"]
  BY <1>1, ManifestHas
<1>6. /\ "issued" \in DOMAIN chain["quality"] /\ chain["quality"].issued \in {2, 3}
      /\ "environment" \in DOMAIN chain["quality"] /\ chain["quality"].environment = "prod"
      /\ "issued" \in DOMAIN chain["decision"] /\ chain["decision"].issued \in {3, 4}
  BY <1>1, JudgesHave DEF JudgeFields, Judges, Gates
<1>7. ASSUME part = "candidate", field = "built"
      PROVE  value \notin {4, 6}
  <2>1. candidate.built = value /\ altered["quality"].issued = chain["quality"].issued
    BY <1>1, <1>3, <1>6, <1>7 DEF AlteredOnly
  <2> QED  BY <1>2, <1>3, <1>6, <2>1
<1>8. ASSUME part = "manifest"
      PROVE  /\ field = "status" => value # "retired"
             /\ field = "created" => value \notin {0, 6}
             /\ field = "expiry" => value \notin {{0}, {5}}
             /\ field = "environment" => value # "test"
  <2>1. /\ manifest.status = "active" /\ manifest.created <= 5
        /\ \A moment \in manifest.expiry : manifest.created < moment /\ 5 < moment
        /\ altered["decision"].issued <= manifest.created
        /\ manifest.environment = altered["quality"].environment
    BY <1>2 DEF ManifestCites, ManifestInForce
  <2>2. /\ altered["decision"].issued = chain["decision"].issued
        /\ altered["quality"].environment = "prod"
    BY <1>1, <1>3, <1>6, <1>8 DEF AlteredOnly
  <2>3. altered["manifest"][field] = value
    BY <1>1, <1>8 DEF AlteredOnly
  <2>4. field = "created" => value \notin {0, 6}
    BY <1>6, <2>1, <2>2, <2>3
  <2>5. field = "expiry" => value \notin {{0}, {5}}
    <3> SUFFICES ASSUME field = "expiry"
                 PROVE  0 \notin value /\ 5 \notin value
      OBVIOUS
    <3>1. \A moment \in value : 5 < moment
      BY <2>1, <2>3
    <3> QED  BY <3>1
  <2> QED  BY <2>1, <2>2, <2>3, <2>4, <2>5
<1>9. ASSUME part \in {"candidate", "manifest"}
      PROVE  /\ field \in {"ranges", "matrix"} => value # "other"
             /\ field = "migrations" => value \notin {{}, {"g", "h"}}
  <2>1. /\ manifest.ranges = candidate.ranges /\ manifest.matrix = candidate.matrix
        /\ manifest.migrations = candidate.migrations
    BY <1>2 DEF BindsCandidate
  <2>2. altered[part][field] = value
    BY <1>1 DEF AlteredOnly
  <2>3. PICK other \in {"candidate", "manifest"} : other # part
    OBVIOUS
  <2>4. altered[other].ranges = "r" /\ altered[other].matrix = "m" /\ altered[other].migrations = {"g"}
    BY <1>1, <1>3, <1>4, <1>5, <2>3 DEF AlteredOnly
  <2>5. altered[part].ranges = "r" /\ altered[part].matrix = "m" /\ altered[part].migrations = {"g"}
    BY <1>9, <2>1, <2>3, <2>4
  <2>6. field \in {"ranges", "matrix"} => value # "other"
    BY <2>2, <2>5
  <2>7. field = "migrations" => value = {"g"}
    BY <2>2, <2>5
  <2>8. {"g"} # {} /\ {"g"} # {"g", "h"}
    OBVIOUS
  <2> QED  BY <2>6, <2>7, <2>8
<1>10. /\ \A i, j \in DOMAIN candidate.components :
            i # j => candidate.components[i] # candidate.components[j]
       /\ \A type \in DOMAIN manifest.versions :
            manifest.versions[type] = ComponentsOf(candidate, type)
  BY <1>2 DEF BindsCandidate
<1>11. ASSUME part = "manifest", field = "versions",
              value \in {[Versions EXCEPT !.tool = @ \union {"v@1"}], [Versions EXCEPT !.tool = {"t@1"}]}
       PROVE  FALSE
  <2>1. manifest.versions = value /\ candidate.components = Built
    BY <1>1, <1>3, <1>4, <1>11 DEF AlteredOnly
  <2>2. "tool" \in DOMAIN value /\ ("u@1" \notin value["tool"] \/ "v@1" \in value["tool"])
    BY <1>11, ComponentsBuilt
  <2>3. "u@1" \in ComponentsOf(candidate, "tool")
    <3>1. 3 \in DOMAIN Built /\ Built[3].type = "tool" /\ Built[3].version = "u@1"
      BY ComponentsBuilt DEF Component
    <3> QED  BY <2>1, <3>1, Zenon DEF ComponentsOf
  <2>4. "v@1" \notin ComponentsOf(candidate, "tool")
    <3>1. \A i \in DOMAIN Built : Built[i].version \in {"p@1", "t@1", "u@1"}
      <4>1. DOMAIN Built = {1, 2, 3}
        BY ComponentsBuilt
      <4>2. Built[1].version = "p@1" /\ Built[2].version = "t@1" /\ Built[3].version = "u@1"
        BY ComponentsBuilt DEF Component
      <4> QED  BY <4>1, <4>2
    <3> QED  BY <2>1, <3>1 DEF ComponentsOf
  <2> HIDE DEF candidate, manifest
  <2> QED  BY <1>10, <2>1, <2>2, <2>3, <2>4
<1>12. ASSUME part = "candidate", field = "components"
       PROVE  value \notin {<<>>, Tail(Built), <<Head(Built)>> \o Built}
  <2>1. candidate.components = value /\ manifest.versions = Versions
    BY <1>1, <1>3, <1>5, <1>12 DEF AlteredOnly
  <2>2. "p@1" \in ComponentsOf(candidate, "prompt")
    BY <1>10, <2>1, ComponentsBuilt
  <2>3. PICK i \in DOMAIN value : value[i].type = "prompt"
    BY <2>1, <2>2 DEF ComponentsOf
  <2>4. value # <<>>
    BY <2>3
  <2>5. value # Tail(Built)
    <3> SUFFICES ASSUME value = Tail(Built)
                 PROVE  FALSE
      OBVIOUS
    <3>1. Len(value) = 2 /\ value[1] = Built[2] /\ value[2] = Built[3] /\ DOMAIN value = 1 .. 2
      <4> DEFINE S == [type : {"prompt", "tool"}, version : {"p@1", "t@1", "u@1"}]
                 rest == Tail(Built)
      <4>1. Built \in Seq(S) /\ Len(Built) = 3 /\ Built # <<>>
        BY ComponentsBuilt
      <4> HIDE DEF S
      <4>2. /\ rest \in Seq(S) /\ Len(rest) = Len(Built) - 1
            /\ \A k \in 1 .. Len(rest) : rest[k] = Built[k + 1]
        BY <4>1, HeadTailProperties, Zenon
      <4>3. value = rest
        OBVIOUS
      <4> HIDE DEF rest
      <4>4. Len(rest) = 2 /\ DOMAIN rest = 1 .. 2
        BY <4>1, <4>2
      <4>5. rest[1] = Built[2] /\ rest[2] = Built[3]
        <5>1. \A k \in {1, 2} : k \in 1 .. Len(rest)
          BY <4>4
        <5>2. \A k \in {1, 2} : rest[k] = Built[k + 1]
          BY <4>2, <5>1, Zenon
        <5> QED  BY ONLY <5>2
      <4> QED  BY <4>3, <4>4, <4>5
    <3>2. value[i].type = "tool"
      BY <3>1, ComponentsBuilt DEF Component
    <3> QED  BY <2>3, <3>2
  <2>6. value # <<Head(Built)>> \o Built
    <3> SUFFICES ASSUME value = <<Head(Built)>> \o Built
                 PROVE  FALSE
      OBVIOUS
    <3>1. 1 \in DOMAIN value /\ 2 \in DOMAIN value /\ value[1] = value[2]
      BY ComponentsBuilt
    <3> QED  BY <1>10, <2>1, <3>1
  <2> QED  BY <2>4, <2>5, <2>6
<1> QED  BY <1>7, <1>8, <1>9, <1>11, <1>12

LEMMA AlterationsAre ==
  ASSUME NEW alter \in Alterations
  PROVE  \/ alter \in Alter({"candidate"}, "shape", {"valid", "invalid"})
         \/ alter \in Alter(Parts, "id", {Other})
         \/ alter \in Alter(Parts, "meta", {Meta("candidate", Other, "t1"), Meta("manifest", Other, "t2")})
         \/ alter \in UNION {Alter({p}, "meta", {Meta(p, <<p, "first">>, "t2")}) : p \in Judges}
         \/ alter \in Alter(Judges, "status", {"revoked"})
         \/ alter \in Alter(Judges, "outcome", {"fail"})
         \/ alter \in Alter(Judges, "issued", {0, 6, 9})
         \/ alter \in Alter(Judges, "expires", {5})
         \/ alter \in Alter({"quality", "security"}, "failures", {{"h"}})
         \/ alter \in Alter(Judges, "candidate", {Other})
         \/ alter \in Alter(Judges, "scope", {Scope("t2")})
         \/ alter \in Alter(Judges \union {"manifest"}, "environment", {"test"})
         \/ alter \in Alter(Judges \union {"manifest"}, "by", {"builder"})
         \/ alter \in Alter({"quality"}, "by", {"security", "readiness", "decision"})
         \/ alter \in Alter({"candidate"}, "by", Judges \union {"publisher"})
         \/ alter \in Alter({"candidate"}, "built", {4, 6})
         \/ alter \in Alter({"candidate"}, "components", {<<>>, Tail(Built), <<Head(Built)>> \o Built})
         \/ alter \in Alter({"decision", "manifest"}, "gates", {OtherGates})
         \/ alter \in Alter({"manifest"}, "decision", {Other})
         \/ alter \in Alter({"manifest"}, "status", {"retired"})
         \/ alter \in Alter({"manifest"}, "created", {0, 6})
         \/ alter \in Alter({"manifest"}, "expiry", {{0}, {5}})
         \/ alter \in Alter({"manifest"}, "versions", {[Versions EXCEPT !.tool = @ \union {"v@1"}], [Versions EXCEPT !.tool = {"t@1"}]})
         \/ alter \in Alter({"candidate", "manifest"}, "ranges", {"other"})
         \/ alter \in Alter({"candidate", "manifest"}, "matrix", {"other"})
         \/ alter \in Alter({"candidate", "manifest"}, "migrations", {{}, {"g", "h"}})
<1> DEFINE s1 == Alter({"candidate"}, "shape", {"valid", "invalid"})
           s2 == Alter(Parts, "id", {Other})
           s3 == Alter(Parts, "meta", {Meta("candidate", Other, "t1"), Meta("manifest", Other, "t2")})
           s4 == UNION {Alter({p}, "meta", {Meta(p, <<p, "first">>, "t2")}) : p \in Judges}
           s5 == Alter(Judges, "status", {"revoked"})
           s6 == Alter(Judges, "outcome", {"fail"})
           s7 == Alter(Judges, "issued", {0, 6, 9})
           s8 == Alter(Judges, "expires", {5})
           s9 == Alter({"quality", "security"}, "failures", {{"h"}})
           s10 == Alter(Judges, "candidate", {Other})
           s11 == Alter(Judges, "scope", {Scope("t2")})
           s12 == Alter(Judges \union {"manifest"}, "environment", {"test"})
           s13 == Alter(Judges \union {"manifest"}, "by", {"builder"})
           s14 == Alter({"quality"}, "by", {"security", "readiness", "decision"})
           s15 == Alter({"candidate"}, "by", Judges \union {"publisher"})
           s16 == Alter({"candidate"}, "built", {4, 6})
           s17 == Alter({"candidate"}, "components", {<<>>, Tail(Built), <<Head(Built)>> \o Built})
           s18 == Alter({"decision", "manifest"}, "gates", {OtherGates})
           s19 == Alter({"manifest"}, "decision", {Other})
           s20 == Alter({"manifest"}, "status", {"retired"})
           s21 == Alter({"manifest"}, "created", {0, 6})
           s22 == Alter({"manifest"}, "expiry", {{0}, {5}})
           s23 == Alter({"manifest"}, "versions", {[Versions EXCEPT !.tool = @ \union {"v@1"}], [Versions EXCEPT !.tool = {"t@1"}]})
           s24 == Alter({"candidate", "manifest"}, "ranges", {"other"})
           s25 == Alter({"candidate", "manifest"}, "matrix", {"other"})
           s26 == Alter({"candidate", "manifest"}, "migrations", {{}, {"g", "h"}})
<1>1. alter \in UNION {s1, s2, s3, s4, s5, s6, s7, s8, s9, s10, s11, s12, s13, s14, s15, s16, s17, s18, s19, s20, s21, s22, s23, s24, s25, s26}
  BY DEF Alterations, Judges
<1> HIDE DEF s1, s2, s3, s4, s5, s6, s7, s8, s9, s10, s11, s12, s13, s14, s15, s16, s17, s18, s19, s20, s21, s22, s23, s24, s25, s26
<1>2. alter \in s1 \/ alter \in s2 \/ alter \in s3 \/ alter \in s4 \/ alter \in s5 \/ alter \in s6 \/ alter \in s7 \/ alter \in s8 \/ alter \in s9 \/ alter \in s10 \/ alter \in s11 \/ alter \in s12 \/ alter \in s13 \/ alter \in s14 \/ alter \in s15 \/ alter \in s16 \/ alter \in s17 \/ alter \in s18 \/ alter \in s19 \/ alter \in s20 \/ alter \in s21 \/ alter \in s22 \/ alter \in s23 \/ alter \in s24 \/ alter \in s25 \/ alter \in s26
  BY <1>1
<1> QED  BY <1>2 DEF s1, s2, s3, s4, s5, s6, s7, s8, s9, s10, s11, s12, s13, s14, s15, s16, s17, s18, s19, s20, s21, s22, s23, s24, s25, s26

LEMMA AlterHas ==
  ASSUME NEW parts, NEW field, NEW values, NEW alter \in Alter(parts, field, values)
  PROVE  alter[1] = field /\ alter[2] \in parts /\ alter[3] \in values
BY DEF Alter

(* No alteration goes unnoticed.                                           *)
LEMMA AlterationsNoticed ==
  ASSUME NEW chain, NEW alter \in Alterations, NEW altered,
         Unnoticed(chain, alter[1], alter[2], alter[3], altered)
  PROVE  altered = chain
<1> DEFINE field == alter[1]
           part == alter[2]
           value == alter[3]
<1>n. /\ field = "shape" => value = "valid"
      /\ field = "id" => value # Other
      /\ field = "meta" => /\ value # Meta("candidate", Other, "t1")
                           /\ value # Meta("manifest", Other, "t2")
                           /\ value.tenant # "t2"
  BY NamesNoticed
<1>j. part \in Judges =>
        /\ field = "status" => value # "revoked"
        /\ field = "outcome" => value # "fail"
        /\ field = "issued" => value \notin {0, 6, 9}
        /\ field = "expires" => value # 5
        /\ field = "failures" /\ part \in {"quality", "security"} => value # {"h"}
        /\ field = "candidate" => value # Other
        /\ field = "scope" => value # Scope("t2")
        /\ field = "environment" => value # "test"
  BY JudgmentsNoticed
<1>a. /\ field = "by" /\ part # "candidate" => value # "builder"
      /\ field = "by" /\ part = "quality" => value \notin {"security", "readiness", "decision"}
      /\ field = "by" /\ part = "candidate" => value \notin Judges \union {"publisher"}
      /\ field = "gates" /\ part \in {"decision", "manifest"} => value # OtherGates
      /\ field = "decision" /\ part = "manifest" => value # Other
  BY AuthorsNoticed
<1>b. /\ field = "built" /\ part = "candidate" => value \notin {4, 6}
      /\ field = "components" /\ part = "candidate" =>
           value \notin {<<>>, Tail(Built), <<Head(Built)>> \o Built}
      /\ part = "manifest" =>
           /\ field = "status" => value # "retired"
           /\ field = "created" => value \notin {0, 6}
           /\ field = "expiry" => value \notin {{0}, {5}}
           /\ field = "environment" => value # "test"
           /\ field = "versions" => value \notin {[Versions EXCEPT !.tool = @ \union {"v@1"}],
                                                  [Versions EXCEPT !.tool = {"t@1"}]}
      /\ part \in {"candidate", "manifest"} =>
           /\ field \in {"ranges", "matrix"} => value # "other"
           /\ field = "migrations" => value \notin {{}, {"g", "h"}}
  BY BindingNoticed
<1>u. Unnoticed(chain, field, part, value, altered)
  OBVIOUS
<1>h. \A parts, f, values : alter \in Alter(parts, f, values) =>
        field = f /\ part \in parts /\ value \in values
  BY AlterHas
<1>m. \A p \in Judges : p # "candidate" /\ p # "manifest"
  BY JudgesOf
<1>s. {"quality", "security"} \subseteq Judges
  BY JudgesOf
<1> HIDE DEF field, part, value
<1>1. ASSUME alter \in Alter({"candidate"}, "shape", {"valid", "invalid"})
      PROVE  altered = chain
  <2>1. field = "shape" /\ part = "candidate" /\ value = "valid"
    BY <1>h, <1>n, <1>1
  <2>2. /\ chain = [p \in Parts |-> chain[p]] /\ CandidatePut(chain["candidate"])
        /\ altered = [chain EXCEPT ![part][field] = value]
    BY <1>u DEF Unnoticed, Altered, MixedPut
  <2>3. chain["candidate"] = [chain["candidate"] EXCEPT !["shape"] = "valid"]
    BY <2>2 DEF CandidatePut
  <2> QED  BY <2>1, <2>2, <2>3
<1>2. alter \notin Alter(Parts, "id", {Other})
  <2> SUFFICES ASSUME field = "id", part \in Parts,
                      value \in {Other}
               PROVE  FALSE
    BY <1>h
  <2> QED  BY <1>n
<1>3. alter \notin Alter(Parts, "meta", {Meta("candidate", Other, "t1"), Meta("manifest", Other, "t2")})
  <2> SUFFICES ASSUME field = "meta", part \in Parts,
                      value \in {Meta("candidate", Other, "t1"), Meta("manifest", Other, "t2")}
               PROVE  FALSE
    BY <1>h
  <2> QED  BY <1>n
<1>4. alter \notin UNION {Alter({p}, "meta", {Meta(p, <<p, "first">>, "t2")}) : p \in Judges}
  <2> SUFFICES ASSUME NEW p \in Judges,
                      alter \in Alter({p}, "meta", {Meta(p, <<p, "first">>, "t2")})
               PROVE  FALSE
    OBVIOUS
  <2>1. field = "meta" /\ value = Meta(p, <<p, "first">>, "t2")
    BY <1>h
  <2> QED  BY <1>n, <2>1, MetaHas
<1>5. alter \notin Alter(Judges, "status", {"revoked"})
  <2> SUFFICES ASSUME field = "status", part \in Judges,
                      value \in {"revoked"}
               PROVE  FALSE
    BY <1>h
  <2> QED  BY <1>j
<1>6. alter \notin Alter(Judges, "outcome", {"fail"})
  <2> SUFFICES ASSUME field = "outcome", part \in Judges,
                      value \in {"fail"}
               PROVE  FALSE
    BY <1>h
  <2> QED  BY <1>j
<1>7. alter \notin Alter(Judges, "issued", {0, 6, 9})
  <2> SUFFICES ASSUME field = "issued", part \in Judges,
                      value \in {0, 6, 9}
               PROVE  FALSE
    BY <1>h
  <2> QED  BY <1>j
<1>8. alter \notin Alter(Judges, "expires", {5})
  <2> SUFFICES ASSUME field = "expires", part \in Judges,
                      value \in {5}
               PROVE  FALSE
    BY <1>h
  <2> QED  BY <1>j
<1>9. alter \notin Alter({"quality", "security"}, "failures", {{"h"}})
  <2> SUFFICES ASSUME field = "failures", part \in {"quality", "security"},
                      value \in {{"h"}}
               PROVE  FALSE
    BY <1>h
  <2> QED  BY <1>j, <1>s
<1>10. alter \notin Alter(Judges, "candidate", {Other})
  <2> SUFFICES ASSUME field = "candidate", part \in Judges,
                      value \in {Other}
               PROVE  FALSE
    BY <1>h
  <2> QED  BY <1>j
<1>11. alter \notin Alter(Judges, "scope", {Scope("t2")})
  <2> SUFFICES ASSUME field = "scope", part \in Judges,
                      value \in {Scope("t2")}
               PROVE  FALSE
    BY <1>h
  <2> QED  BY <1>j
<1>12. alter \notin Alter(Judges \union {"manifest"}, "environment", {"test"})
  <2> SUFFICES ASSUME field = "environment", part \in Judges \union {"manifest"},
                      value \in {"test"}
               PROVE  FALSE
    BY <1>h
  <2> QED  BY <1>j, <1>b
<1>13. alter \notin Alter(Judges \union {"manifest"}, "by", {"builder"})
  <2> SUFFICES ASSUME field = "by", part \in Judges \union {"manifest"},
                      value \in {"builder"}
               PROVE  FALSE
    BY <1>h
  <2> QED  BY <1>a, <1>m
<1>14. alter \notin Alter({"quality"}, "by", {"security", "readiness", "decision"})
  <2> SUFFICES ASSUME field = "by", part \in {"quality"},
                      value \in {"security", "readiness", "decision"}
               PROVE  FALSE
    BY <1>h
  <2> QED  BY <1>a, <1>m
<1>15. alter \notin Alter({"candidate"}, "by", Judges \union {"publisher"})
  <2> SUFFICES ASSUME field = "by", part \in {"candidate"},
                      value \in Judges \union {"publisher"}
               PROVE  FALSE
    BY <1>h
  <2> QED  BY <1>a, <1>m
<1>16. alter \notin Alter({"candidate"}, "built", {4, 6})
  <2> SUFFICES ASSUME field = "built", part \in {"candidate"},
                      value \in {4, 6}
               PROVE  FALSE
    BY <1>h
  <2> QED  BY <1>b
<1>17. alter \notin Alter({"candidate"}, "components", {<<>>, Tail(Built), <<Head(Built)>> \o Built})
  <2> SUFFICES ASSUME field = "components", part \in {"candidate"},
                      value \in {<<>>, Tail(Built), <<Head(Built)>> \o Built}
               PROVE  FALSE
    BY <1>h
  <2> QED  BY <1>b
<1>18. alter \notin Alter({"decision", "manifest"}, "gates", {OtherGates})
  <2> SUFFICES ASSUME field = "gates", part \in {"decision", "manifest"},
                      value \in {OtherGates}
               PROVE  FALSE
    BY <1>h
  <2> QED  BY <1>a
<1>19. alter \notin Alter({"manifest"}, "decision", {Other})
  <2> SUFFICES ASSUME field = "decision", part \in {"manifest"},
                      value \in {Other}
               PROVE  FALSE
    BY <1>h
  <2> QED  BY <1>a
<1>20. alter \notin Alter({"manifest"}, "status", {"retired"})
  <2> SUFFICES ASSUME field = "status", part \in {"manifest"},
                      value \in {"retired"}
               PROVE  FALSE
    BY <1>h
  <2> QED  BY <1>b
<1>21. alter \notin Alter({"manifest"}, "created", {0, 6})
  <2> SUFFICES ASSUME field = "created", part \in {"manifest"},
                      value \in {0, 6}
               PROVE  FALSE
    BY <1>h
  <2> QED  BY <1>b
<1>22. alter \notin Alter({"manifest"}, "expiry", {{0}, {5}})
  <2> SUFFICES ASSUME field = "expiry", part \in {"manifest"},
                      value \in {{0}, {5}}
               PROVE  FALSE
    BY <1>h
  <2> QED  BY <1>b
<1>23. alter \notin Alter({"manifest"}, "versions", {[Versions EXCEPT !.tool = @ \union {"v@1"}], [Versions EXCEPT !.tool = {"t@1"}]})
  <2> SUFFICES ASSUME field = "versions", part \in {"manifest"},
                      value \in {[Versions EXCEPT !.tool = @ \union {"v@1"}], [Versions EXCEPT !.tool = {"t@1"}]}
               PROVE  FALSE
    BY <1>h
  <2> QED  BY <1>b
<1>24. alter \notin Alter({"candidate", "manifest"}, "ranges", {"other"})
  <2> SUFFICES ASSUME field = "ranges", part \in {"candidate", "manifest"},
                      value \in {"other"}
               PROVE  FALSE
    BY <1>h
  <2> QED  BY <1>b
<1>25. alter \notin Alter({"candidate", "manifest"}, "matrix", {"other"})
  <2> SUFFICES ASSUME field = "matrix", part \in {"candidate", "manifest"},
                      value \in {"other"}
               PROVE  FALSE
    BY <1>h
  <2> QED  BY <1>b
<1>26. alter \notin Alter({"candidate", "manifest"}, "migrations", {{}, {"g", "h"}})
  <2> SUFFICES ASSUME field = "migrations", part \in {"candidate", "manifest"},
                      value \in {{}, {"g", "h"}}
               PROVE  FALSE
    BY <1>h
  <2> QED  BY <1>b
<1> QED  BY AlterationsAre, <1>1, <1>2, <1>3, <1>4, <1>5, <1>6, <1>7, <1>8, <1>9, <1>10, <1>11, <1>12, <1>13, <1>14, <1>15, <1>16, <1>17, <1>18, <1>19, <1>20, <1>21, <1>22, <1>23, <1>24, <1>25, <1>26, Zenon

LEMMA PartsAreFunctions ==
  ASSUME NEW chain, MixedPut(chain), NEW p \in Parts
  PROVE  chain[p] = [field \in DOMAIN chain[p] |-> chain[p][field]]
<1>1. CASE p \in Gates
  <2>1. PICK again \in {"first", "again"}, at \in {2, 3} : Judged(chain[p], p, again, "pass", at)
    BY <1>1 DEF MixedPut
  <2> QED  BY <2>1, Zenon DEF Judged
<1>2. CASE p = "decision"
  <2>1. PICK again \in {"first", "again"}, at \in {3, 4} : Judged(chain[p], p, again, "approved", at)
    BY <1>2 DEF MixedPut
  <2> QED  BY <2>1, Zenon DEF Judged
<1>3. CASE p = "candidate"
  BY <1>3 DEF MixedPut, CandidatePut
<1>4. CASE p = "manifest"
  BY <1>4 DEF MixedPut, ManifestPut
<1> QED  BY <1>1, <1>2, <1>3, <1>4 DEF Parts

(* What is altered in no field is not altered.                             *)
LEMMA NothingAltered ==
  ASSUME NEW chain, MixedPut(chain), NEW part, NEW field, NEW value, NEW altered,
         Altered(chain, field, part, value, altered),
         ~ (part \in Parts /\ field \in DOMAIN chain[part])
  PROVE  altered = chain
<1> SUFFICES [chain EXCEPT ![part][field] = value] = chain
  BY DEF Altered
<1>1. chain = [p \in Parts |-> chain[p]] /\ DOMAIN chain = Parts
  BY DEF MixedPut
<1>2. CASE part \notin Parts
  BY <1>1, <1>2
<1>3. CASE part \in Parts /\ field \notin DOMAIN chain[part]
  <2>1. [chain[part] EXCEPT ![field] = value] = chain[part]
    <3> DEFINE old == chain[part]
    <3>1. old = [f \in DOMAIN old |-> old[f]]
      BY <1>3, PartsAreFunctions
    <3>2. field \notin DOMAIN old
      BY <1>3
    <3> HIDE DEF old
    <3>3. [old EXCEPT ![field] = value] = [f \in DOMAIN old |-> old[f]]
      BY <3>2
    <3> QED  BY <3>1, <3>3 DEF old
  <2>2. [chain EXCEPT ![part] = chain[part]] = chain
    BY <1>1
  <2>3. [chain EXCEPT ![part][field] = value] = [chain EXCEPT ![part] = [chain[part] EXCEPT ![field] = value]]
    BY <1>1, <1>3
  <2> QED  BY <2>1, <2>2, <2>3
<1> QED  BY <1>2, <1>3

(* Both chains activate as they were written.                              *)
LEMMA ChainsActivate ==
  ASSUME NEW again, NEW moment \in {2, 3}, NEW chain, ChainPut(chain, again, moment)
  PROVE  Activates(chain, <<"candidate", "only">>, {}, 5, chain)
<1> DEFINE only == <<"candidate", "only">>
           candidate == chain["candidate"]
           manifest == chain["manifest"]
<1>1. \A p \in Judges :
        /\ chain[p].id = <<p, again>> /\ chain[p].shape = "valid"
        /\ chain[p].meta = Meta(p, <<p, again>>, "t1")
        /\ chain[p].status = "active" /\ chain[p].expires = 9 /\ chain[p].failures = {}
        /\ chain[p].candidate = only /\ chain[p].environment = "prod"
        /\ chain[p].scope = Scope("t1") /\ chain[p].by = p
  BY DEF ChainPut, Judged, Judges
<1>2. /\ \A gate \in Gates : chain[gate].issued = moment /\ chain[gate].outcome = "pass"
      /\ chain["decision"].issued = moment + 1 /\ chain["decision"].outcome = "approved"
      /\ chain["decision"].gates = [gate \in Gates |-> <<gate, again>>]
  BY DEF ChainPut, Judged
<1>3. /\ candidate.id = only /\ candidate.shape = "valid" /\ candidate.by = "builder"
      /\ candidate.meta = Meta("candidate", only, "t1") /\ candidate.built = 1
      /\ candidate.components = Built /\ candidate.ranges = "r" /\ candidate.matrix = "m"
      /\ candidate.migrations = {"g"}
  BY DEF ChainPut, CandidatePut
<1>4. /\ manifest.id = <<"manifest", again>> /\ manifest.shape = "valid"
      /\ manifest.by = "publisher" /\ manifest.meta = Meta("manifest", <<"manifest", again>>, "t1")
      /\ manifest.status = "active" /\ manifest.created = moment + 2 /\ manifest.expiry = {}
      /\ manifest.environment = "prod" /\ manifest.gates = [gate \in Gates |-> <<gate, again>>]
      /\ manifest.decision = <<"decision", again>> /\ manifest.versions = Versions
      /\ manifest.ranges = "r" /\ manifest.matrix = "m" /\ manifest.migrations = {"g"}
  BY DEF ChainPut, ManifestPut
<1> HIDE DEF candidate, manifest
<1>5. /\ \A gate \in Gates : gate \in Judges /\ gate # "decision"
      /\ "quality" \in Judges /\ "decision" \in Judges /\ "quality" \in Gates
  BY DEF Judges, Gates
<1>p. \A p \in Parts : /\ chain[p].shape = "valid" /\ chain[p].meta.contract = p
                      /\ chain[p].meta.object = chain[p].id /\ chain[p].meta.tenant = "t1"
  <2> SUFFICES ASSUME NEW p \in Parts
               PROVE  chain[p].shape = "valid" /\ chain[p].meta = Meta(p, chain[p].id, "t1")
    <3>1. \A contract, object, tenant : Meta(contract, object, tenant).contract = contract
      BY DEF Meta
    <3> QED  BY <3>1, MetaHas
  <2>1. CASE p \in Judges
    <3>1. /\ chain[p].shape = "valid" /\ chain[p].id = <<p, again>>
          /\ chain[p].meta = Meta(p, <<p, again>>, "t1")
      BY <1>1, <2>1, Zenon
    <3> QED  BY ONLY <3>1
  <2>2. CASE p = "candidate"
    BY <1>3, <2>2 DEF candidate
  <2>3. CASE p = "manifest"
    BY <1>4, <2>3 DEF manifest
  <2> QED  BY <2>1, <2>2, <2>3, PartsAre
<1>6. \A p \in Parts : FitsContract(p, chain[p])
  BY <1>p DEF FitsContract
<1>7. OneTenant(chain)
  <2>1. Scope("t1").tenant = "t1" /\ "quality" \in Parts
    BY DEF Scope, Parts, Gates
  <2>2. chain["quality"].scope.tenant = "t1"
    BY <1>1, <1>5, <2>1
  <2> QED  BY <1>p, <2>1, <2>2 DEF OneTenant
<1>8. \A gate \in Gates : GatePasses(chain, gate, only, 5)
  <2> SUFFICES ASSUME NEW gate \in Gates
               PROVE  GatePasses(chain, gate, only, 5)
    OBVIOUS
  <2>0. /\ gate \in Judges /\ chain[gate].status = "active" /\ chain[gate].expires = 9
        /\ chain[gate].outcome = "pass" /\ chain[gate].issued = moment
        /\ chain[gate].candidate = only
        /\ chain[gate].environment = "prod" /\ chain[gate].scope = Scope("t1")
        /\ chain["quality"].environment = "prod" /\ chain["quality"].scope = Scope("t1")
    BY <1>1, <1>2, <1>5, Zenon
  <2>1. Active(chain[gate], "pass", 5)
    <3>1. moment < 9 /\ moment <= 5 /\ 5 < 9
      OBVIOUS
    <3> QED  BY <2>0, <3>1, Zenon DEF Active
  <2>2. SameSubject(chain, gate, only)
    BY <2>0, Zenon DEF SameSubject
  <2>3. chain[gate].failures = {} /\ chain["candidate"].built <= chain[gate].issued
    BY <1>1, <1>2, <1>3, <1>5 DEF candidate
  <2> QED  BY <2>1, <2>2, <2>3 DEF GatePasses
<1>9. DecisionApproves(chain, only, 5)
  <2>1. Active(chain["decision"], "approved", 5)
    <3>1. /\ chain["decision"].status = "active" /\ chain["decision"].expires = 9
          /\ chain["decision"].outcome = "approved" /\ chain["decision"].issued = moment + 1
      BY <1>1, <1>2, <1>5, Zenon
    <3>2. moment + 1 < 9 /\ moment + 1 <= 5 /\ 5 < 9
      OBVIOUS
    <3> QED  BY <3>1, <3>2, Zenon DEF Active
  <2>2. SameSubject(chain, "decision", only)
    <3>1. /\ chain["decision"].candidate = only
          /\ chain["decision"].environment = "prod" /\ chain["decision"].scope = Scope("t1")
          /\ chain["quality"].environment = "prod" /\ chain["quality"].scope = Scope("t1")
      BY <1>1, <1>5, Zenon
    <3> QED  BY <3>1, Zenon DEF SameSubject
  <2>3. \A gate \in Gates : /\ chain[gate].issued <= chain["decision"].issued
                           /\ chain["decision"].gates[gate] = chain[gate].id
    BY <1>1, <1>2, <1>5
  <2> QED  BY <2>1, <2>2, <2>3 DEF DecisionApproves
<1>10. ManifestCites(chain, 5)
  <2>1. ManifestInForce(manifest, 5)
    BY <1>4 DEF ManifestInForce
  <2>2. /\ manifest.status = "active" /\ chain["decision"].issued <= manifest.created
        /\ manifest.environment = chain["quality"].environment
        /\ manifest.decision = chain["decision"].id
        /\ \A gate \in Gates : manifest.gates[gate] = chain[gate].id
    BY <1>1, <1>2, <1>4, <1>5
  <2> QED  BY <2>1, <2>2, Zenon DEF ManifestCites, manifest
<1>11. BindsCandidate(candidate, manifest)
  <2>1. DOMAIN Built = {1, 2, 3}
    BY ComponentsBuilt
  <2>2. /\ Built[1].type = "prompt" /\ Built[1].version = "p@1"
        /\ Built[2].type = "tool" /\ Built[2].version = "t@1"
        /\ Built[3].type = "tool" /\ Built[3].version = "u@1"
    BY ComponentsBuilt DEF Component
  <2>3. ComponentsOf(candidate, "prompt") = {"p@1"} /\ ComponentsOf(candidate, "tool") = {"t@1", "u@1"}
    <3>1. {i \in DOMAIN Built : Built[i].type = "prompt"} = {1}
      BY <2>1, <2>2
    <3>2. {i \in DOMAIN Built : Built[i].type = "tool"} = {2, 3}
      BY <2>1, <2>2
    <3>3. /\ {Built[i].version : i \in {1}} = {"p@1"}
          /\ {Built[i].version : i \in {2, 3}} = {"t@1", "u@1"}
      BY <2>2
    <3> QED  BY <1>3, <3>1, <3>2, <3>3 DEF ComponentsOf
  <2>4. \A i, j \in DOMAIN Built : i # j => Built[i] # Built[j]
    BY <2>1, <2>2
  <2>5. \A i \in DOMAIN Built : Built[i].type \in DOMAIN Versions
    BY <2>1, <2>2, ComponentsBuilt
  <2>6. \A type \in DOMAIN Versions : Versions[type] = ComponentsOf(candidate, type)
    BY <2>3, ComponentsBuilt
  <2> QED  BY <1>3, <1>4, <2>4, <2>5, <2>6 DEF BindsCandidate
<1>12. Separated(chain)
  BY <1>1, <1>3, <1>4, JudgesOf DEF Separated, Judges, candidate, manifest
<1>13. Verified(chain, {})
  <2>1. \A p \in Judges : p # ""
    BY DEF Judges, Gates
  <2>2. \A p \in Judges : chain[p].by # ""
    BY <1>1, <2>1, Zenon
  <2>3. chain["candidate"].by # "" /\ chain["manifest"].by # ""
    BY <1>3, <1>4 DEF candidate, manifest
  <2> QED  BY <2>2, <2>3, PartsAre DEF Verified
<1>14. only # NoRef /\ candidate.built <= 5
  BY <1>3 DEF NoRef
<1> QED
  BY <1>3, <1>6, <1>7, <1>8, <1>9, <1>10, <1>11, <1>12, <1>13, <1>14 DEF Activates, candidate,
     manifest

(* What a chain is put with.                                               *)
ChainInput(input) ==
  /\ input.one = Chain("first", 2) /\ input.other = Chain("again", 3)
  /\ input.alter \in Alterations /\ input.meanwhile \in BOOLEAN
  /\ input.refused \in {{}, {<<"readiness", "waivers">>}, {<<"candidate", "rollback">>}}
  /\ input.expected = <<"candidate", "only">> /\ input.now = 5

LEMMA ChainsDiffer ==
  ASSUME NEW one, NEW other, ChainPut(one, "first", 2), ChainPut(other, "again", 3)
  PROVE  /\ one["candidate"] = other["candidate"]
         /\ \A p \in Gates \union {"decision"} : one[p].id # other[p].id
         /\ \E S : one \in [Parts -> S] /\ other \in [Parts -> S]
<1>1. CandidatePut(one["candidate"]) /\ CandidatePut(other["candidate"])
  BY DEF ChainPut
<1>2. one["candidate"] = other["candidate"]
  BY <1>1 DEF CandidatePut
<1>3. ASSUME NEW p \in Gates \union {"decision"}
      PROVE  one[p].id # other[p].id
  <2>1. /\ \E outcome, at : Judged(one[p], p, "first", outcome, at)
        /\ \E outcome, at : Judged(other[p], p, "again", outcome, at)
    <3>1. CASE p \in Gates
      BY <3>1, Zenon DEF ChainPut
    <3>2. CASE p = "decision"
      BY <3>2, Zenon DEF ChainPut
    <3> QED  BY <3>1, <3>2
  <2>2. one[p].id = <<p, "first">> /\ other[p].id = <<p, "again">>
    BY <2>1, Zenon DEF Judged
  <2> QED  BY <2>2
<1>4. \E S : one \in [Parts -> S] /\ other \in [Parts -> S]
  <2> DEFINE S == {one[p] : p \in Parts} \union {other[p] : p \in Parts}
  <2>1. one = [p \in Parts |-> one[p]] /\ other = [p \in Parts |-> other[p]]
    BY DEF ChainPut
  <2>2. \A p \in Parts : one[p] \in S /\ other[p] \in S
    OBVIOUS
  <2> HIDE DEF S
  <2>3. one \in [Parts -> S] /\ other \in [Parts -> S]
    BY <2>1, <2>2
  <2> QED  BY <2>3
<1> QED  BY <1>2, <1>3, <1>4

(* Whatever takes the place of what, and whatever is altered or refused.   *)
LEMMA ChainAlwaysWhole ==
  ASSUME NEW input, ChainInput(input)
  PROVE  ChainIsWhole(input)
<1> DEFINE one == input.one
           other == input.other
           mixed == Mixed(one, other, input.parts)
           field == input.alter[1]
           part == input.alter[2]
           value == input.alter[3]
           altered == [mixed EXCEPT ![part][field] = value]
           handed == IF input.meanwhile THEN mixed ELSE altered
           only == <<"candidate", "only">>
<1>1. /\ input.expected = only /\ input.now = 5
      /\ input.refused \in {{}, {<<"readiness", "waivers">>}, {<<"candidate", "rollback">>}}
      /\ input.alter \in Alterations
      /\ one = Chain("first", 2) /\ other = Chain("again", 3)
  BY DEF ChainInput
<1>2. ChainPut(one, "first", 2) /\ ChainPut(other, "again", 3)
  BY <1>1, ChainsPut
<1>3. MixedPut(mixed)
  BY <1>1, MixturesPut
<1>4. Activates(one, only, {}, 5, one) /\ Activates(other, only, {}, 5, other)
  BY <1>2, ChainsActivate
<1>5. altered = [mixed EXCEPT ![part][field] = value] /\ handed \in {mixed, altered}
  OBVIOUS
<1>6. altered = mixed => handed = mixed
  OBVIOUS
<1>7. ChainIsWhole(input) <=>
        (Activates(handed, only, input.refused, 5, altered)
           <=> mixed \in {one, other} /\ altered = mixed /\ input.refused = {})
  BY <1>1, Zenon DEF ChainIsWhole
<1> DEFINE refused == input.refused
<1>8. \A chain : Activates(chain, only, refused, 5, altered) => chain = altered /\ refused = {}
  <2> SUFFICES ASSUME NEW chain, Activates(chain, only, refused, 5, altered)
               PROVE  chain = altered /\ refused = {}
    OBVIOUS
  <2>1. chain = altered /\ refused \intersect Questions = {}
    BY Zenon DEF Activates, Verified
  <2>2. <<"readiness", "waivers">> \in Questions /\ <<"candidate", "rollback">> \in Questions
    BY DEF Questions, Parts, Gates
  <2> QED  BY <1>1, <2>1, <2>2
<1>9. input.alter \in Alterations
  BY <1>1
<1> DEFINE alter == input.alter
<1> HIDE DEF mixed, one, other, altered, handed, refused
<1>10. ASSUME Activates(handed, only, refused, 5, altered)
       PROVE  mixed \in {one, other} /\ altered = mixed /\ refused = {}
  <2>1. handed = altered /\ refused = {}
    BY <1>8, <1>10
  <2>2. altered = mixed
    <3>1. CASE part \in Parts /\ field \in DOMAIN mixed[part]
      <4>1. Unnoticed(mixed, field, part, value, altered)
        BY <1>3, <1>5, <1>10, <2>1, <3>1, Zenon DEF Unnoticed, Altered
      <4> QED  BY <1>9, <4>1, AlterationsNoticed
    <3>2. CASE ~ (part \in Parts /\ field \in DOMAIN mixed[part])
      <4>1. Altered(mixed, field, part, value, altered)
        BY <1>5, Zenon DEF Altered
      <4> QED  BY <1>3, <3>2, <4>1, NothingAltered, Zenon
    <3> QED  BY <3>1, <3>2
  <2>3. Activates(mixed, only, {}, 5, altered)
    BY <1>10, <2>1, <2>2
  <2>4. mixed = Mixed(one, other, input.parts)
    BY DEF mixed
  <2>5. PICK S : one \in [Parts -> S] /\ other \in [Parts -> S]
    BY <1>2, ChainsDiffer
  <2>6. mixed \in {one, other}
    <3>1. /\ one["candidate"] = other["candidate"]
          /\ \A p \in Gates \union {"decision"} : one[p].id # other[p].id
      BY <1>2, ChainsDiffer, Zenon
    <3>2. Activates(Mixed(one, other, input.parts), only, {}, 5, altered)
      BY <2>3, <2>4
    <3>3. Mixed(one, other, input.parts) \in {one, other}
      BY <1>4, <2>5, <3>1, <3>2, ActivatedChainsNeverMix, Zenon
    <3> QED  BY <2>4, <3>3
  <2> QED  BY <2>1, <2>2, <2>6
<1>11. ASSUME mixed \in {one, other}, altered = mixed, refused = {}
       PROVE  Activates(handed, only, refused, 5, altered)
  BY <1>4, <1>6, <1>11
<1> QED  BY <1>7, <1>10, <1>11 DEF refused
-----------------------------------------------------------------------------
(* MCDecisions.  The inputs that are put to the rules have the shapes that *)
(* the theorems above ask for.                                             *)
CallsPut == Calls({"pay", "refund"})

OutputInput(input) ==
  /\ IsFiniteSet(input.cases) /\ input.min_sample \in Nat
  /\ input.conditions \in SUBSET {"cited"}
  /\ \E answered : input.outputs \in OutputsOver(answered, {"cited"})

ProposalInput(input) ==
  /\ input.proposal \in Proposals({"agent", "governance"}, {"prompt", "temperature", "owner"})
  /\ input.subject \in Subjects({"prompt", "temperature", "owner"})
  /\ input.authority \in Authorities

SearchInput(query) == Query(Chunks, query)

PackInput(input) == input.chunks \in Seq(Chunks) /\ input.limit \in Int

RouteInput(query) ==
  \A route \in DOMAIN query.answers :
    query.answers[route] \in Seq(UNION {ToSet(answer) : answer \in Candidates})

BudgetInput(input) == SlotsOf(input.slots) /\ input.available \in Int

Regions == {"cn-east", "cn-north", "eu", "us"}

AdmissionInput(case) ==
  /\ case \in AdmissionCases({"steps", "tokens"}, Regions)
  /\ IsFiniteSet(Outside(case)) /\ Cardinality(Outside(case)) <= 3

ContentInput(input) ==
  input.content \in Seq(Delimiters) /\ input.max_passes \in Nat \ {0}

NamesPut == {"created", "phase_changed", "wait_registered", "retry_scheduled", "terminal_committed"}

ValuesPut == {Untold, "queued", "running", "approval", "2", "completed"}

EventsInput(input) ==
  input.events \in Seq(Events(NamesPut, ValuesPut)) /\ input.from \in DOMAIN input.events

ValueInput(value) ==
  value \in Seq(Payloads({"none", "utc", "cn"}, {"v", "event"}) \union {Foreign})

InputsShaped ==
  /\ probe.rule = "content" => ContentInput(probe.input)
  /\ probe.rule = "events" => EventsInput(probe.input)
  /\ probe.rule = "value" => ValueInput(probe.input)
  /\ probe.rule = "search" => SearchInput(probe.input)
  /\ probe.rule = "pack" => PackInput(probe.input)
  /\ probe.rule = "route" => RouteInput(probe.input)
  /\ probe.rule = "budget" => BudgetInput(probe.input)
  /\ probe.rule = "manifest" => ManifestInputOf(probe.input)
  /\ probe.rule = "admission" => AdmissionInput(probe.input)
  /\ probe.rule = "chain" => ChainInput(probe.input)
  /\ probe.rule = "calls" => probe.input.one \in CallsPut /\ probe.input.other \in CallsPut
  /\ probe.rule = "outputs" => OutputInput(probe.input)
  /\ probe.rule = "proposal" => ProposalInput(probe.input)

SpellingsPut == {"nfc", "nfd", "1.0", "1.00", "utc", "local", "plain"}

LEMMA CallsAreCalls ==
  CallsPut \subseteq CallsOver({"pay", "refund"}, {"amount", "token"},
                              ArgumentsOver({"1", "noon"}, SpellingsPut, {Itself, "token"}))
<1> DEFINE shaped == ArgumentsOver({"1", "noon"}, SpellingsPut, {Itself, "token"})
           names == {"amount", "token"}
<1>1. Arguments \subseteq shaped
  BY DEF Arguments, ArgumentsOver, SpellingsPut
<1> HIDE DEF shaped
<1>2. \A keys \in SUBSET names : [keys -> Arguments] \subseteq [keys -> shaped]
  BY <1>1
<1>3. UNION {[keys -> Arguments] : keys \in SUBSET names}
        \subseteq UNION {[keys -> shaped] : keys \in SUBSET names}
  BY <1>2
<1> QED  BY <1>3 DEF CallsPut, Calls, CallsOver, shaped

LEMMA CallsShaped ==
  ASSUME PutCalls
  PROVE  InputsShaped'
<1>1. PICK one \in Calls({"pay"}), other \in CallsPut :
        probe' = [rule |-> "calls", input |-> [one |-> one, other |-> other]]
  BY DEF PutCalls, Put, CallsPut
<1>2. one \in CallsPut
  BY DEF Calls, CallsPut
<1> QED  BY <1>1, <1>2 DEF InputsShaped

LEMMA OutputsShaped ==
  ASSUME PutOutputs
  PROVE  InputsShaped'
<1>1. PICK n \in {0, 1, 3, 5}, conditions \in {{}, {"cited"}}, min_sample \in {1, 4} :
        \E answered \in SUBSET (1..n) :
          \E outputs \in [answered -> [met : SUBSET {"cited"}, complete : BOOLEAN]] :
            Put("outputs", [cases |-> 1..n, outputs |-> outputs, conditions |-> conditions,
                            min_sample |-> min_sample])
  BY DEF PutOutputs
<1>2. PICK answered \in SUBSET (1..n) :
        \E outputs \in [answered -> [met : SUBSET {"cited"}, complete : BOOLEAN]] :
          Put("outputs", [cases |-> 1..n, outputs |-> outputs, conditions |-> conditions,
                          min_sample |-> min_sample])
  BY <1>1
<1>3. PICK outputs \in OutputsOver(answered, {"cited"}) :
        probe' = [rule |-> "outputs",
                  input |-> [cases |-> 1..n, outputs |-> outputs, conditions |-> conditions,
                             min_sample |-> min_sample]]
  BY <1>2 DEF Put, OutputsOver
<1>4. IsFiniteSet(1..n)
  BY FS_Interval
<1>5. OutputInput([cases |-> 1..n, outputs |-> outputs, conditions |-> conditions,
                   min_sample |-> min_sample])
  BY <1>4 DEF OutputInput
<1> QED  BY <1>3, <1>5 DEF InputsShaped

LEMMA ProposalsShaped ==
  ASSUME PutProposal
  PROVE  InputsShaped'
<1> DEFINE fields == {"prompt", "temperature", "owner"}
           targets == {"agent", "governance"}
           values == {NoValue, NumberValue(1), NumberValue(3)} \union OtherValues
           drafted == {patch \in Patches(targets, fields, values) :
                         patch.before \in {NoValue, NumberValue(1)}}
           subject == [mutable |-> {"prompt", "temperature"}, frozen |-> {"owner"},
                       levels |-> {"r1"}, max_patch_fields |-> 2,
                       ranges |-> [temperature |-> [low |-> 0, high |-> 2]]]
           authority == [allow_mutation |-> TRUE, governance_kernel_frozen |-> TRUE]
<1>1. PICK changes \in SeqsUpTo(drafted, 2), level \in {"r1", "r2"} :
        probe' = [rule |-> "proposal",
                  input |-> [proposal |-> [target |-> "agent", level |-> level, changes |-> changes],
                             subject |-> subject, authority |-> authority]]
  BY DEF PutProposal, Put
<1>2. changes \in Seq(Patches(targets, fields, ProposedValues))
  <2>1. drafted \subseteq Patches(targets, fields, ProposedValues)
    <3>1. values \subseteq ProposedValues
      BY DEF ProposedValues
    <3> HIDE DEF values
    <3> QED  BY <3>1 DEF Patches
  <2>2. PICK m \in 0..2 : changes \in [1..m -> drafted]
    BY DEF SeqsUpTo
  <2> HIDE DEF drafted
  <2>3. changes \in [1..m -> Patches(targets, fields, ProposedValues)]
    BY <2>1, <2>2
  <2> QED  BY <2>3, SeqDef
<1> HIDE DEF drafted, values
<1>3. [target |-> "agent", level |-> level, changes |-> changes] \in Proposals(targets, fields)
  BY <1>2 DEF Proposals, RepairLevels
<1>4. subject \in Subjects(fields)
  <2> DEFINE ranges == [temperature |-> [low |-> 0, high |-> 2]]
  <2>1. ranges \in [{"temperature"} -> [low : Int, high : Int]]
    OBVIOUS
  <2>2. ranges \in UNION {[some -> [low : Int, high : Int]] : some \in SUBSET fields}
    BY <2>1
  <2> HIDE DEF ranges
  <2>3. [mutable |-> {"prompt", "temperature"}, frozen |-> {"owner"}, levels |-> {"r1"},
         max_patch_fields |-> 2, ranges |-> ranges] \in Subjects(fields)
    BY <2>2 DEF Subjects, RepairLevels
  <2> QED  BY <2>3 DEF ranges
<1>5. authority \in Authorities
  BY DEF Authorities
<1> DEFINE input == [proposal |-> [target |-> "agent", level |-> level, changes |-> changes],
                     subject |-> subject, authority |-> authority]
<1>6. ProposalInput(input)
  <2> HIDE DEF subject, authority
  <2> QED  BY <1>3, <1>4, <1>5 DEF ProposalInput
<1>7. probe' = [rule |-> "proposal", input |-> input]
  BY <1>1
<1> HIDE DEF input
<1> QED  BY <1>6, <1>7 DEF InputsShaped

LEMMA ChunksDiffer == ChunkSet(Chunks)
BY DEF ChunkSet, Chunks

LEMMA SearchesShaped ==
  ASSUME PutSearch
  PROVE  InputsShaped'
<1> DEFINE some == {chunk \in Chunks : chunk.id # 4}
<1>1. PICK lexical, vector \in SetToAllKPermutations(some),
           allowlist \in {{}, {"a"}, {"a", "b"}}, embedded, failed \in BOOLEAN,
           k \in {1, 60}, top_k \in {1, 3} :
        probe' = [rule |-> "search",
                  input |-> [lexical |-> lexical, vector |-> vector, allowlist |-> allowlist,
                             sources |-> {"b"}, embedded |-> embedded, backend_failed |-> failed,
                             rrf_k |-> k, top_k |-> top_k]]
  BY Zenon DEF PutSearch, Put
<1>2. ASSUME NEW ranking \in SetToAllKPermutations(some)
      PROVE  ranking \in Rankings(Chunks)
  <2>1. some \subseteq Chunks /\ IsFiniteSet(Chunks)
    <3>1. IsFiniteSet(Chunks)
      <4>1. \A a, b, c, d : IsFiniteSet({a, b, c, d})
        <5> TAKE a, b, c, d
        <5>1. IsFiniteSet({a})
          BY FS_Singleton
        <5>2. IsFiniteSet({a} \union {b})
          BY <5>1, FS_AddElement
        <5>3. IsFiniteSet(({a} \union {b}) \union {c})
          BY <5>2, FS_AddElement
        <5>4. IsFiniteSet((({a} \union {b}) \union {c}) \union {d})
          BY <5>3, FS_AddElement
        <5>5. {a, b, c, d} = (({a} \union {b}) \union {c}) \union {d}
          OBVIOUS
        <5> QED  BY <5>4, <5>5
      <4> QED  BY <4>1, Zenon DEF Chunks
    <3> QED  BY <3>1
  <2> HIDE DEF some
  <2>2. PICK s \in SUBSET some : ranking \in SetToSeqs(s)
    BY DEF SetToAllKPermutations
  <2>3. IsFiniteSet(s) /\ Cardinality(s) \in Nat /\ s \subseteq Chunks
    BY <2>1, <2>2, FS_Subset, FS_CardinalityType
  <2> DEFINE m == Cardinality(s)
  <2>4. ranking \in [1 .. m -> s] /\ \A i, j \in 1 .. m : i # j => ranking[i] # ranking[j]
    BY <2>2 DEF SetToSeqs
  <2> HIDE DEF m
  <2>5. ranking \in Seq(Chunks)
    <3>1. ranking \in [1 .. m -> Chunks] /\ m \in Nat
      BY <2>3, <2>4 DEF m
    <3> QED  BY <3>1, SeqDef
  <2>6. DOMAIN ranking = 1 .. m
    BY <2>4
  <2> QED  BY <2>4, <2>5, <2>6 DEF Rankings
<1> HIDE DEF some
<1>3. lexical \in Rankings(Chunks) /\ vector \in Rankings(Chunks)
  BY <1>2
<1> DEFINE input == [lexical |-> lexical, vector |-> vector, allowlist |-> allowlist,
                     sources |-> {"b"}, embedded |-> embedded, backend_failed |-> failed,
                     rrf_k |-> k, top_k |-> top_k]
<1>4. SearchInput(input)
  BY <1>3 DEF SearchInput, Query
<1> HIDE DEF input
<1>5. probe' = [rule |-> "search", input |-> input]
  BY <1>1 DEF input
<1> QED  BY <1>4, <1>5 DEF InputsShaped

LEMMA PacksShaped ==
  ASSUME PutPack
  PROVE  InputsShaped'
<1>1. PICK chunks \in SeqsUpTo(Chunks, 4), conflicting \in SUBSET {"a", "b"}, limit \in 1..2 :
        probe' = [rule |-> "pack",
                  input |-> [chunks |-> chunks, conflicting |-> conflicting, limit |-> limit]]
  BY DEF PutPack, Put
<1>2. chunks \in Seq(Chunks)
  <2>1. PICK m \in 0..4 : chunks \in [1..m -> Chunks]
    BY DEF SeqsUpTo
  <2> QED  BY <2>1, SeqDef
<1> DEFINE input == [chunks |-> chunks, conflicting |-> conflicting, limit |-> limit]
<1>3. PackInput(input)
  BY <1>2 DEF PackInput
<1>4. probe' = [rule |-> "pack", input |-> input]
  BY <1>1
<1> HIDE DEF input
<1> QED  BY <1>3, <1>4 DEF InputsShaped

LEMMA RoutesShaped ==
  ASSUME PutRoute
  PROVE  InputsShaped'
<1> DEFINE all == UNION {ToSet(answer) : answer \in Candidates}
<1>0. PICK up, backends, authorized, principal :
        \E answers \in [up -> Candidates] :
          Put("route", [backends |-> backends, answers |-> answers,
                        authorized |-> authorized, principal |-> principal])
  BY Zenon DEF PutRoute
<1>1. PICK answers \in [up -> Candidates] :
        probe' = [rule |-> "route",
                  input |-> [backends |-> backends, answers |-> answers,
                             authorized |-> authorized, principal |-> principal]]
  BY <1>0, Zenon DEF Put
<1>2. \A answer \in Candidates : answer \in Seq(all)
  <2> SUFFICES ASSUME NEW answer \in Candidates
               PROVE  answer \in Seq(all)
    OBVIOUS
  <2>1. PICK n \in Nat : DOMAIN answer = 1 .. n /\ answer = [i \in 1 .. n |-> answer[i]]
    <3>1. (\E x : answer = <<x>>) \/ (\E x, y : answer = <<x, y>>)
      BY Zenon DEF Candidates
    <3>2. ASSUME NEW x, answer = <<x>>
          PROVE  DOMAIN answer = 1 .. 1 /\ answer = [i \in 1 .. 1 |-> answer[i]]
      BY <3>2
    <3>3. ASSUME NEW x, NEW y, answer = <<x, y>>
          PROVE  DOMAIN answer = 1 .. 2 /\ answer = [i \in 1 .. 2 |-> answer[i]]
      BY <3>3
    <3>4. 1 \in Nat /\ 2 \in Nat
      OBVIOUS
    <3> QED  BY <3>1, <3>2, <3>3, <3>4, Zenon
  <2>2. \A i \in 1 .. n : answer[i] \in all
    BY <2>1 DEF ToSet
  <2> HIDE DEF all
  <2>3. answer \in [1 .. n -> all]
    BY <2>1, <2>2
  <2> QED  BY <2>3, SeqDef
<1> DEFINE input == [backends |-> backends, answers |-> answers,
                     authorized |-> authorized, principal |-> principal]
<1>3. RouteInput(input)
  <2>1. input.answers = answers
    OBVIOUS
  <2> HIDE DEF input, all
  <2> QED  BY <1>2, <2>1 DEF RouteInput, all
<1>4. probe' = [rule |-> "route", input |-> input]
  BY <1>1
<1> HIDE DEF input, all
<1> QED  BY <1>3, <1>4 DEF InputsShaped

LEMMA ItemsListed ==
  ItemLists \subseteq Seq(Items) /\ <<Item(5, 2, FALSE), Item(6, 1, FALSE)>> \in Seq(Items)
<1>1. /\ Item(1, 2, FALSE) \in Items /\ Item(2, 1, FALSE) \in Items /\ Item(3, 2, TRUE) \in Items
      /\ Item(4, 1, FALSE) \in Items /\ Item(5, 2, FALSE) \in Items /\ Item(6, 1, FALSE) \in Items
  BY DEF Item, Items
<1>2. /\ \A x \in Items : <<x>> \in Seq(Items)
      /\ \A x, y \in Items : <<x, y>> \in Seq(Items)
      /\ \A x, y, z \in Items : <<x, y, z>> \in Seq(Items)
  OBVIOUS
<1>3. /\ <<Item(1, 2, FALSE)>> \in Seq(Items) /\ <<Item(2, 1, FALSE), Item(1, 2, FALSE)>> \in Seq(Items)
      /\ <<Item(3, 2, TRUE)>> \in Seq(Items)
      /\ <<Item(1, 2, FALSE), Item(4, 1, FALSE), Item(3, 2, TRUE)>> \in Seq(Items)
      /\ <<Item(5, 2, FALSE), Item(6, 1, FALSE)>> \in Seq(Items)
  BY <1>1, <1>2, Zenon
<1> QED  BY <1>3, Zenon DEF ItemLists

LEMMA BudgetsShaped ==
  ASSUME PutBudget
  PROVE  InputsShaped'
<1> DEFINE last == [ref |-> 3, tier |-> 2, critical |-> FALSE, max |-> 3,
                    items |-> <<Item(5, 2, FALSE), Item(6, 1, FALSE)>>]
           Shape(slot) == /\ slot.ref \in Int /\ slot.tier \in Nat /\ slot.max \in Nat
                          /\ slot.items \in Seq(Items)
<1>1. PICK first \in SlotsAt(1, 0..2), second \in SlotsAt(2, 1..2),
           available \in {2, 4}, more \in BOOLEAN :
        probe' = [rule |-> "budget",
                  input |-> [slots |-> {first, second} \union IF more THEN {last} ELSE {},
                             available |-> available]]
  BY Zenon DEF PutBudget, Put
<1> DEFINE slots == {first, second} \union IF more THEN {last} ELSE {}
           input == [slots |-> slots, available |-> available]
<1>2. Shape(first) /\ first.ref = 1
  BY <1>1, ItemsListed DEF SlotsAt
<1>3. Shape(second) /\ second.ref = 2
  BY <1>1, ItemsListed DEF SlotsAt
<1>4. Shape(last) /\ last.ref = 3
  <2> DEFINE items == <<Item(5, 2, FALSE), Item(6, 1, FALSE)>>
  <2>1. items \in Seq(Items)
    BY ItemsListed
  <2> HIDE DEF items
  <2>2. Shape([ref |-> 3, tier |-> 2, critical |-> FALSE, max |-> 3, items |-> items])
    BY <2>1
  <2> QED  BY <2>2 DEF items
<1> HIDE DEF last
<1>5. slots \subseteq {first, second, last}
  OBVIOUS
<1>6. IsFiniteSet(slots)
  BY <1>5, ThreeAreFinite, FS_Subset
<1>7. probe' = [rule |-> "budget", input |-> input]
  BY <1>1, Zenon
<1> HIDE DEF slots
<1>8. \A slot \in slots : Shape(slot)
  BY <1>2, <1>3, <1>4, <1>5, Zenon
<1>9. \A one, other \in slots : one.ref = other.ref => one = other
  BY <1>2, <1>3, <1>4, <1>5
<1>10. SlotsOf(slots)
  BY <1>6, <1>8, <1>9, Zenon DEF SlotsOf
<1>11. BudgetInput(input)
  BY <1>10 DEF BudgetInput
<1> HIDE DEF input
<1> QED  BY <1>7, <1>11 DEF InputsShaped

LEMMA ManifestsShaped ==
  ASSUME PutManifest
  PROVE  InputsShaped'
<1>1. PICK one \in SourcesAt(1), two \in SourcesAt(2), three \in SourcesAt(3),
           max_snippets \in 1..2, max_tokens \in {3, 5}, max_age \in {Unknown, 5} :
        probe' = [rule |-> "manifest",
                  input |-> [sources |-> {one, two, three}, principal |-> {"p"},
                             max_snippets |-> max_snippets, max_tokens |-> max_tokens,
                             reserve |-> 1, max_age |-> max_age]]
  BY Zenon DEF PutManifest, Put
<1> DEFINE sources == {one, two, three}
           input == [sources |-> sources, principal |-> {"p"},
                     max_snippets |-> max_snippets, max_tokens |-> max_tokens,
                     reserve |-> 1, max_age |-> max_age]
<1>2. /\ one.ref = 1 /\ two.ref = 2 /\ three.ref = 3
      /\ one.tokens \in Nat /\ two.tokens \in Nat /\ three.tokens \in Nat
  BY <1>1 DEF SourcesAt
<1>3. IsFiniteSet(sources)
  BY ThreeAreFinite
<1>4. /\ \A source \in sources : source.ref \in Int /\ source.tokens \in Nat
      /\ \A a, b \in sources : a.ref = b.ref => a = b
  BY <1>2
<1>5. probe' = [rule |-> "manifest", input |-> input]
  BY <1>1, Zenon
<1> HIDE DEF sources
<1>6. ManifestInputOf(input)
  BY <1>1, <1>3, <1>4 DEF ManifestInputOf
<1> HIDE DEF input
<1> QED  BY <1>5, <1>6 DEF InputsShaped

LEMMA AdmissionsShaped ==
  ASSUME PutAdmission
  PROVE  InputsShaped'
<1>1. PICK release \in {"missing", "draft", "incompatible", "usable"},
           denied, decided, snapshot, adapter, agent, capacity \in BOOLEAN,
           steps \in {NoLimit, 0, 1}, overhead \in 0..1,
           regions \in {<<>>, <<"cn-east">>, <<"eu", "cn-east", "us">>},
           phase \in {"queued", "admitting"} :
        probe' = [rule |-> "admission",
                  input |-> [release |-> release, denied |-> denied, decided |-> decided,
                    snapshot |-> snapshot, limits |-> [steps |-> steps, tokens |-> NoLimit],
                    overhead |-> overhead, regions |-> regions,
                    region_allowlist |-> {"cn-east", "cn-north"}, adapter |-> adapter,
                    agent |-> agent, phase |-> phase, capacity |-> capacity]]
  BY Zenon DEF PutAdmission, Put
<1> DEFINE limits == [steps |-> steps, tokens |-> NoLimit]
           case == [release |-> release, denied |-> denied, decided |-> decided,
                    snapshot |-> snapshot, limits |-> limits,
                    overhead |-> overhead, regions |-> regions,
                    region_allowlist |-> {"cn-east", "cn-north"}, adapter |-> adapter,
                    agent |-> agent, phase |-> phase, capacity |-> capacity]
           kinds == UNION {[some -> Nat \union {NoLimit}] : some \in SUBSET {"steps", "tokens"}}
<1>2. limits \in kinds
  <2>1. limits \in [{"steps", "tokens"} -> Nat \union {NoLimit}]
    BY DEF NoLimit
  <2> HIDE DEF limits
  <2> QED  BY <2>1
<1>3. regions \in Seq(Regions)
  <2>1. CASE regions = <<>>
    BY <2>1
  <2>2. CASE regions = <<"cn-east">>
    BY <2>2 DEF Regions
  <2>3. CASE regions = <<"eu", "cn-east", "us">>
    <3>1. "eu" \in Regions /\ "cn-east" \in Regions /\ "us" \in Regions
      BY DEF Regions
    <3> QED  BY <2>3, <3>1
  <2> QED  BY <2>1, <2>2, <2>3
<1> HIDE DEF limits, kinds
<1>4. case \in AdmissionCases({"steps", "tokens"}, Regions)
  BY <1>2, <1>3 DEF AdmissionCases, Regions, kinds
<1>5. IsFiniteSet(Outside(case)) /\ Cardinality(Outside(case)) <= 3
  <2>1. case.regions = regions /\ case.region_allowlist = {"cn-east", "cn-north"}
    OBVIOUS
  <2>2. \A i \in DOMAIN regions : regions[i] \in {"eu", "cn-east", "us"}
    OBVIOUS
  <2> HIDE DEF case
  <2>3. Outside(case) \subseteq {"eu", "us"}
    BY <2>1, <2>2 DEF Outside
  <2>4. IsFiniteSet({"eu", "us"}) /\ Cardinality({"eu", "us"}) <= 3
    <3>1. IsFiniteSet({}) /\ Cardinality({}) = 0
      BY FS_EmptySet
    <3>2. IsFiniteSet({"eu"}) /\ Cardinality({"eu"}) = 1
      BY FS_Singleton
    <3>3. {"eu", "us"} = {"eu"} \union {"us"}
      OBVIOUS
    <3> DEFINE one == {"eu"}
    <3>4. "us" \notin one /\ IsFiniteSet(one) /\ Cardinality(one) = 1
      BY <3>2
    <3> HIDE DEF one
    <3>5. IsFiniteSet(one \union {"us"}) /\ Cardinality(one \union {"us"}) = 2
      BY <3>4, FS_AddElement
    <3>6. IsFiniteSet({"eu", "us"}) /\ Cardinality({"eu", "us"}) = 2
      BY <3>3, <3>5, Zenon DEF one
    <3> QED  BY <3>6
  <2> QED  BY <2>3, <2>4, FS_Subset, FS_CardinalityType
<1>6. probe' = [rule |-> "admission", input |-> case]
  BY <1>1 DEF limits
<1> HIDE DEF case
<1> QED  BY <1>4, <1>5, <1>6 DEF InputsShaped, AdmissionInput

LEMMA ContentsShaped ==
  ASSUME PutContent
  PROVE  InputsShaped'
<1>0. PICK content \in SeqsUpTo(Delimiters, 5), max_passes \in 1..2 :
        \E kind, finish :
          probe' = [rule |-> "content",
                    input |-> [content |-> content, kind |-> kind, finish |-> finish,
                               max_passes |-> max_passes]]
  BY Zenon DEF PutContent, Put, Delimiters, LBrace, RBrace, LBracket, RBracket
<1>1. PICK kind, finish :
        probe' = [rule |-> "content",
                  input |-> [content |-> content, kind |-> kind, finish |-> finish,
                             max_passes |-> max_passes]]
  BY <1>0
<1>2. content \in Seq(Delimiters)
  <2>1. PICK m \in 0..5 : content \in [1..m -> Delimiters]
    BY DEF SeqsUpTo
  <2> QED  BY <2>1, SeqDef
<1> DEFINE input == [content |-> content, kind |-> kind, finish |-> finish,
                     max_passes |-> max_passes]
<1>3. ContentInput(input)
  BY <1>2 DEF ContentInput
<1>4. probe' = [rule |-> "content", input |-> input]
  BY <1>1
<1> HIDE DEF input
<1> QED  BY <1>3, <1>4 DEF InputsShaped

LEMMA EventsShaped ==
  ASSUME PutEvents
  PROVE  InputsShaped'
<1>1. PICK events \in SeqsUpTo(RunEvents, 4) :
        \E from \in DOMAIN events :
          probe' = [rule |-> "events", input |-> [events |-> events, from |-> from]]
  BY DEF PutEvents, Put
<1>2. PICK from \in DOMAIN events :
        probe' = [rule |-> "events", input |-> [events |-> events, from |-> from]]
  BY <1>1
<1>3. RunEvents \subseteq Events(NamesPut, ValuesPut)
  BY DEF RunEvents, Event, Events, NamesPut, ValuesPut
<1>4. events \in Seq(Events(NamesPut, ValuesPut))
  <2>1. PICK m \in 0..4 : events \in [1..m -> RunEvents]
    BY DEF SeqsUpTo
  <2>2. events \in [1..m -> Events(NamesPut, ValuesPut)]
    BY <1>3, <2>1
  <2> QED  BY <2>2, SeqDef
<1> DEFINE input == [events |-> events, from |-> from]
<1>5. EventsInput(input)
  BY <1>4 DEF EventsInput
<1>6. probe' = [rule |-> "events", input |-> input]
  BY <1>2
<1> HIDE DEF input
<1> QED  BY <1>5, <1>6 DEF InputsShaped

LEMMA ValuesShaped ==
  ASSUME PutValue
  PROVE  InputsShaped'
<1> DEFINE parts == Payloads({"none", "utc", "cn"}, {"v", "event"}) \union {Foreign}
<1>1. PICK outer \in SeqsUpTo(Containers, 3), leaf \in Leaves :
        probe' = [rule |-> "value", input |-> Append(outer, leaf)]
  BY DEF PutValue, Put
<1>2. Containers \subseteq parts /\ Leaves \subseteq parts
  BY DEF Containers, Leaves, Payloads, Foreign
<1> HIDE DEF parts
<1>3. outer \in Seq(parts)
  <2>1. PICK m \in 0..3 : outer \in [1..m -> Containers]
    BY DEF SeqsUpTo
  <2>2. outer \in [1..m -> parts]
    BY <1>2, <2>1
  <2> QED  BY <2>2, SeqDef
<1>4. Append(outer, leaf) \in Seq(parts)
  BY <1>2, <1>3
<1> DEFINE value == Append(outer, leaf)
<1>5. ValueInput(value)
  BY <1>4, Zenon DEF ValueInput, parts
<1>6. probe' = [rule |-> "value", input |-> value]
  BY <1>1
<1> HIDE DEF value
<1> QED  BY <1>5, <1>6 DEF InputsShaped

LEMMA ChainsShaped ==
  ASSUME PutChain
  PROVE  InputsShaped'
<1>1. PICK parts \in SUBSET (Parts \ {"candidate"}), alter \in Alterations, meanwhile \in BOOLEAN,
           refused \in {{}, {<<"readiness", "waivers">>}, {<<"candidate", "rollback">>}} :
        probe' = [rule |-> "chain",
                  input |-> [one |-> Chain("first", 2), other |-> Chain("again", 3),
                             parts |-> parts, alter |-> alter, meanwhile |-> meanwhile,
                             refused |-> refused, expected |-> <<"candidate", "only">>,
                             now |-> 5]]
  BY Zenon DEF PutChain, Put
<1> DEFINE input == [one |-> Chain("first", 2), other |-> Chain("again", 3),
                     parts |-> parts, alter |-> alter, meanwhile |-> meanwhile,
                     refused |-> refused, expected |-> <<"candidate", "only">>, now |-> 5]
<1>2. ChainInput(input)
  BY <1>1 DEF ChainInput
<1>3. probe' = [rule |-> "chain", input |-> input]
  BY <1>1
<1> HIDE DEF input
<1> QED  BY <1>2, <1>3 DEF InputsShaped

LEMMA InputsStayShaped == InputsShaped /\ [Next]_probe => InputsShaped'
<1> SUFFICES ASSUME InputsShaped, [Next]_probe
             PROVE  InputsShaped'
  OBVIOUS
<1>1. CASE UNCHANGED probe
  BY <1>1 DEF InputsShaped
<1>2. CASE TakeBack
  BY <1>2 DEF TakeBack, Nothing, InputsShaped
<1>3. ASSUME probe'.rule \notin {"calls", "outputs", "proposal",
                                "search", "pack", "route", "budget", "manifest", "admission", "chain",
                                "content", "events", "value"}
      PROVE  InputsShaped'
  BY <1>3 DEF InputsShaped
<1>4. CASE PutSearch
  BY <1>4, SearchesShaped
<1>5. CASE PutPack
  BY <1>5, PacksShaped
<1>6. CASE PutRoute
  BY <1>6, RoutesShaped
<1>7. CASE PutBudget
  BY <1>7, BudgetsShaped
<1>8. CASE PutManifest
  BY <1>8, ManifestsShaped
<1>9. CASE PutAdmission
  BY <1>9, AdmissionsShaped
<1>10. CASE PutPolicy
  BY <1>3, <1>10 DEF PutPolicy, Put
<1>11. CASE PutChain
  BY <1>11, ChainsShaped
<1>12. CASE PutContent
  BY <1>12, ContentsShaped
<1>13. CASE PutEvents
  BY <1>13, EventsShaped
<1>14. CASE PutValue
  BY <1>14, ValuesShaped
<1> QED
  BY <1>1, <1>2, <1>4, <1>5, <1>6, <1>7, <1>8, <1>9, <1>10, <1>11, <1>12, <1>13,
     <1>14, CallsShaped, OutputsShaped, ProposalsShaped DEF Next, PutOne

LEMMA InputsBeginShaped == Init => InputsShaped
BY DEF Init, Nothing, InputsShaped

(* What the run checks of policies and calls holds of all it puts, as an   *)
(* instance of the two theorems on all rules, roles, calls and secret keys.*)
THEOREM AccessAlwaysConsistent == Spec => []AccessIsConsistent
<1>1. InputsShaped => AccessIsConsistent
  <2> SUFFICES ASSUME InputsShaped
               PROVE  AccessIsConsistent
    OBVIOUS
  <2>1. PoliciesAddUp
    BY RulesAlwaysAddUp DEF PoliciesAddUp, Holds
  <2>2. KeysAreIdentities
    <3> SUFFICES ASSUME probe.rule = "calls"
                 PROVE  KeysTellCallsApart(probe.input.one, probe.input.other, {"token"})
      BY DEF KeysAreIdentities, Holds
    <3>1. probe.input.one \in CallsPut /\ probe.input.other \in CallsPut
      BY DEF InputsShaped
    <3> QED  BY <3>1, CallsAreCalls, KeysAlwaysTellCallsApart
  <2> QED  BY <2>1, <2>2 DEF AccessIsConsistent
<1> QED  BY <1>1, InputsBeginShaped, InputsStayShaped, PTL DEF Spec

(* The same of what is better and of what is allowed more.                 *)
THEOREM BetterIsAlwaysNoWorse == Spec => []BetterIsNoWorse
<1>1. InputsShaped => BetterIsNoWorse
  <2> SUFFICES ASSUME InputsShaped
               PROVE  BetterIsNoWorse
    OBVIOUS
  <2> DEFINE i == probe.input
  <2>1. EvaluationsAreMonotone
    <3> SUFFICES ASSUME probe.rule = "outputs"
                 PROVE  EvaluationIsMonotone(i.cases, i.outputs, i.conditions, i.min_sample)
      BY DEF EvaluationsAreMonotone, Holds
    <3>1. OutputInput(i)
      BY DEF InputsShaped
    <3> HIDE DEF i
    <3>2. PICK answered : i.outputs \in OutputsOver(answered, {"cited"})
      BY <3>1 DEF OutputInput
    <3> QED  BY <3>1, <3>2, EvaluationIsAlwaysMonotone DEF OutputInput
  <2>2. SurfacesAreMonotone
    <3> SUFFICES ASSUME probe.rule = "proposal"
                 PROVE  SurfaceIsMonotone(i.proposal, i.subject, i.authority)
      BY DEF SurfacesAreMonotone, Holds
    <3>1. ProposalInput(i)
      BY DEF InputsShaped
    <3> HIDE DEF i
    <3> QED  BY <3>1, SurfaceIsAlwaysMonotone DEF ProposalInput
  <2> QED  BY <2>1, <2>2 DEF BetterIsNoWorse
<1> QED  BY <1>1, InputsBeginShaped, InputsStayShaped, PTL DEF Spec

(* What the run checks of retrieval holds of all it puts: an instance of   *)
(* the theorems on any rankings and any chunks.                            *)
THEOREM RetrievalAlwaysFair == Spec => []RetrievalIsFair
<1>1. InputsShaped => RetrievalIsFair
  <2> SUFFICES ASSUME InputsShaped
               PROVE  RetrievalIsFair
    OBVIOUS
  <2> DEFINE q == probe.input
  <2>1. FusionIsFair
    <3> SUFFICES ASSUME probe.rule = "search"
                 PROVE  FusedFairly(q.lexical, q.vector, Fuse(q.lexical, q.vector, q.rrf_k))
      BY DEF FusionIsFair, Holds
    <3>1. Query(Chunks, q)
      BY DEF InputsShaped, SearchInput
    <3> HIDE DEF q
    <3> QED  BY <3>1, ChunksDiffer, FusionAlwaysFair DEF Query
  <2>2. SearchIsSafe
    <3> SUFFICES ASSUME probe.rule = "search"
                 PROVE  SearchedSafely(q)
      BY DEF SearchIsSafe, Holds
    <3>1. Query(Chunks, q)
      BY DEF InputsShaped, SearchInput
    <3> HIDE DEF q
    <3> QED  BY <3>1, ChunksDiffer, SearchAlwaysSafe
  <2>3. PacksAreFair
    <3> SUFFICES ASSUME probe.rule = "pack"
                 PROVE  PackedFairly(q.chunks, q.conflicting, q.limit)
      BY DEF PacksAreFair, Holds
    <3>1. PackInput(q)
      BY DEF InputsShaped
    <3> HIDE DEF q
    <3> QED  BY <3>1, PackAlwaysFair DEF PackInput
  <2> QED  BY <2>1, <2>2, <2>3 DEF RetrievalIsFair
<1> QED  BY <1>1, InputsBeginShaped, InputsStayShaped, PTL DEF Spec

(* The same of a context: what the router falls back to, what the budget   *)
(* keeps and what the manifest tells of, as an instance of the theorems on *)
(* any answers, any slots and any sources.                                 *)
THEOREM ContextAlwaysKeepsWhatMatters == Spec => []ContextKeepsWhatMatters
<1>1. InputsShaped => ContextKeepsWhatMatters
  <2> SUFFICES ASSUME InputsShaped
               PROVE  ContextKeepsWhatMatters
    OBVIOUS
  <2> DEFINE i == probe.input
  <2>1. RoutesAreSafe
    <3> SUFFICES ASSUME probe.rule = "route"
                 PROVE  RoutedSafely(i)
      BY DEF RoutesAreSafe, Holds
    <3>1. RouteInput(i)
      BY DEF InputsShaped
    <3> HIDE DEF i
    <3> QED  BY <3>1, RoutesAlwaysSafe DEF RouteInput
  <2>2. BudgetsKeepWhatMatters
    <3> SUFFICES ASSUME probe.rule = "budget"
                 PROVE  BudgetKeepsWhatMatters(i.slots, i.available)
      BY DEF BudgetsKeepWhatMatters, Holds
    <3>1. BudgetInput(i)
      BY DEF InputsShaped
    <3> HIDE DEF i
    <3> QED  BY <3>1, BudgetAlwaysKeepsWhatMatters DEF BudgetInput
  <2>3. ManifestsAreTraceable
    <3> SUFFICES ASSUME probe.rule = "manifest"
                 PROVE  ManifestIsTraceable(i)
      BY DEF ManifestsAreTraceable, Holds
    <3>1. ManifestInputOf(i)
      BY DEF InputsShaped
    <3> HIDE DEF i
    <3> QED  BY <3>1, ManifestAlwaysTraceable
  <2> QED  BY <2>1, <2>2, <2>3 DEF ContextKeepsWhatMatters
<1> QED  BY <1>1, InputsBeginShaped, InputsStayShaped, PTL DEF Spec

(* And of rejections that are enough to go by.                             *)
THEOREM AdmissionsAlwaysConverge == Spec => []AdmissionsConverge
<1>1. InputsShaped => AdmissionsConverge
  <2> SUFFICES ASSUME InputsShaped, probe.rule = "admission"
               PROVE  AdmissionConverges(probe.input)
    BY DEF AdmissionsConverge, Holds
  <2>1. AdmissionInput(probe.input)
    BY DEF InputsShaped
  <2> QED  BY <2>1, AdmissionAlwaysConverges DEF AdmissionInput
<1> QED  BY <1>1, InputsBeginShaped, InputsStayShaped, PTL DEF Spec

(* And of what is repaired, replayed, or stored and read back: whatever is *)
(* put keeps its meaning, as an instance of the theorems on any output, any*)
(* events and any payload without a reserved key.                          *)
THEOREM RewritingAlwaysKeepsMeaning == Spec => []RewritingKeepsMeaning
<1>1. InputsShaped => RewritingKeepsMeaning
  <2> SUFFICES ASSUME InputsShaped
               PROVE  RewritingKeepsMeaning
    OBVIOUS
  <2> DEFINE i == probe.input
  <2>1. RepairsAreBounded
    <3> SUFFICES ASSUME probe.rule = "content"
                 PROVE  RepairIsBounded(i.content, i.kind, i.finish, i.max_passes)
      BY DEF RepairsAreBounded, Holds
    <3>1. ContentInput(i)
      BY DEF InputsShaped
    <3> HIDE DEF i
    <3> QED  BY <3>1, RepairAlwaysBounded DEF ContentInput
  <2>2. ReplaysChangeNothing
    <3> SUFFICES ASSUME probe.rule = "events"
                 PROVE  ReplayChangesNothing(i.events, i.from)
      BY DEF ReplaysChangeNothing, Holds
    <3>1. EventsInput(i)
      BY DEF InputsShaped
    <3>2. Untold \in ValuesPut
      BY DEF ValuesPut
    <3> HIDE DEF i
    <3> QED  BY <3>1, <3>2, ReplayNeverChangesAnything DEF EventsInput
  <2>3. PayloadsReadBack
    <3> SUFFICES ASSUME probe.rule = "value"
                 PROVE  ReadsBack(i)
      BY DEF PayloadsReadBack, Holds
    <3>1. ValueInput(i)
      BY DEF InputsShaped
    <3>2. Reserved \intersect {"v", "event"} = {}
      BY DEF Reserved
    <3> HIDE DEF i
    <3> QED  BY <3>1, <3>2, PayloadAlwaysReadBack DEF ValueInput
  <2> QED  BY <2>1, <2>2, <2>3 DEF RewritingKeepsMeaning
<1> QED  BY <1>1, InputsBeginShaped, InputsStayShaped, PTL DEF Spec

(* And of the chains that releases are activated from: whichever parts of  *)
(* two are mixed, whatever is altered before or while it is judged, and    *)
(* whatever is refused, what activates is one of the two as it was written.*)
THEOREM ChainsAlwaysWhole == Spec => []ChainsAreWhole
<1>1. InputsShaped => ChainsAreWhole
  <2> SUFFICES ASSUME InputsShaped, probe.rule = "chain"
               PROVE  ChainIsWhole(probe.input)
    BY DEF ChainsAreWhole, Holds
  <2>1. ChainInput(probe.input)
    BY DEF InputsShaped
  <2> QED  BY <2>1, ChainAlwaysWhole
<1> QED  BY <1>1, InputsBeginShaped, InputsStayShaped, PTL DEF Spec
=============================================================================
