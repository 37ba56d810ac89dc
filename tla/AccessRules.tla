------------------------------ MODULE AccessRules ------------------------------
(***************************************************************************)
(* The identity of an action (tool/fingerprint.py) and what the policy     *)
(* decision point decides about one (security/policy.py).                  *)
(*                                                                         *)
(* A resource pattern is the set of resources it matches.  An argument of  *)
(* a call is the atom that its key leads to: its kind, its value and the   *)
(* way it was spelled (the Unicode form of a text, the zeros of a decimal, *)
(* the zone of a moment), and the key it stands under within a dict, or    *)
(* Itself if there is no dict.  The value of a decimal is the text of its  *)
(* normal form, that of a moment its ISO text in UTC.                      *)
(***************************************************************************)
EXTENDS Integers, Sequences, FiniteSets, SequencesExt

-----------------------------------------------------------------------------
Itself == "itself"

AsText(argument) == [argument EXCEPT !.kind = "text", !.spelling = "canonical"]

(* Mutant: a moment keeps the zone it was given in.                        *)
CanonicalKeepsZone(argument) ==
  IF argument.kind \in {"text", "decimal"} THEN AsText(argument) ELSE argument

(* ActionFingerprint.  canonicalize_argument: an int, a float and a bool   *)
(* stay what they are, so that 1, 1.0 and true are three arguments; a      *)
(* decimal and a moment become texts.                                      *)
Canonical(argument) ==
  IF argument.kind \in {"text", "decimal", "moment"} THEN AsText(argument) ELSE argument

Redacted ==
  [kind |-> "text", value |-> "[REDACTED]", spelling |-> "canonical", within |-> Itself]

(* The value of a key that looks like a secret is left out of the identity;*)
(* only the keys of the arguments themselves are looked at.                *)
CanonicalArguments(arguments, secret_keys) ==
  [key \in DOMAIN arguments |->
     IF key \in secret_keys THEN Redacted ELSE Canonical(arguments[key])]

ActionKey(call, secret_keys) ==
  [call EXCEPT !.arguments = CanonicalArguments(@, secret_keys)]

-----------------------------------------------------------------------------
(* PolicyDecisionPoint.evaluate                                            *)
MatchingRules(rules, action, resource) ==
  {rule \in rules : rule.action = action /\ resource \in rule.resources}

(* The roles of every rule count, matched or not.                          *)
SharedRoles(roles, rules) == roles \intersect UNION {rule.roles : rule \in rules}

PolicyDecision(roles, rules, action, resource) ==
  LET matched == MatchingRules(rules, action, resource) IN
  CASE matched = {} -> [outcome |-> "deny", reason |-> "no_matching_rule"]
    [] \E rule \in matched : rule.require_approval ->
         [outcome |-> "require_approval", reason |-> "approval_required"]
    [] /\ \A rule \in matched : ~ rule.require_approval
       /\ \E rule \in matched : rule.effect = "allow"
       /\ SharedRoles(roles, rules) # {} ->
         [outcome |-> "allow", reason |-> "rule_matched"]
    [] OTHER -> [outcome |-> "deny", reason |-> "missing_role"]

-----------------------------------------------------------------------------
(* Two calls are one action exactly when they agree in everything but the  *)
(* way their arguments are spelled and the values of the arguments whose   *)
(* keys are secret; a decimal and a moment are the texts they are written  *)
(* as.  Not to know a repeated call again would act twice, and to take     *)
(* another call for it would not act at all.  Only the arguments' own keys *)
(* are asked whether they are secret: a dict is not searched for secret    *)
(* keys (fingerprint.py 24-27), and what it has under them counts.         *)
KeysTellCallsApart(one, other, secret_keys) ==
  LET written(argument) == argument.kind \in {"text", "decimal", "moment"}
      meaning(argument) ==
        <<IF written(argument) THEN "text" ELSE argument.kind, argument.value,
          IF written(argument) THEN "any" ELSE argument.spelling, argument.within>> IN
  ActionKey(one, secret_keys) = ActionKey(other, secret_keys) <=>
    /\ one.capability = other.capability
    /\ DOMAIN one.arguments = DOMAIN other.arguments
    /\ \A key \in DOMAIN one.arguments \ secret_keys :
         meaning(one.arguments[key]) = meaning(other.arguments[key])

(* A rule more never takes away a demand for approval, and one that allows *)
(* never turns an allowed action into a denied one; one that does not match*)
(* changes an answer at most from a missing role to allowed.  What a rule  *)
(* of another effect should change is left open: of an effect the code asks*)
(* only whether it is "allow", so that a matched "deny" gives way to any   *)
(* rule that allows, and "require_approval" demands none.                  *)
RulesAddUp(roles, rules, action, resource) ==
  \A rule \in rules :
    LET with == PolicyDecision(roles, rules, action, resource)
        without == PolicyDecision(roles, rules \ {rule}, action, resource) IN
    /\ without.outcome = "require_approval" => with.outcome = "require_approval"
    /\ rule.effect = "allow" /\ without.outcome = "allow" =>
         with.outcome \in {"allow", "require_approval"}
    /\ rule \notin MatchingRules(rules, action, resource) /\ with # without =>
         /\ without.reason = "missing_role"
         /\ with.outcome = "allow"
         /\ rule.roles \intersect roles # {}
=============================================================================
