------------------------------ MODULE ModelRules ------------------------------
(***************************************************************************)
(* The repair of truncated model output (model/repair.py).                 *)
(*                                                                         *)
(* Output is the sequence of its braces and brackets; what stands between  *)
(* them is left out, and so is the white space the code takes off the end. *)
(* Some of them may stand in strings: the code counts these too.           *)
(***************************************************************************)
EXTENDS Integers, Sequences, FiniteSets, SequencesExt

-----------------------------------------------------------------------------
(* StructuralRepairer                                                      *)
NonRepairable(kind, finish_reason) ==
  \/ kind \in {"refusal", "no_progress", "need_input"}
  \/ finish_reason \in {"content_filter", "tool_calls"}

Count(content, character) == Cardinality({i \in DOMAIN content : content[i] = character})

Copies(character, n) == [i \in 1..n |-> character]

(* _repair_truncated_json: first all the braces, then all the brackets.    *)
CloseDelimiters(content) ==
  LET braces == Count(content, "{") - Count(content, "}")
      brackets == Count(content, "[") - Count(content, "]") IN
  IF braces < 0 \/ brackets < 0 THEN content
  ELSE content \o Copies("}", braces) \o Copies("]", brackets)

(* Passes until one changes nothing, at most the limit.                    *)
Repair(content, kind, finish_reason, max_passes) ==
  LET pass[n \in 0..max_passes] ==
        IF n = 0 THEN content ELSE CloseDelimiters(pass[n - 1])
      passes == Cardinality({n \in 1..max_passes : pass[n] # pass[n - 1]}) IN
  IF NonRepairable(kind, finish_reason)
    THEN [status |-> "non_repairable", content |-> content, passes |-> 0]
    ELSE [status |-> "repaired", content |-> pass[max_passes], passes |-> passes]

-----------------------------------------------------------------------------
(* Reference: the delimiters still open, innermost first; Broken when one  *)
(* was closed that was not the innermost.                                  *)
Broken == <<"broken">>

OpenDelimiters(content) ==
  LET closes(opening) == IF opening = "{" THEN "}" ELSE "]" IN
  FoldLeft(LAMBDA open, character :
             CASE open = Broken -> Broken
               [] open # Broken /\ character \in {"{", "["} -> <<character>> \o open
               [] OTHER -> IF open # <<>> /\ character = closes(Head(open))
                             THEN Tail(open) ELSE Broken,
           <<>>, content)

(* For output without braces or brackets in strings (repair counts those   *)
(* too, repair.py 67, and may rewrite what is well formed): it never takes *)
(* one away, leaves well-formed output alone, is done after one pass       *)
(* however many it may take, and gives output that was cut off inside one  *)
(* kind of delimiter its closing ones.                                     *)
RepairIsBounded(content, kind, finish_reason, max_passes) ==
  LET result == Repair(content, kind, finish_reason, max_passes) IN
  /\ IsPrefix(content, result.content)
  /\ result.passes <= 1
  /\ NonRepairable(kind, finish_reason) \/ OpenDelimiters(content) = <<>>
       => result.content = content
  /\ ~ NonRepairable(kind, finish_reason) /\ OpenDelimiters(content) # Broken
       /\ Cardinality(ToSet(OpenDelimiters(content))) = 1
       => OpenDelimiters(result.content) = <<>>
=============================================================================
