----------------------------- MODULE ContextAssembly -----------------------------
(***************************************************************************)
(* The pure part of context/: which backend a router asks                  *)
(* (retrieval_router.py), what a token budget keeps (token_budgeter.py),   *)
(* what goes into an evidence pack (evidence_assembler.py) and the         *)
(* manifest a context builder makes of it (context_build.py).              *)
(*                                                                         *)
(* References are numbers, which sort as the strings do.  The content of a *)
(* source is its number of tokens.  A time that is not known is Unknown.   *)
(***************************************************************************)
EXTENDS Orders, SequencesExt

Unknown == -1

FirstN(seq, n) == SubSeq(seq, 1, IF Len(seq) < n THEN Len(seq) ELSE n)

-----------------------------------------------------------------------------
(* RetrievalRouter.  A backend answers with candidates or fails; one that  *)
(* is not there fails as well.                                             *)
Routes == <<"hybrid", "vector", "lexical">>

DefaultRoute == "lexical"

SelectRoute(backends) ==
  LET offered == Filter(Routes, LAMBDA route : route \in backends) IN
  IF offered = <<>> THEN DefaultRoute ELSE Head(offered)

Authorize(candidates, authorized, principal) ==
  Filter(candidates, LAMBDA c :
    c.source \in authorized /\ c.scopes \intersect principal # {})

(* answers: what each backend that answers returns.                        *)
SearchRoutes(backends, answers, authorized, principal) ==
  LET answering == backends \intersect DOMAIN answers
      route == SelectRoute(backends) IN
  CASE route \in answering -> Authorize(answers[route], authorized, principal)
    [] route \notin answering /\ DefaultRoute \in answering ->
         Authorize(answers[DefaultRoute], authorized, principal)
    [] OTHER -> <<>>

-----------------------------------------------------------------------------
(* TokenBudgeter.  The items of all slots in order, each with its slot.    *)
Critical(slot) == slot.critical \/ slot.tier = 0

SlotOrder(slots) ==
  InOrder(slots, LAMBDA a, b : a.tier < b.tier \/ (a.tier = b.tier /\ a.ref < b.ref))

(* _order_slots: an item counts where it comes first.                      *)
Entries(slots) ==
  LET order == SlotOrder(slots)
      all == FlattenSeq([i \in DOMAIN order |->
               [j \in DOMAIN order[i].items |->
                 [slot |-> order[i], item |-> order[i].items[j]]]]) IN
  FoldLeft(LAMBDA seen, entry :
             IF \E i \in DOMAIN seen : seen[i].item.ref = entry.item.ref
               THEN seen ELSE Append(seen, entry),
           <<>>, all)

Tokens(entries) == FoldLeft(LAMBDA sum, entry : sum + entry.item.tokens, 0, entries)

OfSlot(entries, slot) == Filter(entries, LAMBDA entry : entry.slot = slot)

CriticalOf(entries) == Filter(entries, LAMBDA entry : Critical(entry.slot))

Fits(entry, kept, available) ==
  /\ Tokens(kept) + entry.item.tokens <= available
  /\ Tokens(OfSlot(kept, entry.slot)) + entry.item.tokens <= entry.slot.max

(* Mutant: the first item that does not fit ends the packing.              *)
PlaceUntilFull(result, entry, available) ==
  IF result.status = "ok" /\ result.omitted # <<>>
    THEN [result EXCEPT !.omitted = Append(@, entry)]
    ELSE CASE result.status # "ok" -> result
           [] Critical(entry.slot) \/ Fits(entry, result.kept, available) ->
                [result EXCEPT !.kept = Append(@, entry)]
           [] OTHER -> [result EXCEPT !.omitted = Append(@, entry)]

Place(result, entry, available) ==
  CASE result.status # "ok" -> result
    [] result.status = "ok"
         /\ (Critical(entry.slot) \/ Fits(entry, result.kept, available)) ->
         [result EXCEPT !.kept = Append(@, entry)]
    [] result.status = "ok" /\ ~ Critical(entry.slot)
         /\ ~ Fits(entry, result.kept, available) /\ entry.item.negation ->
         [status |-> "critical_negation_would_be_truncated", kept |-> <<>>,
          omitted |-> <<>>]
    [] OTHER -> [result EXCEPT !.omitted = Append(@, entry)]

(* budget: available is the total less the reserve and the overhead.       *)
Budget(slots, available) ==
  LET entries == Entries(slots) IN
  IF Tokens(CriticalOf(entries)) > available
    THEN [status |-> "critical_slots_exceed_budget", kept |-> <<>>, omitted |-> <<>>]
    ELSE FoldLeft(LAMBDA result, entry : Place(result, entry, available),
                  [status |-> "ok", kept |-> <<>>, omitted |-> <<>>], entries)

-----------------------------------------------------------------------------
(* EvidenceAssembler.assemble                                              *)
Stale(candidate, observed_at, max_age) ==
  /\ max_age # Unknown
  /\ \/ candidate.observed = Unknown
     \/ observed_at = Unknown
     \/ observed_at - candidate.observed > max_age

(* conflicts: a set of claims with their sources; required: the questions. *)
Assemble(candidates, conflicts, required, observed_at, max_age) ==
  LET items == Filter(candidates, LAMBDA c :
                 c.proof /\ ~ Stale(c, observed_at, max_age))
      sources == {items[i].source : i \in DOMAIN items} IN
  [items |-> items,
   conflicts |-> {conflict \in conflicts : conflict.sources \intersect sources # {}},
   missing |-> required \ sources]

-----------------------------------------------------------------------------
(* ContextBuilder                                                          *)
TierOf(trust) ==
  CASE trust = "tier0" -> 0 [] trust = "high" -> 1 [] trust = "medium" -> 2 [] OTHER -> 4

Permitted(sources, principal) ==
  {source \in sources : source.scopes \intersect principal # {}}

Selected(sources, principal, max_snippets) ==
  FirstN(InOrder(Permitted(sources, principal), LAMBDA a, b :
           \/ TierOf(a.trust) < TierOf(b.trust)
           \/ TierOf(a.trust) = TierOf(b.trust) /\ a.ref < b.ref), max_snippets)

(* One slot of one item for each source that was selected.                 *)
SlotOf(source, max_tokens) ==
  [ref |-> source.ref, tier |-> TierOf(source.trust), max |-> max_tokens,
   critical |-> TierOf(source.trust) = 0,
   items |-> <<[ref |-> source.ref, tokens |-> source.tokens, negation |-> FALSE]>>]

(* The builder proves every source itself and knows no time of observation,*)
(* so that a requirement of freshness leaves the pack empty.               *)
CandidateOfSource(source) ==
  [source |-> source.ref, proof |-> TRUE, observed |-> Unknown]

Rejection(reason) == [status |-> reason]

(* What the builder returns of the selected sources once they are budgeted.*)
Manifest(input, selected, budgeted) ==
  LET sections == {budgeted.kept[i].item.ref : i \in DOMAIN budgeted.kept}
      fitted == Filter(selected, LAMBDA source : source.ref \in sections)
      pack == Assemble([i \in DOMAIN fitted |-> CandidateOfSource(fitted[i])],
                       {}, {}, Unknown, input.max_age) IN
  [status |-> "ok",
   sections |-> sections,
   source_refs |-> {pack.items[i].source : i \in DOMAIN pack.items},
   omissions |-> {budgeted.omitted[i].item.ref : i \in DOMAIN budgeted.omitted},
   tokens |-> Tokens(budgeted.kept)]

Build(input) ==
  LET selected == Selected(input.sources, input.principal, input.max_snippets)
      budgeted == Budget({SlotOf(selected[i], input.max_tokens) : i \in DOMAIN selected},
                         input.max_tokens - input.reserve) IN
  IF budgeted.status = "ok" THEN Manifest(input, selected, budgeted)
                            ELSE Rejection(budgeted.status)

-----------------------------------------------------------------------------
(* An outage is invisible to a caller but for the candidates it gets: they *)
(* are those of a router that never had the failed backend, and on no path *)
(* is one of them outside the sources and the scopes of the principal.     *)
RoutedSafely(query) ==
  LET search(backends) == SearchRoutes(backends, query.answers, query.authorized,
                                       query.principal)
      served == search(query.backends) IN
  /\ SelectRoute(query.backends) \notin DOMAIN query.answers =>
       served = search(query.backends \intersect {DefaultRoute})
  /\ \A i \in DOMAIN served :
       /\ served[i].source \in query.authorized
       /\ served[i].scopes \intersect query.principal # {}

(* A budget that succeeds accounts for every item once, as kept or omitted;*)
(* an item of a critical slot and a negation is never omitted, and no item *)
(* is omitted that fits beside what was kept of its tier and above.  It    *)
(* fails only when the critical items alone are too many or a negation has *)
(* no room.                                                                *)
BudgetKeepsWhatMatters(slots, available) ==
  LET result == Budget(slots, available)
      entries == ToSet(Entries(slots))
      kept == ToSet(result.kept)
      omitted == ToSet(result.omitted) IN
  CASE result.status = "ok" ->
         /\ kept \union omitted = entries
         /\ kept \intersect omitted = {}
         /\ Len(result.kept) + Len(result.omitted) = Cardinality(entries)
         /\ \A entry \in omitted :
              /\ ~ Critical(entry.slot)
              /\ ~ entry.item.negation
              /\ ~ Fits(entry, Filter(result.kept, LAMBDA e :
                                  e.slot.tier <= entry.slot.tier), available)
         /\ \A slot \in slots :
              ~ Critical(slot) => Tokens(OfSlot(result.kept, slot)) <= slot.max
    [] result.status = "critical_slots_exceed_budget" ->
         Tokens(CriticalOf(Entries(slots))) > available
    [] OTHER ->
         \E entry \in entries :
           /\ entry.item.negation
           /\ ~ Critical(entry.slot)
           /\ \/ entry.item.tokens > entry.slot.max
              \/ Tokens(Entries(slots)) > available
              \/ Tokens(OfSlot(Entries(slots), entry.slot)) > entry.slot.max

(* A manifest uses permitted sources only, never a lower one in place of a *)
(* higher one it had no room to select, stays within its tokens, and tells *)
(* of every selected source whether it is a section or an omission.  Each  *)
(* section is backed by the evidence pack unless freshness was required.   *)
TracesItsSources(manifest, permitted, input) ==
  LET told == manifest.sections \union manifest.omissions
      refs(sources) == {source.ref : source \in sources} IN
  manifest.status = "ok" =>
    /\ manifest.tokens <= input.max_tokens - input.reserve
    /\ manifest.sections \intersect manifest.omissions = {}
    /\ told \subseteq refs(permitted)
    /\ Cardinality(told) <= input.max_snippets
    /\ \A source \in permitted :
         source.ref \notin told =>
           /\ Cardinality(told) = input.max_snippets
           /\ \A other \in permitted :
                other.ref \in told => TierOf(other.trust) <= TierOf(source.trust)
    /\ refs({source \in permitted : source.trust = "tier0"}) \intersect manifest.omissions = {}
    /\ manifest.source_refs \in {manifest.sections, {}}
    /\ manifest.source_refs # manifest.sections => input.max_age # Unknown

ManifestIsTraceable(input) ==
  TracesItsSources(Build(input),
                   {source \in input.sources :
                      source.scopes \intersect input.principal # {}}, input)
=============================================================================
