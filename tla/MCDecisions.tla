------------------------------ MODULE MCDecisions ------------------------------
(***************************************************************************)
(* The pure rules of admission/, security/, context/, rag/, eval/,         *)
(* evolution/, model/, of the release chain, the projector and the codec   *)
(* of payloads, as behaviours: a step puts one input to one rule, and the  *)
(* next one takes it back.                                                 *)
(***************************************************************************)
EXTENDS AdmissionRules, AccessRules, ContextAssembly, RetrievalRules, EvalRules,
        ReleaseActivation, MutationSurface, ModelRules, Projections

VARIABLE probe

Nothing == [rule |-> "none"]

Put(rule, input) == probe' = [rule |-> rule, input |-> input]

TakeBack == probe.rule # "none" /\ probe' = Nothing

Init == probe = Nothing

Holds(rule, Property(_)) == probe.rule = rule => Property(probe.input)

SeqsUpTo(S, n) == UNION {[1..m -> S] : m \in 0..n}

-----------------------------------------------------------------------------
(* rag/: three chunks of two sources, and the answers of both channels.    *)
Chunks ==
  {[id |-> 1, source |-> "a", version |-> 1, text |-> "t", locator |-> "l1"],
   [id |-> 2, source |-> "b", version |-> 1, text |-> "u", locator |-> "l2"],
   [id |-> 3, source |-> "a", version |-> 1, text |-> "t", locator |-> "l3"],
   [id |-> 4, source |-> "c", version |-> 1, text |-> "v", locator |-> "l4"]}

PutSearch ==
  \E lexical, vector \in SetToAllKPermutations({chunk \in Chunks : chunk.id # 4}),
     allowlist \in {{}, {"a"}, {"a", "b"}}, embedded, failed \in BOOLEAN,
     k \in {1, 60}, top_k \in {1, 3} :
    Put("search", [lexical |-> lexical, vector |-> vector, allowlist |-> allowlist,
                   sources |-> {"b"}, embedded |-> embedded, backend_failed |-> failed,
                   rrf_k |-> k, top_k |-> top_k])

PutPack ==
  \E chunks \in SeqsUpTo(Chunks, 4), conflicting \in SUBSET {"a", "b"}, limit \in 1..2 :
    Put("pack", [chunks |-> chunks, conflicting |-> conflicting, limit |-> limit])

-----------------------------------------------------------------------------
(* context/                                                                *)
Candidates ==
  {<<[source |-> "a", scopes |-> {"p"}], [source |-> "b", scopes |-> {"p"}]>>,
   <<[source |-> "a", scopes |-> {}], [source |-> "b", scopes |-> {"p", "q"}]>>,
   <<[source |-> "b", scopes |-> {"q"}]>>}

PutRoute ==
  \E backends \in SUBSET {"hybrid", "vector", "lexical"} :
    \E up \in SUBSET backends :
      \E answers \in [up -> Candidates], authorized \in SUBSET {"a", "b"},
         principal \in {{}, {"p"}, {"q"}} :
        Put("route", [backends |-> backends, answers |-> answers,
                      authorized |-> authorized, principal |-> principal])

Item(ref, tokens, negation) == [ref |-> ref, tokens |-> tokens, negation |-> negation]

ItemLists ==
  {<<Item(1, 2, FALSE)>>, <<Item(2, 1, FALSE), Item(1, 2, FALSE)>>,
   <<Item(3, 2, TRUE)>>, <<Item(1, 2, FALSE), Item(4, 1, FALSE), Item(3, 2, TRUE)>>}

SlotsAt(ref, tiers) ==
  [ref : {ref}, tier : tiers, critical : BOOLEAN, max : {1, 3}, items : ItemLists]

PutBudget ==
  \E first \in SlotsAt(1, 0..2), second \in SlotsAt(2, 1..2),
     available \in {2, 4}, more \in BOOLEAN :
    LET last == [ref |-> 3, tier |-> 2, critical |-> FALSE, max |-> 3,
                 items |-> <<Item(5, 2, FALSE), Item(6, 1, FALSE)>>] IN
    Put("budget", [slots |-> {first, second} \union IF more THEN {last} ELSE {},
                   available |-> available])

SourcesAt(ref) ==
  [ref : {ref}, scopes : {{}, {"p"}}, trust : {"tier0", "high", "low"}, tokens : {1, 3}]

PutManifest ==
  \E one \in SourcesAt(1), two \in SourcesAt(2), three \in SourcesAt(3),
     max_snippets \in 1..2, max_tokens \in {3, 5}, max_age \in {Unknown, 5} :
    Put("manifest", [sources |-> {one, two, three}, principal |-> {"p"},
                     max_snippets |-> max_snippets, max_tokens |-> max_tokens,
                     reserve |-> 1, max_age |-> max_age])

-----------------------------------------------------------------------------
(* admission/ and security/                                                *)
PutAdmission ==
  \E release \in {"missing", "draft", "incompatible", "usable"},
     denied, decided, snapshot, adapter, agent, capacity \in BOOLEAN,
     steps \in {NoLimit, 0, 1}, overhead \in 0..1,
     regions \in {<<>>, <<"cn-east">>, <<"eu", "cn-east", "us">>},
     phase \in {"queued", "admitting"} :
    Put("admission",
        [release |-> release, denied |-> denied, decided |-> decided,
         snapshot |-> snapshot, limits |-> [steps |-> steps, tokens |-> NoLimit],
         overhead |-> overhead, regions |-> regions,
         region_allowlist |-> {"cn-east", "cn-north"}, adapter |-> adapter,
         agent |-> agent, phase |-> phase, capacity |-> capacity])

AccessRuleSet ==
  [action : {"pay"}, resources : {{"order"}, {"invoice"}},
   effect : {"allow", "deny", "require_approval"}, roles : {{}, {"clerk"}},
   require_approval : BOOLEAN]

PutPolicy ==
  \E rules \in {{}} \union {{a, b, c} : a, b, c \in AccessRuleSet},
     roles \in SUBSET {"clerk", "guest"} :
    Put("policy", [roles |-> roles, rules |-> rules])

Arguments ==
  [kind : {"text"}, value : {"1", "noon"}, spelling : {"nfc", "nfd"}, within : {Itself}]
    \union [kind : {"decimal"}, value : {"1"}, spelling : {"1.0", "1.00"}, within : {Itself}]
    \union [kind : {"moment"}, value : {"noon"}, spelling : {"utc", "local"}, within : {Itself}]
    \union [kind : {"int", "float", "bool"}, value : {"1"}, spelling : {"plain"}, within : {Itself}]
    \union [kind : {"text"}, value : {"1", "noon"}, spelling : {"nfc"}, within : {"token"}]

Calls(capabilities) ==
  [capability : capabilities,
   arguments : UNION {[keys -> Arguments] : keys \in SUBSET {"amount", "token"}}]

PutCalls ==
  \E one \in Calls({"pay"}), other \in Calls({"pay", "refund"}) :
    Put("calls", [one |-> one, other |-> other])

-----------------------------------------------------------------------------
(* eval/                                                                   *)
PutOutputs ==
  \E n \in {0, 1, 3, 5}, conditions \in {{}, {"cited"}}, min_sample \in {1, 4} :
    \E answered \in SUBSET (1..n) :
      \E outputs \in [answered -> [met : SUBSET {"cited"}, complete : BOOLEAN]] :
        Put("outputs", [cases |-> 1..n, outputs |-> outputs, conditions |-> conditions,
                        min_sample |-> min_sample])

-----------------------------------------------------------------------------
(* evolution/: proposals of two patches at most.                           *)
PutProposal ==
  \E changes \in SeqsUpTo({patch \in Patches({"agent", "governance"}, {"prompt", "temperature", "owner"},
                                           {NoValue, NumberValue(1), NumberValue(3)} \union OtherValues) :
                           patch.before \in {NoValue, NumberValue(1)}}, 2),
     level \in {"r1", "r2"} :
    Put("proposal",
        [proposal |-> [target |-> "agent", level |-> level, changes |-> changes],
         subject |-> [mutable |-> {"prompt", "temperature"}, frozen |-> {"owner"},
                      levels |-> {"r1"}, max_patch_fields |-> 2,
                      ranges |-> [temperature |-> [low |-> 0, high |-> 2]]],
         authority |-> [allow_mutation |-> TRUE, governance_kernel_frozen |-> TRUE]])

-----------------------------------------------------------------------------
(* common/schema_registry.py: a chain whose gates were asked at a moment,  *)
(* the decision and the manifest one and two moments later.                *)
Scope(tenant) == [tenant |-> tenant, traffic |-> "all"]

Meta(contract, object, tenant) ==
  [contract |-> contract, object |-> object, tenant |-> tenant]

Versions == [prompt |-> {"p@1"}, tool |-> {"t@1", "u@1"}]

Component(type, version) == [type |-> type, version |-> version]

Built == <<Component("prompt", "p@1"), Component("tool", "t@1"), Component("tool", "u@1")>>

Citing(part, gates) ==
  [field \in DOMAIN part \union {"gates"} |-> IF field = "gates" THEN gates ELSE part[field]]

Chain(again, moment) ==
  LET id == [p \in Parts |-> IF p = "candidate" THEN <<p, "only">> ELSE <<p, again>>]
      judged(p, outcome, at) ==
        [id |-> id[p], shape |-> "valid", meta |-> Meta(p, id[p], "t1"),
         status |-> "active", outcome |-> outcome, issued |-> at, expires |-> 9,
         failures |-> {}, candidate |-> <<"candidate", "only">>, environment |-> "prod",
         scope |-> Scope("t1"), by |-> p]
      cited == [gate \in Gates |-> id[gate]]
  IN  [p \in Parts |->
        CASE p \in Gates      -> judged(p, "pass", moment)
          [] p = "decision"   -> Citing(judged(p, "approved", moment + 1), cited)
          [] p = "candidate"  -> [id |-> id[p], shape |-> "valid", by |-> "builder",
                                  meta |-> Meta(p, id[p], "t1"), built |-> 1,
                                  components |-> Built, ranges |-> "r", matrix |-> "m",
                                  migrations |-> {"g"}]
          [] p = "manifest"   -> [id |-> id[p], shape |-> "valid", by |-> "publisher",
                                  meta |-> Meta(p, id[p], "t1"), status |-> "active",
                                  created |-> moment + 2, expiry |-> {},
                                  environment |-> "prod", gates |-> cited,
                                  decision |-> id["decision"], versions |-> Versions,
                                  ranges |-> "r", matrix |-> "m", migrations |-> {"g"}]]

Alter(parts, field, values) == {field} \X parts \X values

Other == <<"candidate", "other">>

OtherGates == [gate \in Gates |-> <<gate, IF gate = "security" THEN "none" ELSE "first">>]

Alterations ==
  LET judges == Gates \union {"decision"} IN
  UNION {
    Alter({"candidate"}, "shape", {"valid", "invalid"}),
    Alter(Parts, "id", {Other}),
    Alter(Parts, "meta", {Meta("candidate", Other, "t1"), Meta("manifest", Other, "t2")}),
    UNION {Alter({p}, "meta", {Meta(p, <<p, "first">>, "t2")}) : p \in judges},
    Alter(judges, "status", {"revoked"}), Alter(judges, "outcome", {"fail"}),
    Alter(judges, "issued", {0, 6, 9}), Alter(judges, "expires", {5}),
    Alter({"quality", "security"}, "failures", {{"h"}}),
    Alter(judges, "candidate", {Other}), Alter(judges, "scope", {Scope("t2")}),
    Alter(judges \union {"manifest"}, "environment", {"test"}),
    Alter(judges \union {"manifest"}, "by", {"builder"}),
    Alter({"quality"}, "by", {"security", "readiness", "decision"}),
    Alter({"candidate"}, "by", judges \union {"publisher"}),
    Alter({"candidate"}, "built", {4, 6}),
    Alter({"candidate"}, "components", {<<>>, Tail(Built), <<Head(Built)>> \o Built}),
    Alter({"decision", "manifest"}, "gates", {OtherGates}),
    Alter({"manifest"}, "decision", {Other}), Alter({"manifest"}, "status", {"retired"}),
    Alter({"manifest"}, "created", {0, 6}), Alter({"manifest"}, "expiry", {{0}, {5}}),
    Alter({"manifest"}, "versions", {[Versions EXCEPT !.tool = @ \union {"v@1"}],
                                     [Versions EXCEPT !.tool = {"t@1"}]}),
    Alter({"candidate", "manifest"}, "ranges", {"other"}),
    Alter({"candidate", "manifest"}, "matrix", {"other"}),
    Alter({"candidate", "manifest"}, "migrations", {{}, {"g", "h"}})}

PutChain ==
  \E parts \in SUBSET (Parts \ {"candidate"}), alter \in Alterations,
     meanwhile \in BOOLEAN,
     refused \in {{}, {<<"readiness", "waivers">>}, {<<"candidate", "rollback">>}} :
    Put("chain", [one |-> Chain("first", 2), other |-> Chain("again", 3), parts |-> parts,
                  alter |-> alter, meanwhile |-> meanwhile, refused |-> refused,
                  expected |-> <<"candidate", "only">>, now |-> 5])

-----------------------------------------------------------------------------
(* model/                                                                  *)
PutContent ==
  \E content \in SeqsUpTo({"{", "}", "[", "]"}, 5), max_passes \in 1..2,
     ended \in {<<"final_response", "stop">>, <<"final_response", "content_filter">>,
                <<"refusal", "stop">>} :
    Put("content", [content |-> content, kind |-> ended[1], finish |-> ended[2],
                    max_passes |-> max_passes])

-----------------------------------------------------------------------------
(* operations/projections.py and infrastructure/db/serialization.py        *)
Event(name, value, version) ==
  [name |-> name, value |-> value, version |-> version, at |-> version]

RunEvents ==
  {Event("created", Untold, 1), Event("phase_changed", "queued", 2),
   Event("phase_changed", "running", 3), Event("wait_registered", "approval", 4),
   Event("retry_scheduled", "2", 5), Event("terminal_committed", "completed", 6)}

PutEvents ==
  \E events \in SeqsUpTo(RunEvents, 4) : \E from \in DOMAIN events :
    Put("events", [events |-> events, from |-> from])

Leaves == [is : {"atom"}] \union [is : {"moment"}, zone : {"none", "utc", "cn"}]

Containers ==
  [is : {"tuple", "list", "object", "foreign"}] \union [is : {"dict"}, key : {"v", "event"}]
    \union [is : {"keyed"}, key : {"event"}]

PutValue ==
  \E outer \in SeqsUpTo(Containers, 3), leaf \in Leaves :
    Put("value", Append(outer, leaf))

-----------------------------------------------------------------------------
PutOne ==
  \/ PutSearch \/ PutPack
  \/ PutRoute \/ PutBudget \/ PutManifest
  \/ PutAdmission \/ PutPolicy \/ PutCalls
  \/ PutOutputs
  \/ PutProposal \/ PutChain
  \/ PutContent \/ PutEvents \/ PutValue

Next == (probe.rule = "none" /\ PutOne) \/ TakeBack

Spec == Init /\ [][Next]_probe

-----------------------------------------------------------------------------
(* Hybrid search fuses both channels fairly (FusedFairly).                 *)
FusionIsFair == Holds("search", LAMBDA q :
  FusedFairly(q.lexical, q.vector, Fuse(q.lexical, q.vector, q.rrf_k)))

(* Whatever fails, a search serves what it may (SearchedSafely).           *)
SearchIsSafe == Holds("search", SearchedSafely)

(* An evidence pack fills fairly (PackedFairly).                           *)
PacksAreFair == Holds("pack", LAMBDA i :
  PackedFairly(i.chunks, i.conflicting, i.limit))

(* Retrieval gives each chunk its due, whichever channel fails.            *)
RetrievalIsFair == FusionIsFair /\ SearchIsSafe /\ PacksAreFair

(* The fallback of the router keeps its guards (RoutedSafely).             *)
RoutesAreSafe == Holds("route", RoutedSafely)

(* The token budget drops only what it may (BudgetKeepsWhatMatters).       *)
BudgetsKeepWhatMatters == Holds("budget", LAMBDA i :
  BudgetKeepsWhatMatters(i.slots, i.available))

(* Manifests tell of every source they used (ManifestIsTraceable).         *)
ManifestsAreTraceable == Holds("manifest", ManifestIsTraceable)

(* A context has what matters and only what may be seen, and tells of the  *)
(* rest.                                                                   *)
ContextKeepsWhatMatters ==
  RoutesAreSafe /\ BudgetsKeepWhatMatters /\ ManifestsAreTraceable

(* Rejections are enough to go by (AdmissionConverges).                    *)
AdmissionsConverge == Holds("admission", AdmissionConverges)

(* More rules never deny what fewer allow (RulesAddUp).                    *)
PoliciesAddUp == Holds("policy", LAMBDA i : RulesAddUp(i.roles, i.rules, "pay", "order"))

(* Actions are told apart by what they mean (KeysTellCallsApart).          *)
KeysAreIdentities == Holds("calls", LAMBDA i :
  KeysTellCallsApart(i.one, i.other, {"token"}))

(* Who may do what, and what counts as the same action, does not depend on *)
(* further rules or on how a call is written.                              *)
AccessIsConsistent == PoliciesAddUp /\ KeysAreIdentities

(* A better candidate is judged no worse (EvaluationIsMonotone).           *)
EvaluationsAreMonotone == Holds("outputs", LAMBDA i :
  EvaluationIsMonotone(i.cases, i.outputs, i.conditions, i.min_sample))

(* What a wider surface allows (SurfaceIsMonotone).                        *)
SurfacesAreMonotone == Holds("proposal", LAMBDA i :
  SurfaceIsMonotone(i.proposal, i.subject, i.authority))

(* What is better, and what is allowed more, is judged no worse.           *)
BetterIsNoWorse == EvaluationsAreMonotone /\ SurfacesAreMonotone

(* A release is activated from one whole chain (ChainIsWhole).             *)
ChainsAreWhole == Holds("chain", ChainIsWhole)

(* Repair adds delimiters, at most once (RepairIsBounded).                 *)
RepairsAreBounded == Holds("content", LAMBDA i :
  RepairIsBounded(i.content, i.kind, i.finish, i.max_passes))

(* Redelivery does not change a summary (ReplayChangesNothing).            *)
ReplaysChangeNothing == Holds("events", LAMBDA i :
  ReplayChangesNothing(i.events, i.from))

(* Stored payloads are read back (ReadsBack).                              *)
PayloadsReadBack == Holds("value", ReadsBack)

(* What is rewritten - a summary by a redelivery, a payload by the codec,  *)
(* an answer of a model by its repair - goes on saying what it said.       *)
RewritingKeepsMeaning == ReplaysChangeNothing /\ PayloadsReadBack /\ RepairsAreBounded
=============================================================================
