---------------------------- MODULE EvolutionRelease ----------------------------
(***************************************************************************)
(* evolution/kernel.py with release/release.py: a trigger leads through    *)
(* routing, strategy and validation to a genome, the candidate build hook  *)
(* turns a genome into a release candidate, and the release controller     *)
(* activates candidates and rolls manifests back.                          *)
(*                                                                         *)
(* Every method is synchronous and one step; one that raises has done what *)
(* it did before.  Objects are immutable and callers keep what they were   *)
(* returned: whatever was returned once may be passed in later.  The kernel *)
(* takes triggers and proposals as they are passed, so they may also be    *)
(* made by a caller (0), a proposal with the id of another and a status of *)
(* its own; candidates and manifests are those the controller returned.    *)
(* Gates and release decisions come from outside (eval and release         *)
(* governance).                                                            *)
(***************************************************************************)
EXTENDS MutationSurface, FiniteSets

CONSTANTS
  Lessons,       \* candidate refs that triggers are registered for
  Inputs,        \* strategy inputs of runs
  Subject,       \* SubjectProfile
  Authority,     \* EvolutionAuthorityPolicy
  MaxRuns,       \* bound: runs, genomes and candidates, each
  MaxManifests   \* bound: activations

ASSUME EvolutionAssumption ==
  /\ Authority.max_triggers_per_window \in Nat
  /\ MaxRuns \in Nat
  /\ MaxManifests \in Nat

VARIABLES
  triggers,   \* _triggers, in order; the refs are _recent_trigger_keys
  evolutions, \* _runs, in order
  proposals,  \* _proposals, in order
  genomes,    \* _genomes: the proposal each names, or 0
  candidates, \* _candidates of the release controller: the genome of each, or 0
  manifests   \* _manifests, in order

evolutionVars == <<triggers, evolutions, proposals, genomes, candidates, manifests>>

-----------------------------------------------------------------------------
Gates == {"quality", "security", "operational"}

GateOutcomes == {"pass", "fail"}

DecisionOutcomes == {"approved", "rejected", "deferred"}

NoInput == [symptom |-> "none"]

Triggers == [ref : Lessons, evidence : BOOLEAN]

Evolutions == [trigger : Nat, proposal : Nat, candidate : Nat,
               status : {"running", "completed", "no_evolution_needed", "aborted"}]

ProposalStatuses == {"proposed", "validated", "rejected"}

ProposalsWith(drafts) == [trigger : Nat, draft : drafts, status : ProposalStatuses]

ReleaseDecisions == [candidate : Nat, outcome : DecisionOutcomes]

Manifests == [candidate : Nat, decision : ReleaseDecisions,
              gates : [Gates -> GateOutcomes],
              lifecycle : {"activated", "rolled_back"}, to : Nat]

EvolutionTypeOK ==
  /\ triggers \in Seq(Triggers)
  /\ evolutions \in Seq(Evolutions)
  /\ proposals \in Seq(ProposalsWith({Propose(input) : input \in Inputs}))
  /\ genomes \in Seq(DOMAIN proposals \union {0})
  /\ candidates \in Seq(DOMAIN genomes \union {0})
  /\ manifests \in Seq(Manifests)

EvolutionInit ==
  /\ triggers = <<>>
  /\ evolutions = <<>>
  /\ proposals = <<>>
  /\ genomes = <<>>
  /\ candidates = <<>>
  /\ manifests = <<>>

-----------------------------------------------------------------------------
(* The evolution kernel.                                                   *)

(* A window that is full, a ref that was seen and a trigger without        *)
(* evidence create nothing; neither window nor cooldown ever ends.         *)
RegisterTrigger(ref, evidence) ==
  /\ Len(triggers) < Authority.max_triggers_per_window
  /\ \A i \in DOMAIN triggers : triggers[i].ref # ref
  /\ evidence
  /\ triggers' = Append(triggers, [ref |-> ref, evidence |-> evidence])
  /\ UNCHANGED <<evolutions, proposals, genomes, candidates, manifests>>

Ran(t, status, proposal, candidate) ==
  evolutions' = Append(evolutions, [trigger |-> t, status |-> status,
                                    proposal |-> proposal, candidate |-> candidate])

(* What becomes of a run, whose trigger is not marked as used: routed      *)
(* elsewhere, no input or no draft.                                        *)
MayEvolve(evidence, input) ==
  /\ input # NoInput
  /\ Route(input.symptom, evidence) = "MUTATION"
  /\ Propose(input) # NoDraft

RunWithoutProposal(t, evidence, input) ==
  /\ ~ MayEvolve(evidence, input)
  /\ Ran(t, "no_evolution_needed", 0, 0)
  /\ UNCHANGED <<triggers, proposals, genomes, candidates, manifests>>

Proposed(t, input, status) ==
  proposals' = Append(proposals, [trigger |-> t, draft |-> Propose(input),
                                  status |-> status])

IsValid(draft) == Validation(draft, Subject, Authority) = "valid"

RunRejected(t, evidence, input) ==
  /\ MayEvolve(evidence, input)
  /\ ~ IsValid(Propose(input))
  /\ Proposed(t, input, "rejected")
  /\ Ran(t, "aborted", Len(proposals) + 1, 0)
  /\ UNCHANGED <<triggers, genomes, candidates, manifests>>

(* The hook builds a candidate for the genome; without one the run is      *)
(* completed all the same; one that raises leaves the run running.         *)
BuildFor(t, hook) ==
  LET proposal == Len(proposals) + 1
      genome   == Len(genomes) + 1 IN
  /\ Len(genomes) < MaxRuns
  /\ genomes' = Append(genomes, proposal)
  /\ \/ /\ hook = "builds"
        /\ Len(candidates) < MaxRuns
        /\ candidates' = Append(candidates, genome)
        /\ Ran(t, "completed", proposal, Len(candidates) + 1)
     \/ /\ hook = "none"
        /\ Ran(t, "completed", proposal, 0)
        /\ UNCHANGED candidates
     \/ /\ hook = "raises"
        /\ Ran(t, "running", 0, 0)
        /\ UNCHANGED candidates

(* Mutant: the outcome of the validation is not looked at.                 *)
RunUnchecked(t, evidence, input, hook) ==
  /\ MayEvolve(evidence, input)
  /\ Proposed(t, input, "validated")
  /\ BuildFor(t, hook)
  /\ UNCHANGED <<triggers, manifests>>

RunValidated(t, evidence, input, hook) ==
  /\ MayEvolve(evidence, input)
  /\ IsValid(Propose(input))
  /\ Proposed(t, input, "validated")
  /\ BuildFor(t, hook)
  /\ UNCHANGED <<triggers, manifests>>

RunEvolution(t, evidence, input) ==
  /\ Len(evolutions) < MaxRuns
  /\ t # 0 => evidence = triggers[t].evidence
  /\ \/ RunWithoutProposal(t, evidence, input)
     \/ RunRejected(t, evidence, input)
     \/ \E hook \in {"builds", "none", "raises"} : RunValidated(t, evidence, input, hook)

(* materialize is open to callers, and believes the proposal that it is    *)
(* passed: neither its status nor its id is looked up.                     *)
Materialize(p, status) ==
  /\ Len(genomes) < MaxRuns
  /\ status = "validated"
  /\ genomes' = Append(genomes, p)
  /\ UNCHANGED <<triggers, evolutions, proposals, candidates, manifests>>

-----------------------------------------------------------------------------
(* The release controller.                                                 *)

(* A candidate is built for a genome, or for a change made by hand.        *)
BuildCandidate(g) ==
  /\ Len(candidates) < MaxRuns
  /\ candidates' = Append(candidates, g)
  /\ UNCHANGED <<triggers, evolutions, proposals, genomes, manifests>>

(* Gate results are not tied to a candidate: only their outcome counts.    *)
MayActivate(c, gates, decision) ==
  /\ \A gate \in Gates : gates[gate] = "pass"
  /\ decision.outcome = "approved"
  /\ decision.candidate = c

Activate(c, gates, decision) ==
  /\ Len(manifests) < MaxManifests
  /\ MayActivate(c, gates, decision)
  /\ manifests' = Append(manifests,
       [candidate |-> c, decision |-> decision, gates |-> gates,
        lifecycle |-> "activated", to |-> 0])
  /\ UNCHANGED <<triggers, evolutions, proposals, genomes, candidates>>

(* Mutant: the manifest that is rolled back to takes the place.            *)
RolledBackInPlace(i, to) == [manifests[to] EXCEPT !.to = to]

RolledBack(i, to) ==
  [manifests[i] EXCEPT !.lifecycle = "rolled_back", !.to = to]

(* The copy that is passed in must be activated, and the one activate      *)
(* returned always is: a manifest can be rolled back again, elsewhere.     *)
Rollback(i, to) ==
  /\ manifests' = [manifests EXCEPT ![i] = RolledBack(i, to)]
  /\ UNCHANGED <<triggers, evolutions, proposals, genomes, candidates>>

EvolutionNext ==
  \/ \E ref \in Lessons, evidence \in BOOLEAN : RegisterTrigger(ref, evidence)
  \/ \E t \in DOMAIN triggers \union {0}, evidence \in BOOLEAN,
        input \in Inputs \union {NoInput} :
       RunEvolution(t, evidence, input)
  \/ \E p \in DOMAIN proposals \union {0}, status \in ProposalStatuses :
       Materialize(p, status)
  \/ \E g \in DOMAIN genomes \union {0} : BuildCandidate(g)
  \/ \E c, d \in DOMAIN candidates, outcome \in DecisionOutcomes,
        gates \in [Gates -> GateOutcomes] :
       Activate(c, gates, [candidate |-> d, outcome |-> outcome])
  \/ \E i, to \in DOMAIN manifests : Rollback(i, to)

EvolutionSpec == EvolutionInit /\ [][EvolutionNext]_evolutionVars

-----------------------------------------------------------------------------
(* What the kernel keeps as validated passed the machine validation, what  *)
(* it keeps as rejected did not, and both were drafted for a trigger with  *)
(* evidence if it was registered (EVO-003, REP-004).                       *)
ProposalsAreJudged ==
  \A p \in DOMAIN proposals :
    LET proposal == proposals[p] IN
    /\ proposal.status = "validated" <=> IsValid(proposal.draft)
    /\ proposal.trigger # 0 => triggers[proposal.trigger].evidence

(* What a run says it did is what it left behind: a completed one has a    *)
(* genome of its own validated proposal, and its candidate, if it names    *)
(* one, is of such a genome; an aborted one has a rejected proposal; any   *)
(* other none.                                                             *)
RunsTellTheirOutcome ==
  \A i \in DOMAIN evolutions :
    LET run == evolutions[i] IN
    CASE run.status = "completed" ->
           /\ proposals[run.proposal].status = "validated"
           /\ proposals[run.proposal].trigger = run.trigger
           /\ \E g \in DOMAIN genomes : genomes[g] = run.proposal
           /\ run.candidate # 0 => genomes[candidates[run.candidate]] = run.proposal
      [] run.status = "aborted"   ->
           /\ proposals[run.proposal].status = "rejected"
           /\ proposals[run.proposal].trigger = run.trigger
      [] OTHER                    -> run.proposal = 0 /\ run.candidate = 0

(* Every manifest, in force or rolled back, was approved for its own       *)
(* candidate, and if a run completed with that one, the proposal it was    *)
(* built for passed the validation: the chain of an evolution holds end to *)
(* end, whatever other evolutions are in flight (REL-004).                 *)
ReleasesAreJustified ==
  \A i \in DOMAIN manifests :
    LET release == manifests[i] IN
    /\ release.decision = [candidate |-> release.candidate, outcome |-> "approved"]
    /\ \A gate \in Gates : release.gates[gate] = "pass"
    /\ \A r \in DOMAIN evolutions :
         evolutions[r].candidate = release.candidate
           => IsValid(proposals[genomes[candidates[release.candidate]]].draft)

(* From the trigger of an evolution to the manifest in force each step was *)
(* taken on the ground of the one before, and tells so.                    *)
EvolutionIsJustified ==
  ProposalsAreJudged /\ RunsTellTheirOutcome /\ ReleasesAreJustified

(* A manifest that was rolled back stays so and is otherwise unchanged,    *)
(* even if an old copy of it is rolled back again (REL-005).               *)
RolledBackForGood ==
  [][\A i \in DOMAIN manifests :
       manifests'[i] # manifests[i] =>
         /\ manifests'[i].lifecycle = "rolled_back"
         /\ manifests'[i] = [manifests[i] EXCEPT
              !.lifecycle = "rolled_back", !.to = manifests'[i].to]]_evolutionVars
=============================================================================
