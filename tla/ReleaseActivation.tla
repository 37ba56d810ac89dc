--------------------------- MODULE ReleaseActivation ---------------------------
(***************************************************************************)
(* validate_release_activation of common/schema_registry.py: six contracts *)
(* written by different people at different times make one chain, which a  *)
(* release may be activated from or not.                                   *)
(*                                                                         *)
(* A chain is a function from Parts to records.  What a JSON schema says   *)
(* of a part is abstracted to "shape".  The verifier is external: it is    *)
(* the set of questions it does not answer with TRUE.                      *)
(***************************************************************************)
EXTENDS Naturals, Sequences

Gates == {"quality", "security", "readiness"}

Parts == Gates \union {"candidate", "decision", "manifest"}

(* A ref is a tuple of what tells it apart from others, the empty one has  *)
(* nothing.                                                                *)
NoRef == <<>>

-----------------------------------------------------------------------------
(* One contract by itself.                                                 *)

(* validate_canonical_invariants and the schema of the contract.           *)
FitsContract(name, part) ==
  /\ part.shape = "valid"
  /\ part.meta.contract = name
  /\ part.meta.object = part.id

(* _validate_active_decision                                               *)
Active(decision, outcome, now) ==
  /\ decision.status = "active"
  /\ decision.outcome = outcome
  /\ decision.issued < decision.expires
  /\ decision.issued <= now
  /\ now < decision.expires

(* _validate_manifest_time: a manifest has one moment of expiry or none.   *)
ManifestInForce(manifest, now) ==
  /\ manifest.created <= now
  /\ \A moment \in manifest.expiry : manifest.created < moment /\ now < moment

-----------------------------------------------------------------------------
(* The contracts among one another.                                        *)

OneTenant(chain) ==
  /\ \A p, q \in Parts : chain[p].meta.tenant = chain[q].meta.tenant
  /\ chain["quality"].scope.tenant = chain["quality"].meta.tenant

(* Candidate, environment and scope are those of the quality gate.         *)
SameSubject(chain, p, expected) ==
  /\ chain[p].candidate = expected
  /\ chain[p].environment = chain["quality"].environment
  /\ chain[p].scope = chain["quality"].scope

GatePasses(chain, gate, expected, now) ==
  /\ Active(chain[gate], "pass", now)
  /\ gate \in {"quality", "security"} => chain[gate].failures = {}
  /\ chain["candidate"].built <= chain[gate].issued
  /\ SameSubject(chain, gate, expected)

DecisionApproves(chain, expected, now) ==
  /\ Active(chain["decision"], "approved", now)
  /\ \A gate \in Gates : chain[gate].issued <= chain["decision"].issued
  /\ SameSubject(chain, "decision", expected)
  /\ \A gate \in Gates : chain["decision"].gates[gate] = chain[gate].id

ManifestCites(chain, now) ==
  LET manifest == chain["manifest"] IN
  /\ manifest.status = "active"
  /\ ManifestInForce(manifest, now)
  /\ chain["decision"].issued <= manifest.created
  /\ manifest.environment = chain["quality"].environment
  /\ \A gate \in Gates : manifest.gates[gate] = chain[gate].id
  /\ manifest.decision = chain["decision"].id

ComponentsOf(candidate, type) ==
  {candidate.components[i].version :
     i \in {j \in DOMAIN candidate.components : candidate.components[j].type = type}}

(* Mutant: the manifest may list more than was built and judged.           *)
BindsCandidateLoosely(candidate, manifest) ==
  /\ \A i, j \in DOMAIN candidate.components :
       i # j => candidate.components[i] # candidate.components[j]
  /\ \A type \in DOMAIN manifest.versions :
       ComponentsOf(candidate, type) \subseteq manifest.versions[type]
  /\ manifest.ranges = candidate.ranges
  /\ manifest.matrix = candidate.matrix
  /\ manifest.migrations = candidate.migrations

(* _validate_candidate_manifest_binding                                    *)
BindsCandidate(candidate, manifest) ==
  /\ \A i, j \in DOMAIN candidate.components :
       i # j => candidate.components[i] # candidate.components[j]
  /\ \A i \in DOMAIN candidate.components :
       candidate.components[i].type \in DOMAIN manifest.versions
  /\ \A type \in DOMAIN manifest.versions :
       manifest.versions[type] = ComponentsOf(candidate, type)
  /\ manifest.ranges = candidate.ranges
  /\ manifest.matrix = candidate.matrix
  /\ manifest.migrations = candidate.migrations

(* _validate_release_authority_separation: the producer of the manifest    *)
(* may be a gate or the release authority, the builder of the candidate    *)
(* may be no one else.                                                     *)
Separated(chain) ==
  LET builder     == chain["candidate"].by
      authorities == Gates \union {"decision"}
  IN
  /\ \A p, q \in authorities : p # q => chain[p].by # chain[q].by
  /\ \A p \in authorities \union {"manifest"} : chain[p].by # builder

-----------------------------------------------------------------------------
(* _run_release_activation_verifier: five questions on every part, and one *)
(* on going back.                                                          *)
Questions ==
  Parts \X {"integrity", "evidence", "authority", "waivers", "scope"}
    \union {<<"candidate", "rollback">>}

Verified(chain, refused) ==
  /\ \A p \in Parts : chain[p].by # ""
  /\ refused \intersect Questions = {}

(* validate_release_activation: "after" is what the caller's objects hold  *)
(* when the verifier has returned.                                         *)
Activates(chain, expected, refused, now, after) ==
  /\ \A p \in Parts : FitsContract(p, chain[p])
  /\ expected # NoRef /\ chain["candidate"].id = expected
  /\ chain["candidate"].built <= now
  /\ OneTenant(chain)
  /\ \A gate \in Gates : GatePasses(chain, gate, expected, now)
  /\ DecisionApproves(chain, expected, now)
  /\ ManifestCites(chain, now)
  /\ BindsCandidate(chain["candidate"], chain["manifest"])
  /\ Separated(chain)
  /\ Verified(chain, refused)
  /\ after = chain

-----------------------------------------------------------------------------
Mixed(one, other, parts) == [p \in Parts |-> IF p \in parts THEN other[p] ELSE one[p]]

(* Two chains of one candidate, the second judged again, cannot be mixed:  *)
(* whichever parts of the second take the place of those of the first, and *)
(* whatever is altered on top, in what is handed over or while it is being *)
(* judged, only one of the two activates, as it was written and with no    *)
(* question refused.                                                       *)
ChainIsWhole(q) ==
  LET mixed   == Mixed(q.one, q.other, q.parts)
      field   == q.alter[1]
      part    == q.alter[2]
      value   == q.alter[3]
      altered == [mixed EXCEPT ![part][field] = value]
      handed  == IF q.meanwhile THEN mixed ELSE altered
  IN  Activates(handed, q.expected, q.refused, q.now, altered)
        <=> /\ mixed \in {q.one, q.other}
            /\ altered = mixed
            /\ q.refused = {}
=============================================================================
