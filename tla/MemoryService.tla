----------------------------- MODULE MemoryService -----------------------------
(***************************************************************************)
(* memory/service.py with its review gate, governance rules and recall     *)
(* projection: candidates are reviewed and promoted to records; records    *)
(* are corrected into chains, expire, are deleted, and lose their consent. *)
(* Every method is synchronous and is one step.  A method that resolves a  *)
(* candidate as rejected or needs_review changes nothing but counters,     *)
(* which are left out, and so does one that raises, but for a correction   *)
(* that raises between its two writes (CorrectHalfway).                    *)
(***************************************************************************)
EXTENDS Integers, Sequences, FiniteSets

CONSTANTS
  Candidates,    \* candidate ids
  CandidateOf,   \* what each candidate says: a member of Proposals
  Statements,    \* normalised statements
  Overlapping,   \* pairs of statements whose tokens overlap by half or more
  Subjects,
  DefaultDays,   \* RetentionPolicy.default_days
  SensitiveDays, \* RetentionPolicy.by_sensitivity, as a function of classes
  Reviewed,      \* bound: the candidates that are submitted for review
  MaxMemories,   \* bound: records in all
  MaxDay         \* bound of the clock

ASSUME MemoryAssumption ==
  /\ Overlapping \subseteq Statements \X Statements
  /\ Reviewed \subseteq Candidates
  /\ DefaultDays \in Nat
  /\ \A class \in DOMAIN SensitiveDays : SensitiveDays[class] \in Nat
  /\ MaxMemories \in Nat
  /\ MaxDay \in Nat

VARIABLES
  reviews,  \* status of each candidate in the review gate
  memories, \* the records, in the order they were saved; an id is a position
  revoked,  \* candidates whose consent was revoked since their last promotion
  day       \* the clock

memoryVars == <<reviews, memories, revoked, day>>

-----------------------------------------------------------------------------
Scopes == {"subject", "team", "tenant"}

TeamTenantScopes == {"team", "tenant"}

Sensitivities == {"public", "internal", "confidential", "restricted"}

(* A retention hint: a number of days or hours, a session, or none.        *)
Hints == [unit : {"d", "h"}, number : Nat] \union [unit : {"session", "none"}]

(* Confidence by the thresholds it reaches: none, 0.8, or 0.8 and 0.95.    *)
Confidences == 0 .. 2

Proposals == [subject : Subjects, scope : Scopes, statement : Statements,
              sensitivity : Sensitivities, confidence : Confidences,
              consent : BOOLEAN, hint : Hints]

ASSUME CandidateAssumption == CandidateOf \in [Candidates -> Proposals]

ReviewStatuses == {"pending_review", "approved", "rejected", "needs_review"}

Decisions == ReviewStatuses \ {"pending_review"}

MemoryStatuses == {"active", "superseded", "expired", "deleted"}

(* "expires" of a record that is kept without end is 0.                    *)
MemoryRecords == [candidate : Candidates, subject : Subjects, scope : Scopes,
                  statement : Statements, valid_from : Nat, expires : Nat,
                  status : MemoryStatuses, supersedes : Nat,
                  revision : Nat \ {0}]

MemoryTypeOK ==
  /\ reviews \in [Candidates -> ReviewStatuses \union {"none"}]
  /\ memories \in Seq(MemoryRecords)
  /\ \A i \in DOMAIN memories :
       /\ memories[i].supersedes < i
       /\ memories[i].expires # 0 => memories[i].expires > memories[i].valid_from
  /\ revoked \subseteq Candidates
  /\ day \in 0 .. MaxDay

MemoryInit ==
  /\ reviews = [c \in Candidates |-> "none"]
  /\ memories = <<>>
  /\ revoked = {}
  /\ day = 0

-----------------------------------------------------------------------------
(* The review gate.                                                        *)

SubmitCandidate(c) ==
  /\ c \in Reviewed
  /\ reviews[c] = "none"
  /\ reviews' = [reviews EXCEPT ![c] = "pending_review"]
  /\ UNCHANGED <<memories, revoked, day>>

Threshold(c) == IF CandidateOf[c].scope \in TeamTenantScopes THEN 2 ELSE 1

(* An approval of a candidate below its threshold becomes needs_review.    *)
ReviewCandidate(c, decision) ==
  /\ reviews[c] # "none"
  /\ reviews' = [reviews EXCEPT ![c] =
       IF decision = "approved" /\ CandidateOf[c].confidence < Threshold(c)
         THEN "needs_review" ELSE decision]
  /\ UNCHANGED <<memories, revoked, day>>

-----------------------------------------------------------------------------
(* Governance.                                                             *)

Persists(c) == CandidateOf[c].hint.unit # "session"

(* Days of retention, 0 for no end: hours count as whole days, at least    *)
(* one; a hint of no days is no limit.                                     *)
RetentionDays(c) ==
  LET hint == CandidateOf[c].hint
      class == CandidateOf[c].sensitivity IN
  CASE hint.unit = "d" -> hint.number
    [] hint.unit = "h" -> IF hint.number < 24 THEN 1 ELSE hint.number \div 24
    [] OTHER -> IF class \in DOMAIN SensitiveDays THEN SensitiveDays[class]
                                                  ELSE DefaultDays

Active == {i \in DOMAIN memories : memories[i].status = "active"}

ActiveOf(subject) == {i \in Active : memories[i].subject = subject}

DuplicatesOf(c) ==
  {i \in ActiveOf(CandidateOf[c].subject) :
     memories[i].statement = CandidateOf[c].statement}

ConflictsOf(c) ==
  {i \in ActiveOf(CandidateOf[c].subject) :
     /\ memories[i].scope = CandidateOf[c].scope
     /\ <<memories[i].statement, CandidateOf[c].statement>> \in Overlapping}

Until(from, days) == IF days = 0 THEN 0 ELSE from + days

(* promote and resolve ask for a review of team and tenant memory only,    *)
(* promote_from_review for an approval of any.                             *)
Promote(c, from_review) ==
  LET proposal == CandidateOf[c] IN
  /\ Len(memories) < MaxMemories
  /\ (from_review \/ proposal.scope \in TeamTenantScopes)
       => reviews[c] = "approved"
  /\ proposal.sensitivity \notin {"confidential", "restricted"}
  /\ Persists(c)
  /\ DuplicatesOf(c) = {}
  /\ ConflictsOf(c) = {}
  /\ memories' = Append(memories,
       [candidate |-> c, subject |-> proposal.subject, scope |-> proposal.scope,
        statement |-> proposal.statement, valid_from |-> day,
        expires |-> Until(day, RetentionDays(c)), status |-> "active",
        supersedes |-> 0, revision |-> 1])
  /\ revoked' = revoked \ {c}
  /\ UNCHANGED <<reviews, day>>

-----------------------------------------------------------------------------
(* The life of a record.                                                   *)

Restated(record, status) ==
  [record EXCEPT !.status = status, !.revision = @ + 1]

(* A correction keeps subject, scope and consent; an expiry that is over   *)
(* is not inherited, so the new version is kept without end.               *)
Corrected(i, statement) ==
  LET old == memories[i] IN
  [old EXCEPT !.statement = statement, !.valid_from = day,
              !.expires = IF old.expires <= day THEN 0 ELSE old.expires,
              !.status = "active", !.supersedes = i, !.revision = 1]

(* Mutant: a version that was corrected can be corrected once more.        *)
CorrectAny(i, statement) ==
  /\ Len(memories) < MaxMemories
  /\ memories[i].status \in {"active", "superseded"}
  /\ memories' = Append([memories EXCEPT ![i] = Restated(@, "superseded")],
                        Corrected(i, statement))
  /\ UNCHANGED <<reviews, revoked, day>>

Correct(i, statement) ==
  /\ Len(memories) < MaxMemories
  /\ memories[i].status = "active"
  /\ memories' = Append([memories EXCEPT ![i] = Restated(@, "superseded")],
                        Corrected(i, statement))
  /\ UNCHANGED <<reviews, revoked, day>>

(* The old version is stored as superseded before its expiry is compared   *)
(* with the caller's moment: one of the two may name no timezone, which    *)
(* raises, and the new version is never built.                             *)
CorrectHalfway(i) ==
  /\ memories[i].status = "active"
  /\ memories[i].expires # 0
  /\ memories' = [memories EXCEPT ![i] = Restated(@, "superseded")]
  /\ UNCHANGED <<reviews, revoked, day>>

Expire(i) ==
  /\ memories[i].status = "active"
  /\ memories' = [memories EXCEPT ![i] = Restated(@, "expired")]
  /\ UNCHANGED <<reviews, revoked, day>>

Delete(i) ==
  /\ memories[i].status # "deleted"
  /\ memories' = [memories EXCEPT ![i] = Restated(@, "deleted")]
  /\ UNCHANGED <<reviews, revoked, day>>

(* Mutant: only the records that were promoted themselves.                 *)
AffectedOriginals(c) ==
  {i \in Active : memories[i].candidate = c /\ memories[i].supersedes = 0}

(* Every active record of the consent, corrections included.               *)
Affected(c) == {i \in Active : memories[i].candidate = c}

RevokeConsent(c) ==
  /\ CandidateOf[c].consent
  /\ memories' = [i \in DOMAIN memories |->
       IF i \in Affected(c) THEN Restated(memories[i], "deleted")
                            ELSE memories[i]]
  /\ revoked' = revoked \union {c}
  /\ UNCHANGED <<reviews, day>>

DayPasses ==
  /\ day < MaxDay
  /\ day' = day + 1
  /\ UNCHANGED <<reviews, memories, revoked>>

-----------------------------------------------------------------------------
(* Recall for a subject by a caller that is authorised for some teams (by  *)
(* the subject their memory is filed under) and perhaps a tenant.          *)
Recall(subject, scopes, teams, tenants) ==
  {i \in Active :
     /\ memories[i].valid_from <= day
     /\ memories[i].expires = 0 \/ day < memories[i].expires
     /\ \/ memories[i].subject = subject
        \/ memories[i].scope = "team"   /\ memories[i].subject \in teams
        \/ memories[i].scope = "tenant" /\ memories[i].subject \in tenants
     /\ memories[i].scope \in scopes}

MemoryNext ==
  \/ DayPasses
  \/ \E c \in Candidates :
       \/ SubmitCandidate(c)
       \/ \E decision \in Decisions : ReviewCandidate(c, decision)
       \/ \E from_review \in BOOLEAN : Promote(c, from_review)
       \/ RevokeConsent(c)
  \/ \E i \in DOMAIN memories :
       \/ \E statement \in Statements : Correct(i, statement)
       \/ CorrectHalfway(i)
       \/ Expire(i)
       \/ Delete(i)

MemorySpec == MemoryInit /\ [][MemoryNext]_memoryVars

-----------------------------------------------------------------------------
Successors(i) == {j \in DOMAIN memories : memories[j].supersedes = i}

(* Corrections form a line: a version has one successor at most, no        *)
(* version that has one is current, and a version superseded by nothing is *)
(* one that was to expire, whose correction broke off: what is kept        *)
(* without end is never lost to a correction (service.py:326-335).         *)
LinearLineage ==
  \A i \in DOMAIN memories :
    /\ Cardinality(Successors(i)) <= 1
    /\ Successors(i) # {} => memories[i].status \in {"superseded", "deleted"}
    /\ memories[i].status = "superseded" /\ memories[i].expires = 0
         => Successors(i) # {}

(* Two active records of a subject say the same only if one of them was    *)
(* corrected to it: promotion alone never stores a fact twice, in whatever *)
(* order candidates, expiries and deletions come (RAG-011).                *)
DuplicatesOnlyByCorrection ==
  \A i, j \in Active :
    (/\ i # j
     /\ memories[i].subject = memories[j].subject
     /\ memories[i].statement = memories[j].statement)
      => memories[i].supersedes # 0 \/ memories[j].supersedes # 0

(* A fact is remembered as one line of versions: corrections do not fork   *)
(* it, and promotions do not store it a second time.                       *)
MemoryLinesHold == LinearLineage /\ DuplicatesOnlyByCorrection

(* What a recall for one team or tenant returns was confident enough for   *)
(* it, though its approval may have been reconsidered since and its text   *)
(* corrected: no path to a shared memory goes around the review gate.      *)
SharedMemoryWasReviewed ==
  \A i \in DOMAIN memories :
    memories[i].scope \in TeamTenantScopes =>
      /\ CandidateOf[memories[i].candidate].confidence = 2
      /\ reviews[memories[i].candidate] # "none"

(* Once a consent is revoked no recall returns a record that rests on it,  *)
(* until the candidate is promoted once more; corrections made before or   *)
(* after do not bring one back (revoke_consent).                           *)
RevokedIsNotRecalled ==
  \A s \in Subjects, c \in revoked :
    \A i \in Recall(s, Scopes, Subjects, Subjects) : memories[i].candidate # c

(* What others recall was reviewed for them and is still consented to.     *)
MemoryReadersAreProtected == SharedMemoryWasReviewed /\ RevokedIsNotRecalled

StatusMoves == {<<"active", "superseded">>, <<"active", "expired">>,
                <<"active", "deleted">>, <<"superseded", "deleted">>,
                <<"expired", "deleted">>}

(* A record that was replaced, expired or deleted is never active again,   *)
(* and what was deleted stays deleted (section 6 of module 04).            *)
RecordsOnlyRetire ==
  [][\A i \in DOMAIN memories :
       memories'[i].status # memories[i].status =>
         <<memories[i].status, memories'[i].status>> \in StatusMoves]_memoryVars
=============================================================================
