-------------------------- MODULE MemoryServiceProofs --------------------------
(***************************************************************************)
(* Theorems about MemoryService for any candidates, subjects, retention    *)
(* policy, number of records and length of time: corrections do not fork,  *)
(* promotions do not repeat a fact, what others may recall was reviewed,   *)
(* what lost its consent is not recalled, and records only retire.         *)
(***************************************************************************)
EXTENDS MemoryService, FiniteSetTheorems, SequenceTheorems, TLAPS

-----------------------------------------------------------------------------
LEMMA ConstantsTyped ==
  /\ Reviewed \subseteq Candidates /\ DefaultDays \in Nat
  /\ \A class \in DOMAIN SensitiveDays : SensitiveDays[class] \in Nat
  /\ MaxMemories \in Nat /\ MaxDay \in Nat
  /\ \A c \in Candidates : CandidateOf[c] \in Proposals
BY MemoryAssumption, CandidateAssumption

LEMMA ProposalFields ==
  ASSUME NEW c \in Candidates
  PROVE  /\ CandidateOf[c].subject \in Subjects /\ CandidateOf[c].scope \in Scopes
         /\ CandidateOf[c].statement \in Statements
         /\ CandidateOf[c].confidence \in 0 .. 2
         /\ CandidateOf[c].hint \in Hints
BY ConstantsTyped DEF Proposals, Confidences

LEMMA RetentionTyped ==
  ASSUME NEW c \in Candidates
  PROVE  RetentionDays(c) \in Nat
<1> DEFINE hint == CandidateOf[c].hint
           class == CandidateOf[c].sensitivity
<1>1. hint \in Hints
  BY ProposalFields
<1>2. CASE hint.unit = "d" \/ hint.unit = "h"
  <2>1. hint.number \in Nat
    BY <1>1, <1>2 DEF Hints
  <2>2. \A n \in Nat : (IF n < 24 THEN 1 ELSE n \div 24) \in Nat
    OBVIOUS
  <2>3. "d" # "h"
    OBVIOUS
  <2> HIDE DEF hint
  <2>4. CASE hint.unit = "d"
    BY <2>1, <2>4 DEF RetentionDays, hint
  <2>5. CASE hint.unit = "h"
    BY <2>1, <2>2, <2>5 DEF RetentionDays, hint
  <2> QED  BY <1>2, <2>4, <2>5
<1>3. CASE hint.unit \notin {"d", "h"}
  <2>1. RetentionDays(c) = IF class \in DOMAIN SensitiveDays THEN SensitiveDays[class]
                                                            ELSE DefaultDays
    BY <1>3 DEF RetentionDays
  <2> QED  BY <2>1, ConstantsTyped
<1> QED  BY <1>2, <1>3

(* The fields of a record, and what restating one changes.                 *)
LEMMA RecordFields ==
  ASSUME NEW record \in MemoryRecords
  PROVE  /\ record.candidate \in Candidates /\ record.subject \in Subjects
         /\ record.scope \in Scopes /\ record.statement \in Statements
         /\ record.valid_from \in Nat /\ record.expires \in Nat
         /\ record.status \in MemoryStatuses /\ record.supersedes \in Nat
         /\ record.revision \in Nat \ {0}
BY DEF MemoryRecords

(* Two versions of one record, which differ in status and revision alone.  *)
SameMemory(old, new) ==
  /\ new.candidate = old.candidate /\ new.subject = old.subject
  /\ new.scope = old.scope /\ new.statement = old.statement
  /\ new.valid_from = old.valid_from /\ new.expires = old.expires
  /\ new.supersedes = old.supersedes

LEMMA RestatedTyped ==
  ASSUME NEW record \in MemoryRecords, NEW status \in MemoryStatuses
  PROVE  /\ Restated(record, status) \in MemoryRecords
         /\ Restated(record, status).status = status
         /\ SameMemory(record, Restated(record, status))
<1> DEFINE first == [record EXCEPT !.status = status]
           second == [first EXCEPT !.revision = record.revision + 1]
<1>1. first \in MemoryRecords /\ first.status = status /\ SameMemory(record, first)
  BY DEF MemoryRecords, SameMemory
<1>2. record.revision + 1 \in Nat \ {0}
  BY RecordFields
<1>3. second \in MemoryRecords /\ second.status = first.status /\ SameMemory(first, second)
  <2> HIDE DEF first
  <2> QED  BY <1>1, <1>2 DEF MemoryRecords, SameMemory
<1>4. Restated(record, status) = second
  BY RecordFields DEF Restated, MemoryRecords
<1> QED  BY <1>1, <1>3, <1>4 DEF SameMemory

Version(old, statement, from, expires, status, prior, revision) ==
  [candidate |-> old.candidate, subject |-> old.subject, scope |-> old.scope,
   statement |-> statement, valid_from |-> from, expires |-> expires,
   status |-> status, supersedes |-> prior, revision |-> revision]

LEMMA VersionFields ==
  ASSUME NEW old, NEW a, NEW b, NEW c, NEW d, NEW e, NEW f
  PROVE  LET version == Version(old, a, b, c, d, e, f) IN
         /\ \A x : [version EXCEPT !.statement = x] = Version(old, x, b, c, d, e, f)
         /\ \A x : [version EXCEPT !.valid_from = x] = Version(old, a, x, c, d, e, f)
         /\ \A x : [version EXCEPT !.expires = x] = Version(old, a, b, x, d, e, f)
         /\ \A x : [version EXCEPT !.status = x] = Version(old, a, b, c, x, e, f)
         /\ \A x : [version EXCEPT !.supersedes = x] = Version(old, a, b, c, d, x, f)
         /\ \A x : [version EXCEPT !.revision = x] = Version(old, a, b, c, d, e, x)
BY DEF Version

LEMMA SixFields ==
  ASSUME NEW old \in MemoryRecords, NEW statement, NEW from, NEW expires, NEW prior
  PROVE  [old EXCEPT !.statement = statement, !.valid_from = from, !.expires = expires,
                     !.status = "active", !.supersedes = prior, !.revision = 1] =
         Version(old, statement, from, expires, "active", prior, 1)
<1>1. old = Version(old, old.statement, old.valid_from, old.expires, old.status,
                    old.supersedes, old.revision)
  BY DEF MemoryRecords, Version
<1> DEFINE first  == [old EXCEPT !.statement = statement]
           second == [first EXCEPT !.valid_from = from]
           third  == [second EXCEPT !.expires = expires]
           fourth == [third EXCEPT !.status = "active"]
           fifth  == [fourth EXCEPT !.supersedes = prior]
<1>2. first = Version(old, statement, old.valid_from, old.expires, old.status,
                      old.supersedes, old.revision)
  BY <1>1, VersionFields
<1> HIDE DEF first
<1>3. second = Version(old, statement, from, old.expires, old.status,
                       old.supersedes, old.revision)
  BY <1>2, VersionFields
<1> HIDE DEF second
<1>4. third = Version(old, statement, from, expires, old.status,
                      old.supersedes, old.revision)
  BY <1>3, VersionFields
<1> HIDE DEF third
<1>5. fourth = Version(old, statement, from, expires, "active", old.supersedes, old.revision)
  BY <1>4, VersionFields
<1> HIDE DEF fourth
<1>6. fifth = Version(old, statement, from, expires, "active", prior, old.revision)
  BY <1>5, VersionFields
<1> HIDE DEF fifth
<1>7. [fifth EXCEPT !.revision = 1] = Version(old, statement, from, expires, "active", prior, 1)
  BY <1>6, VersionFields
<1> QED  BY <1>7, Zenon DEF first, second, third, fourth, fifth

(* What a correction makes of a record.                                    *)
LEMMA CorrectedTyped ==
  ASSUME MemoryTypeOK, NEW i \in DOMAIN memories, NEW statement \in Statements
  PROVE  LET new == Corrected(i, statement) IN
         /\ new \in MemoryRecords /\ new.status = "active" /\ new.supersedes = i
         /\ new.expires # 0 => new.expires > new.valid_from
         /\ new.candidate = memories[i].candidate /\ new.subject = memories[i].subject
         /\ new.scope = memories[i].scope /\ new.statement = statement
<1> DEFINE old == memories[i]
           expires == IF old.expires <= day THEN 0 ELSE old.expires
           new == Version(old, statement, day, expires, "active", i, 1)
<1>1. old \in MemoryRecords /\ day \in Nat /\ i \in Nat
  BY ConstantsTyped, LenProperties, ElementOfSeq DEF MemoryTypeOK
<1>2. expires \in Nat /\ (expires # 0 => expires > day)
  BY <1>1, RecordFields
<1>3. Corrected(i, statement) = new
  <2> HIDE DEF expires
  <2> QED  BY <1>1, SixFields DEF Corrected, expires
<1>4. new \in MemoryRecords
  <2> HIDE DEF expires, old
  <2> QED  BY <1>1, <1>2, RecordFields DEF MemoryRecords, MemoryStatuses, Version
<1> HIDE DEF expires
<1> QED  BY <1>2, <1>3, <1>4 DEF Version

-----------------------------------------------------------------------------
(* What a step may do to the records: leave them, retire some, add one     *)
(* that was promoted, or replace one by its correction.                    *)
LEMMA AppendFields ==
  ASSUME NEW S, NEW s \in Seq(S), NEW e \in S
  PROVE  /\ Append(s, e) \in Seq(S)
         /\ DOMAIN Append(s, e) = 1 .. Len(s) + 1
         /\ \A i \in 1 .. Len(s) : Append(s, e)[i] = s[i]
         /\ Append(s, e)[Len(s) + 1] = e
OBVIOUS

LEMMA MemoriesTyped ==
  ASSUME MemoryTypeOK
  PROVE  /\ Len(memories) \in Nat /\ DOMAIN memories = 1 .. Len(memories)
         /\ \A i \in DOMAIN memories :
              memories[i] \in MemoryRecords /\ memories[i].supersedes < i /\ i \in Nat /\ i # 0
         /\ day \in Nat
<1>1. memories \in Seq(MemoryRecords)
  BY DEF MemoryTypeOK
<1>2. \A i \in 1 .. Len(memories) : memories[i] \in MemoryRecords
  BY <1>1, ElementOfSeq
<1> QED  BY <1>1, <1>2, LenProperties, ConstantsTyped DEF MemoryTypeOK

Retires ==
  /\ memories' \in Seq(MemoryRecords) /\ DOMAIN memories' = DOMAIN memories
  /\ \A i \in DOMAIN memories :
       /\ SameMemory(memories[i], memories'[i])
       /\ \/ memories'[i].status = memories[i].status
          \/ memories[i].status = "active" /\ memories'[i].status = "expired"
          \/ memories'[i].status = "deleted"
          \/ /\ memories[i].status = "active" /\ memories'[i].status = "superseded"
             /\ memories[i].expires # 0

Adds(record) ==
  /\ memories' \in Seq(MemoryRecords) /\ record \in MemoryRecords
  /\ DOMAIN memories' = 1 .. Len(memories) + 1
  /\ \A i \in DOMAIN memories : memories'[i] = memories[i]
  /\ memories'[Len(memories) + 1] = record

Replaces(old, record) ==
  /\ memories' \in Seq(MemoryRecords) /\ record \in MemoryRecords
  /\ DOMAIN memories' = 1 .. Len(memories) + 1
  /\ \A i \in DOMAIN memories \ {old} : memories'[i] = memories[i]
  /\ SameMemory(memories[old], memories'[old])
  /\ memories[old].status = "active" /\ memories'[old].status = "superseded"
  /\ memories'[Len(memories) + 1] = record

LEMMA OneRestated ==
  ASSUME MemoryTypeOK, NEW i \in DOMAIN memories, NEW status \in MemoryStatuses
  PROVE  LET next == [memories EXCEPT ![i] = Restated(@, status)] IN
         /\ next \in Seq(MemoryRecords) /\ Len(next) = Len(memories)
         /\ DOMAIN next = DOMAIN memories
         /\ \A j \in DOMAIN memories \ {i} : next[j] = memories[j]
         /\ SameMemory(memories[i], next[i]) /\ next[i].status = status
<1> DEFINE record == Restated(memories[i], status)
           next == [memories EXCEPT ![i] = record]
<1>1. record \in MemoryRecords /\ record.status = status /\ SameMemory(memories[i], record)
  BY MemoriesTyped, RestatedTyped
<1> HIDE DEF record
<1>2. memories \in Seq(MemoryRecords) /\ i \in 1 .. Len(memories)
  BY MemoriesTyped DEF MemoryTypeOK
<1>3. /\ next \in Seq(MemoryRecords) /\ Len(next) = Len(memories)
      /\ \A j \in 1 .. Len(memories) : next[j] = IF j = i THEN record ELSE memories[j]
  BY <1>1, <1>2, ExceptSeq
<1>4. DOMAIN next = DOMAIN memories /\ DOMAIN memories = 1 .. Len(memories)
  BY MemoriesTyped
<1>5. [memories EXCEPT ![i] = Restated(@, status)] = next
  BY DEF record
<1> HIDE DEF next
<1> QED  BY <1>1, <1>2, <1>3, <1>4, <1>5

LEMMA ExpireRetires ==
  ASSUME MemoryTypeOK, NEW i \in DOMAIN memories,
         Expire(i) \/ Delete(i) \/ CorrectHalfway(i)
  PROVE  Retires
<1>1. CASE Expire(i)
  <2>1. "expired" \in MemoryStatuses
    BY DEF MemoryStatuses
  <2> QED  BY <1>1, <2>1, OneRestated DEF Expire, Retires, SameMemory
<1>2. CASE Delete(i)
  <2>1. "deleted" \in MemoryStatuses
    BY DEF MemoryStatuses
  <2> QED  BY <1>2, <2>1, OneRestated DEF Delete, Retires, SameMemory
<1>3. CASE CorrectHalfway(i)
  <2>1. "superseded" \in MemoryStatuses
    BY DEF MemoryStatuses
  <2> QED  BY <1>3, <2>1, OneRestated DEF CorrectHalfway, Retires, SameMemory
<1> QED  BY <1>1, <1>2, <1>3

LEMMA RevokeRetires ==
  ASSUME MemoryTypeOK, NEW c \in Candidates, RevokeConsent(c)
  PROVE  /\ Retires
         /\ \A i \in DOMAIN memories :
              memories'[i].status = "active" => memories'[i].candidate # c
<1>1. \A i \in DOMAIN memories :
        /\ memories'[i] \in MemoryRecords
        /\ SameMemory(memories[i], memories'[i])
        /\ IF i \in Affected(c) THEN memories'[i].status = "deleted"
                               ELSE memories'[i] = memories[i]
  <2> SUFFICES ASSUME NEW i \in DOMAIN memories
               PROVE  /\ memories'[i] \in MemoryRecords
                      /\ SameMemory(memories[i], memories'[i])
                      /\ IF i \in Affected(c) THEN memories'[i].status = "deleted"
                                             ELSE memories'[i] = memories[i]
    OBVIOUS
  <2>1. memories[i] \in MemoryRecords /\ "deleted" \in MemoryStatuses
    BY MemoriesTyped DEF MemoryStatuses
  <2>2. memories'[i] = IF i \in Affected(c) THEN Restated(memories[i], "deleted")
                                           ELSE memories[i]
    BY DEF RevokeConsent
  <2>3. CASE i \in Affected(c)
    BY <2>1, <2>2, <2>3, RestatedTyped
  <2>4. CASE i \notin Affected(c)
    BY <2>1, <2>2, <2>4 DEF SameMemory
  <2> QED  BY <2>3, <2>4
<1>2. DOMAIN memories' = DOMAIN memories /\ DOMAIN memories = 1 .. Len(memories)
  BY MemoriesTyped DEF RevokeConsent
<1>3. memories' \in Seq(MemoryRecords)
  <2>1. memories' \in [1 .. Len(memories) -> MemoryRecords]
    BY <1>1, <1>2 DEF RevokeConsent
  <2> QED  BY <2>1, MemoriesTyped, SeqDef
<1>4. \A i \in DOMAIN memories :
        i \in Affected(c) <=> memories[i].status = "active" /\ memories[i].candidate = c
  BY DEF Affected, Active
<1> QED  BY <1>1, <1>2, <1>3, <1>4 DEF Retires

LEMMA PromoteAdds ==
  ASSUME MemoryTypeOK, NEW c \in Candidates, NEW from_review \in BOOLEAN,
         Promote(c, from_review)
  PROVE  \E record :
           /\ Adds(record) /\ record.status = "active" /\ record.supersedes = 0
           /\ record.expires # 0 => record.expires > record.valid_from
           /\ record.candidate = c /\ record.subject = CandidateOf[c].subject
           /\ record.scope = CandidateOf[c].scope
           /\ record.statement = CandidateOf[c].statement
<1> DEFINE proposal == CandidateOf[c]
           until == Until(day, RetentionDays(c))
           record == [candidate |-> c, subject |-> proposal.subject, scope |-> proposal.scope,
                      statement |-> proposal.statement, valid_from |-> day,
                      expires |-> until, status |-> "active",
                      supersedes |-> 0, revision |-> 1]
<1>1. until \in Nat /\ (until # 0 => until > day)
  BY RetentionTyped, MemoriesTyped DEF Until
<1> HIDE DEF until
<1>2. record \in MemoryRecords
  BY <1>1, ProposalFields, MemoriesTyped DEF MemoryRecords, MemoryStatuses
<1>3. memories' = Append(memories, record)
  BY DEF Promote, until
<1>4. record.status = "active" /\ record.supersedes = 0
      /\ (record.expires # 0 => record.expires > record.valid_from)
      /\ record.candidate = c /\ record.subject = CandidateOf[c].subject
      /\ record.scope = CandidateOf[c].scope
      /\ record.statement = CandidateOf[c].statement
  BY <1>1
<1> HIDE DEF record
<1>5. Adds(record)
  BY <1>2, <1>3, AppendFields, MemoriesTyped DEF Adds, MemoryTypeOK
<1> QED  BY <1>4, <1>5

LEMMA CorrectReplaces ==
  ASSUME MemoryTypeOK, NEW i \in DOMAIN memories, NEW statement \in Statements,
         Correct(i, statement)
  PROVE  Replaces(i, Corrected(i, statement))
<1> DEFINE record == Corrected(i, statement)
           next == [memories EXCEPT ![i] = Restated(@, "superseded")]
<1>1. record \in MemoryRecords
  BY CorrectedTyped
<1>2. "superseded" \in MemoryStatuses
  BY DEF MemoryStatuses
<1>3. /\ next \in Seq(MemoryRecords) /\ Len(next) = Len(memories)
      /\ DOMAIN next = DOMAIN memories
      /\ \A j \in DOMAIN memories \ {i} : next[j] = memories[j]
      /\ SameMemory(memories[i], next[i]) /\ next[i].status = "superseded"
  BY <1>2, OneRestated
<1>4. memories' = Append(next, record) /\ memories[i].status = "active"
  BY DEF Correct
<1> HIDE DEF next, record
<1>5. /\ memories' \in Seq(MemoryRecords) /\ DOMAIN memories' = 1 .. Len(memories) + 1
      /\ \A j \in DOMAIN memories : memories'[j] = next[j]
      /\ memories'[Len(memories) + 1] = record
  BY <1>1, <1>3, <1>4, AppendFields, MemoriesTyped
<1>6. Replaces(i, record)
  BY <1>1, <1>3, <1>4, <1>5 DEF Replaces
<1> QED  BY <1>6 DEF record

(* Every step does one of these to the records.                            *)
MemoryEffect ==
  \/ /\ memories' = memories /\ revoked' = revoked
  \/ /\ Retires
     /\ \A i \in DOMAIN memories : \A c \in revoked' \ revoked :
          memories'[i].status = "active" => memories'[i].candidate # c
  \/ \E c \in Candidates, record \in MemoryRecords :
       /\ Adds(record) /\ record.status = "active" /\ record.supersedes = 0
       /\ record.expires # 0 => record.expires > record.valid_from
       /\ record.candidate = c /\ record.subject = CandidateOf[c].subject
       /\ record.scope = CandidateOf[c].scope
       /\ record.statement = CandidateOf[c].statement
       /\ record.scope \in TeamTenantScopes => reviews[c] = "approved"
       /\ DuplicatesOf(c) = {}
       /\ revoked' = revoked \ {c}
  \/ \E i \in DOMAIN memories, record \in MemoryRecords :
       /\ Replaces(i, record) /\ record.status = "active" /\ record.supersedes = i
       /\ record.expires # 0 => record.expires > record.valid_from
       /\ record.candidate = memories[i].candidate
       /\ record.scope = memories[i].scope
       /\ revoked' = revoked

LEMMA EveryEffect ==
  ASSUME MemoryTypeOK, [MemoryNext]_memoryVars
  PROVE  /\ MemoryEffect
         /\ day' \in 0 .. MaxDay /\ revoked' \subseteq Candidates
<1>0. day \in 0 .. MaxDay /\ revoked \subseteq Candidates /\ MaxDay \in Nat
  BY ConstantsTyped DEF MemoryTypeOK
<1>1. CASE DayPasses
  BY <1>0, <1>1 DEF DayPasses, MemoryEffect
<1>2. ASSUME NEW c \in Candidates,
             SubmitCandidate(c) \/ \E decision \in Decisions : ReviewCandidate(c, decision)
      PROVE  MemoryEffect /\ day' \in 0 .. MaxDay /\ revoked' \subseteq Candidates
  BY <1>0, <1>2 DEF SubmitCandidate, ReviewCandidate, MemoryEffect
<1>3. ASSUME NEW c \in Candidates, NEW from_review \in BOOLEAN, Promote(c, from_review)
      PROVE  MemoryEffect /\ day' \in 0 .. MaxDay /\ revoked' \subseteq Candidates
  <2>1. PICK record :
          /\ Adds(record) /\ record.status = "active" /\ record.supersedes = 0
          /\ record.expires # 0 => record.expires > record.valid_from
          /\ record.candidate = c /\ record.subject = CandidateOf[c].subject
          /\ record.scope = CandidateOf[c].scope
          /\ record.statement = CandidateOf[c].statement
    BY <1>3, PromoteAdds
  <2>2. record \in MemoryRecords
    BY <2>1 DEF Adds
  <2>3. /\ CandidateOf[c].scope \in TeamTenantScopes => reviews[c] = "approved"
        /\ DuplicatesOf(c) = {} /\ revoked' = revoked \ {c} /\ day' = day
    BY <1>3 DEF Promote
  <2>4. MemoryEffect
    BY <2>1, <2>2, <2>3 DEF MemoryEffect
  <2> QED  BY <1>0, <2>3, <2>4
<1>4. ASSUME NEW c \in Candidates, RevokeConsent(c)
      PROVE  MemoryEffect /\ day' \in 0 .. MaxDay /\ revoked' \subseteq Candidates
  <2>1. revoked' = revoked \union {c} /\ day' = day
    BY <1>4 DEF RevokeConsent
  <2>2. MemoryEffect
    BY <1>4, <2>1, RevokeRetires DEF MemoryEffect
  <2> QED  BY <1>0, <2>1, <2>2
<1>5. ASSUME NEW i \in DOMAIN memories, NEW statement \in Statements, Correct(i, statement)
      PROVE  MemoryEffect /\ day' \in 0 .. MaxDay /\ revoked' \subseteq Candidates
  <2>1. revoked' = revoked /\ day' = day
    BY <1>5 DEF Correct
  <2>2. MemoryEffect
    BY <1>5, <2>1, CorrectReplaces, CorrectedTyped DEF MemoryEffect
  <2> QED  BY <1>0, <2>1, <2>2
<1>6. ASSUME NEW i \in DOMAIN memories, Expire(i) \/ Delete(i) \/ CorrectHalfway(i)
      PROVE  MemoryEffect /\ day' \in 0 .. MaxDay /\ revoked' \subseteq Candidates
  <2>1. revoked' = revoked /\ day' = day
    BY <1>6 DEF Expire, Delete, CorrectHalfway
  <2>2. MemoryEffect
    BY <1>6, <2>1, ExpireRetires DEF MemoryEffect
  <2> QED  BY <1>0, <2>1, <2>2
<1>7. CASE UNCHANGED memoryVars
  BY <1>0, <1>7 DEF memoryVars, MemoryEffect
<1> QED  BY <1>1, <1>2, <1>3, <1>4, <1>5, <1>6, <1>7 DEF MemoryNext

LEMMA TypeKept ==
  ASSUME MemoryTypeOK, MemoryEffect, NEW i \in DOMAIN memories'
  PROVE  /\ memories'[i].supersedes < i
         /\ memories'[i].expires # 0 => memories'[i].expires > memories'[i].valid_from
<1>0. \A j \in DOMAIN memories :
        /\ memories[j].supersedes < j
        /\ memories[j].expires # 0 => memories[j].expires > memories[j].valid_from
  BY DEF MemoryTypeOK
<1>1. Len(memories) \in Nat /\ DOMAIN memories = 1 .. Len(memories)
  BY MemoriesTyped
<1>2. CASE i \in DOMAIN memories /\ SameMemory(memories[i], memories'[i])
  BY <1>0, <1>2 DEF SameMemory
<1>3. CASE i \in DOMAIN memories /\ memories'[i] = memories[i]
  BY <1>0, <1>3
<1>4. ASSUME NEW record \in MemoryRecords, NEW old \in DOMAIN memories,
             memories'[Len(memories) + 1] = record, i = Len(memories) + 1,
             record.supersedes \in {0, old},
             record.expires # 0 => record.expires > record.valid_from
      PROVE  /\ memories'[i].supersedes < i
             /\ memories'[i].expires # 0 => memories'[i].expires > memories'[i].valid_from
  BY <1>1, <1>4
<1>5. ASSUME NEW record \in MemoryRecords, Adds(record), record.supersedes = 0,
             record.expires # 0 => record.expires > record.valid_from
      PROVE  /\ memories'[i].supersedes < i
             /\ memories'[i].expires # 0 => memories'[i].expires > memories'[i].valid_from
  <2>1. i \in DOMAIN memories \/ i = Len(memories) + 1
    BY <1>1, <1>5 DEF Adds
  <2>2. CASE i = Len(memories) + 1
    BY <1>1, <1>5, <2>2 DEF Adds
  <2> QED  BY <1>3, <1>5, <2>1, <2>2 DEF Adds
<1>6. ASSUME NEW old \in DOMAIN memories, NEW record \in MemoryRecords,
             Replaces(old, record), record.supersedes = old,
             record.expires # 0 => record.expires > record.valid_from
      PROVE  /\ memories'[i].supersedes < i
             /\ memories'[i].expires # 0 => memories'[i].expires > memories'[i].valid_from
  <2>1. i \in DOMAIN memories \/ i = Len(memories) + 1
    BY <1>1, <1>6 DEF Replaces
  <2>2. CASE i = Len(memories) + 1
    BY <1>4, <1>6, <2>2 DEF Replaces
  <2> QED  BY <1>2, <1>3, <1>6, <2>1, <2>2 DEF Replaces
<1> QED  BY <1>2, <1>3, <1>5, <1>6 DEF MemoryEffect, Retires

LEMMA TypeInit == MemoryInit => MemoryTypeOK
BY ConstantsTyped, EmptySeq DEF MemoryInit, MemoryTypeOK

LEMMA ReviewsTyped ==
  ASSUME MemoryTypeOK, [MemoryNext]_memoryVars
  PROVE  reviews' \in [Candidates -> ReviewStatuses \union {"none"}]
BY DEF MemoryTypeOK, MemoryNext, memoryVars, DayPasses, SubmitCandidate, ReviewCandidate,
       Decisions, ReviewStatuses, Promote, RevokeConsent, Correct, CorrectHalfway,
       Expire, Delete

LEMMA MemoryTypeStep ==
  ASSUME MemoryTypeOK, [MemoryNext]_memoryVars
  PROVE  MemoryTypeOK'
<1>1. MemoryEffect /\ day' \in 0 .. MaxDay /\ revoked' \subseteq Candidates
  BY EveryEffect
<1>2. memories' \in Seq(MemoryRecords)
  BY <1>1 DEF MemoryEffect, Retires, Adds, Replaces, MemoryTypeOK
<1> QED  BY <1>1, <1>2, TypeKept, ReviewsTyped DEF MemoryTypeOK

(* The state of the memory service has its type: no correction comes       *)
(* before what it corrects, and nothing is kept for less than no time.     *)
THEOREM MemoryTypeCorrect == MemorySpec => []MemoryTypeOK
<1>1. MemoryTypeOK /\ [MemoryNext]_memoryVars => MemoryTypeOK'
  BY MemoryTypeStep
<1> QED  BY <1>1, TypeInit, PTL DEF MemorySpec

(* A record that was replaced, expired or deleted is never active again,   *)
(* and what was deleted stays deleted, whichever operation follows.        *)
THEOREM RetiredForGood == MemorySpec => RecordsOnlyRetire
<1>1. ASSUME MemoryTypeOK, [MemoryNext]_memoryVars
      PROVE  \A i \in DOMAIN memories :
               memories'[i].status # memories[i].status =>
                 <<memories[i].status, memories'[i].status>> \in StatusMoves
  <2> SUFFICES ASSUME NEW i \in DOMAIN memories,
                      memories'[i].status # memories[i].status
               PROVE  <<memories[i].status, memories'[i].status>> \in StatusMoves
    OBVIOUS
  <2>1. MemoryEffect
    BY <1>1, EveryEffect
  <2>2. memories[i].status \in MemoryStatuses
    BY <1>1, MemoriesTyped, RecordFields
  <2>3. \/ memories[i].status = "active" /\ memories'[i].status = "expired"
        \/ memories'[i].status = "deleted"
        \/ memories[i].status = "active" /\ memories'[i].status = "superseded"
    BY <2>1 DEF MemoryEffect, Retires, Adds, Replaces
  <2> QED  BY <2>2, <2>3 DEF MemoryStatuses, StatusMoves
<1>2. MemoryTypeOK /\ [MemoryNext]_memoryVars =>
        [\A i \in DOMAIN memories :
           memories'[i].status # memories[i].status =>
             <<memories[i].status, memories'[i].status>> \in StatusMoves]_memoryVars
  BY <1>1
<1> QED  BY <1>2, MemoryTypeCorrect, PTL DEF MemorySpec, RecordsOnlyRetire

-----------------------------------------------------------------------------
(* LinearLineage in terms of what each version replaces.                   *)
Lineage ==
  /\ \A i, j \in DOMAIN memories :
       memories[i].supersedes # 0 /\ memories[i].supersedes = memories[j].supersedes => i = j
  /\ \A i \in DOMAIN memories : memories[i].supersedes # 0 =>
       memories[memories[i].supersedes].status \in {"superseded", "deleted"}
  /\ \A i \in DOMAIN memories :
       memories[i].status = "superseded" /\ memories[i].expires = 0 =>
         \E j \in DOMAIN memories : memories[j].supersedes = i

(* Records that are active keep their consent.                             *)
Consented ==
  \A i \in DOMAIN memories :
    memories[i].status = "active" => memories[i].candidate \notin revoked

MemoryInv ==
  MemoryTypeOK /\ Lineage /\ DuplicatesOnlyByCorrection /\ Consented

(* What a version replaces is among the records.                           *)
LEMMA ReplacedTyped ==
  ASSUME MemoryTypeOK, NEW i \in DOMAIN memories, memories[i].supersedes # 0
  PROVE  memories[i].supersedes \in DOMAIN memories
<1>1. memories[i].supersedes \in Nat /\ memories[i].supersedes < i
  BY MemoriesTyped, RecordFields
<1> QED  BY <1>1, MemoriesTyped

LEMMA RetiresInv ==
  ASSUME MemoryInv, Retires,
         \A i \in DOMAIN memories : \A c \in revoked' \ revoked :
           memories'[i].status = "active" => memories'[i].candidate # c
  PROVE  Lineage' /\ DuplicatesOnlyByCorrection' /\ Consented'
<1>1. /\ DOMAIN memories' = DOMAIN memories
      /\ \A i \in DOMAIN memories :
           /\ memories'[i].supersedes = memories[i].supersedes
           /\ memories'[i].candidate = memories[i].candidate
           /\ memories'[i].subject = memories[i].subject
           /\ memories'[i].statement = memories[i].statement
           /\ memories'[i].status = "active" => memories[i].status = "active"
           /\ memories'[i].expires = memories[i].expires
           /\ memories'[i].status = "superseded" /\ memories[i].expires = 0 =>
                memories[i].status = "superseded"
           /\ memories[i].status \in {"superseded", "deleted"} =>
                memories'[i].status \in {"superseded", "deleted"}
  BY DEF Retires, SameMemory
<1>2. \A i \in DOMAIN memories :
        memories[i].supersedes # 0 => memories[i].supersedes \in DOMAIN memories
  BY ReplacedTyped DEF MemoryInv
<1>3. Lineage'
  BY <1>1, <1>2 DEF MemoryInv, Lineage
<1>4. DuplicatesOnlyByCorrection'
  BY <1>1 DEF MemoryInv, DuplicatesOnlyByCorrection, Active
<1>5. Consented'
  BY <1>1 DEF MemoryInv, Consented
<1> QED  BY <1>3, <1>4, <1>5

LEMMA AddsInv ==
  ASSUME MemoryInv, NEW c \in Candidates, NEW record \in MemoryRecords, Adds(record),
         record.status = "active", record.supersedes = 0, record.candidate = c,
         record.subject = CandidateOf[c].subject, record.statement = CandidateOf[c].statement,
         DuplicatesOf(c) = {}, revoked' = revoked \ {c}
  PROVE  Lineage' /\ DuplicatesOnlyByCorrection' /\ Consented'
<1> DEFINE last == Len(memories) + 1
<1>0. \A i \in DOMAIN memories : i # last /\ i # 0
  BY MemoriesTyped DEF MemoryInv
<1>1. /\ \A i \in DOMAIN memories' : i \in DOMAIN memories \/ i = last
      /\ \A i \in DOMAIN memories : i \in DOMAIN memories' /\ memories'[i] = memories[i]
      /\ last \in DOMAIN memories' /\ memories'[last] = record
  BY MemoriesTyped DEF MemoryInv, Adds
<1>2. \A i \in DOMAIN memories :
        memories[i].supersedes # 0 => memories[i].supersedes \in DOMAIN memories
  BY ReplacedTyped DEF MemoryInv
<1> HIDE DEF last
<1>3. Lineage'
  BY <1>1, <1>2 DEF MemoryInv, Lineage
<1>4. DuplicatesOnlyByCorrection'
  <2> SUFFICES ASSUME NEW i \in Active', NEW j \in Active', i # j,
                      memories'[i].subject = memories'[j].subject,
                      memories'[i].statement = memories'[j].statement
               PROVE  memories'[i].supersedes # 0 \/ memories'[j].supersedes # 0
    BY DEF DuplicatesOnlyByCorrection
  <2>1. \A k \in DOMAIN memories :
          memories[k].status = "active" /\ memories[k].subject = CandidateOf[c].subject
          => memories[k].statement # CandidateOf[c].statement
    BY DEF DuplicatesOf, ActiveOf, Active
  <2>2. i \in DOMAIN memories /\ j \in DOMAIN memories
    BY <1>1, <2>1 DEF Active
  <2>3. i \in Active /\ j \in Active
    BY <1>1, <2>2 DEF Active
  <2> QED  BY <1>1, <2>2, <2>3 DEF MemoryInv, DuplicatesOnlyByCorrection
<1>5. Consented'
  BY <1>1 DEF MemoryInv, Consented
<1> QED  BY <1>3, <1>4, <1>5

LEMMA ReplacesInv ==
  ASSUME MemoryInv, NEW old \in DOMAIN memories, NEW record \in MemoryRecords,
         Replaces(old, record), record.status = "active", record.supersedes = old,
         record.candidate = memories[old].candidate, revoked' = revoked
  PROVE  Lineage' /\ DuplicatesOnlyByCorrection' /\ Consented'
<1> DEFINE last == Len(memories) + 1
<1>0. \A i \in DOMAIN memories : i # last /\ i # 0
  BY MemoriesTyped DEF MemoryInv
<1>1. /\ \A i \in DOMAIN memories' : i \in DOMAIN memories \/ i = last
      /\ \A i \in DOMAIN memories : i \in DOMAIN memories'
      /\ \A i \in DOMAIN memories \ {old} : memories'[i] = memories[i]
      /\ SameMemory(memories[old], memories'[old])
      /\ memories[old].status = "active" /\ memories'[old].status = "superseded"
      /\ last \in DOMAIN memories' /\ memories'[last] = record
  BY MemoriesTyped DEF MemoryInv, Replaces
<1>2. \A i \in DOMAIN memories :
        memories[i].supersedes # 0 => memories[i].supersedes \in DOMAIN memories
  BY ReplacedTyped DEF MemoryInv
<1>3. \A i \in DOMAIN memories :
        /\ SameMemory(memories[i], memories'[i])
        /\ memories'[i].supersedes = memories[i].supersedes
        /\ memories[i].supersedes # old
        /\ memories'[i].status = memories[i].status \/ i = old
  <2>1. old # 0
    BY <1>0
  <2>2. \A i \in DOMAIN memories : memories[i].supersedes # old
    BY <1>1, <2>1 DEF MemoryInv, Lineage
  <2> QED  BY <1>1, <2>2 DEF SameMemory
<1> HIDE DEF last
<1>4. Lineage'
  <2>1. \A i, j \in DOMAIN memories' :
          memories'[i].supersedes # 0 /\ memories'[i].supersedes = memories'[j].supersedes
            => i = j
    BY <1>1, <1>3 DEF MemoryInv, Lineage
  <2>2. \A i \in DOMAIN memories' : memories'[i].supersedes # 0 =>
          memories'[memories'[i].supersedes].status \in {"superseded", "deleted"}
    <3> SUFFICES ASSUME NEW i \in DOMAIN memories', memories'[i].supersedes # 0
                 PROVE  memories'[memories'[i].supersedes].status \in {"superseded", "deleted"}
      OBVIOUS
    <3>1. CASE i = last
      BY <1>1, <3>1
    <3>2. CASE i \in DOMAIN memories
      BY <1>1, <1>2, <1>3, <3>2 DEF MemoryInv, Lineage
    <3> QED  BY <1>1, <3>1, <3>2
  <2>3. \A i \in DOMAIN memories' :
          memories'[i].status = "superseded" /\ memories'[i].expires = 0 =>
            \E j \in DOMAIN memories' : memories'[j].supersedes = i
    <3> SUFFICES ASSUME NEW i \in DOMAIN memories', memories'[i].status = "superseded",
                        memories'[i].expires = 0
                 PROVE  \E j \in DOMAIN memories' : memories'[j].supersedes = i
      OBVIOUS
    <3>1. CASE i = old
      BY <1>1, <3>1
    <3>2. CASE i # old
      <4>1. i \in DOMAIN memories /\ memories[i].status = "superseded"
            /\ memories[i].expires = 0
        BY <1>1, <3>2
      <4>2. PICK j \in DOMAIN memories : memories[j].supersedes = i
        BY <4>1 DEF MemoryInv, Lineage
      <4> QED  BY <1>1, <1>3, <4>2
    <3> QED  BY <3>1, <3>2
  <2> QED  BY <2>1, <2>2, <2>3 DEF Lineage
<1>5. DuplicatesOnlyByCorrection'
  <2> SUFFICES ASSUME NEW i \in Active', NEW j \in Active', i # j,
                      memories'[i].subject = memories'[j].subject,
                      memories'[i].statement = memories'[j].statement
               PROVE  memories'[i].supersedes # 0 \/ memories'[j].supersedes # 0
    BY DEF DuplicatesOnlyByCorrection
  <2>1. CASE i = last \/ j = last
    BY <1>0, <1>1, <2>1
  <2>2. CASE i # last /\ j # last
    <3>1. i \in Active /\ j \in Active /\ i # old /\ j # old
      BY <1>1, <2>2 DEF Active
    <3>2. memories'[i] = memories[i] /\ memories'[j] = memories[j]
      BY <1>1, <3>1 DEF Active
    <3> QED  BY <3>1, <3>2 DEF MemoryInv, DuplicatesOnlyByCorrection
  <2> QED  BY <2>1, <2>2
<1>6. Consented'
  <2> SUFFICES ASSUME NEW i \in DOMAIN memories', memories'[i].status = "active"
               PROVE  memories'[i].candidate \notin revoked
    BY DEF Consented
  <2>1. CASE i = last
    BY <1>1, <2>1 DEF MemoryInv, Consented
  <2>2. CASE i # last
    BY <1>1, <2>2 DEF MemoryInv, Consented
  <2> QED  BY <2>1, <2>2
<1> QED  BY <1>4, <1>5, <1>6

LEMMA MemoryStep ==
  ASSUME MemoryInv, [MemoryNext]_memoryVars
  PROVE  MemoryInv'
<1>1. MemoryTypeOK /\ MemoryTypeOK' /\ MemoryEffect
  BY MemoryTypeStep, EveryEffect DEF MemoryInv
<1>2. CASE memories' = memories /\ revoked' = revoked
  BY <1>1, <1>2 DEF MemoryInv, Lineage, DuplicatesOnlyByCorrection, Active, Consented
<1> QED
  BY <1>1, <1>2, RetiresInv, AddsInv, ReplacesInv DEF MemoryEffect, MemoryInv

LEMMA SpecMemory == MemorySpec => []MemoryInv
<1>1. MemoryInit => MemoryInv
  <2>1. DOMAIN << >> = {}
    OBVIOUS
  <2> QED
    BY <2>1, TypeInit
    DEF MemoryInit, MemoryInv, Lineage, DuplicatesOnlyByCorrection, Active, Consented
<1>2. MemoryInv /\ [MemoryNext]_memoryVars => MemoryInv'
  BY MemoryStep
<1> QED  BY <1>1, <1>2, PTL DEF MemorySpec

LEMMA LineageIsLinear ==
  ASSUME MemoryTypeOK, Lineage
  PROVE  LinearLineage
<1> SUFFICES ASSUME NEW i \in DOMAIN memories
             PROVE  /\ Cardinality(Successors(i)) <= 1
                    /\ Successors(i) # {} => memories[i].status \in {"superseded", "deleted"}
                    /\ memories[i].status = "superseded" /\ memories[i].expires = 0
                         => Successors(i) # {}
  BY DEF LinearLineage
<1>1. i # 0
  BY MemoriesTyped
<1>2. \A j, k \in Successors(i) : j = k
  BY <1>1 DEF Lineage, Successors
<1>3. Cardinality(Successors(i)) <= 1
  <2>1. CASE Successors(i) = {}
    BY <2>1, FS_EmptySet
  <2>2. CASE Successors(i) # {}
    <3>1. PICK j : Successors(i) = {j}
      BY <1>2, <2>2
    <3> QED  BY <3>1, FS_Singleton
  <2> QED  BY <2>1, <2>2
<1>4. Successors(i) # {} => memories[i].status \in {"superseded", "deleted"}
  BY <1>1 DEF Lineage, Successors
<1>5. memories[i].status = "superseded" /\ memories[i].expires = 0 => Successors(i) # {}
  BY DEF Lineage, Successors
<1> QED  BY <1>3, <1>4, <1>5

(* A fact is remembered as one line of versions, however promotions,       *)
(* corrections, expiries, deletions and revocations follow one another and *)
(* wherever a correction breaks off: a version has one successor at most,  *)
(* what was kept without end and is superseded has one, and no promotion   *)
(* stores what is active already.                                          *)
THEOREM LinesHold == MemorySpec => []MemoryLinesHold
<1>1. MemoryInv => MemoryLinesHold
  BY LineageIsLinear DEF MemoryInv, MemoryLinesHold
<1> QED  BY <1>1, SpecMemory, PTL

-----------------------------------------------------------------------------
(* An approval that stands is of a candidate that reached its threshold.   *)
Gated ==
  \A c \in Candidates :
    reviews[c] = "approved" => CandidateOf[c].confidence >= Threshold(c)

(* The gate opens for nothing below its threshold, and forgets no review.  *)
LEMMA GateStep ==
  ASSUME MemoryTypeOK, Gated, [MemoryNext]_memoryVars
  PROVE  /\ Gated'
         /\ \A c \in Candidates : reviews[c] # "none" => reviews'[c] # "none"
<1>0. \A c \in Candidates :
        CandidateOf[c].confidence \in Nat /\ Threshold(c) \in Nat
  BY ProposalFields DEF Threshold
<1>1. ASSUME NEW c \in Candidates, SubmitCandidate(c)
      PROVE  /\ Gated'
             /\ \A d \in Candidates : reviews[d] # "none" => reviews'[d] # "none"
  BY <1>1 DEF SubmitCandidate, MemoryTypeOK, Gated, Threshold
<1>2. ASSUME NEW c \in Candidates, NEW decision \in Decisions, ReviewCandidate(c, decision)
      PROVE  /\ Gated'
             /\ \A d \in Candidates : reviews[d] # "none" => reviews'[d] # "none"
  <2>1. decision # "none" /\ \A d \in Candidates \ {c} : reviews'[d] = reviews[d]
    BY <1>2 DEF ReviewCandidate, MemoryTypeOK, Decisions, ReviewStatuses
  <2>2. reviews'[c] = IF decision = "approved" /\ CandidateOf[c].confidence < Threshold(c)
                        THEN "needs_review" ELSE decision
    BY <1>2 DEF ReviewCandidate, MemoryTypeOK
  <2>3. reviews'[c] = "approved" => CandidateOf[c].confidence >= Threshold(c)
    BY <1>0, <2>2
  <2> QED  BY <2>1, <2>2, <2>3 DEF Gated, Threshold
<1>3. CASE reviews' = reviews
  BY <1>3 DEF Gated, Threshold
<1> QED
  BY <1>1, <1>2, <1>3
  DEF MemoryNext, memoryVars, DayPasses, Promote, RevokeConsent, Correct, CorrectHalfway,
       Expire, Delete

LEMMA ReviewedStep ==
  ASSUME MemoryTypeOK, Gated, SharedMemoryWasReviewed, [MemoryNext]_memoryVars
  PROVE  SharedMemoryWasReviewed'
<1>0. Len(memories) \in Nat /\ DOMAIN memories = 1 .. Len(memories)
  BY MemoriesTyped
<1>1. MemoryEffect /\ \A c \in Candidates : reviews[c] # "none" => reviews'[c] # "none"
  BY EveryEffect, GateStep
<1> SUFFICES ASSUME NEW i \in DOMAIN memories', memories'[i].scope \in TeamTenantScopes
             PROVE  /\ CandidateOf[memories'[i].candidate].confidence = 2
                    /\ reviews'[memories'[i].candidate] # "none"
  BY DEF SharedMemoryWasReviewed
<1>2. ASSUME NEW j \in DOMAIN memories, memories'[i].candidate = memories[j].candidate,
             memories'[i].scope = memories[j].scope
      PROVE  /\ CandidateOf[memories'[i].candidate].confidence = 2
             /\ reviews'[memories'[i].candidate] # "none"
  <2>1. memories[j].candidate \in Candidates
    BY MemoriesTyped, RecordFields
  <2> QED  BY <1>1, <1>2, <2>1 DEF SharedMemoryWasReviewed
<1>3. CASE memories' = memories \/ Retires
  <2>1. i \in DOMAIN memories /\ memories'[i].candidate = memories[i].candidate
        /\ memories'[i].scope = memories[i].scope
    BY <1>3 DEF Retires, SameMemory
  <2> QED  BY <1>2, <2>1
<1>4. ASSUME NEW c \in Candidates, NEW record \in MemoryRecords, Adds(record),
             record.candidate = c, record.scope = CandidateOf[c].scope,
             record.scope \in TeamTenantScopes => reviews[c] = "approved"
      PROVE  /\ CandidateOf[memories'[i].candidate].confidence = 2
             /\ reviews'[memories'[i].candidate] # "none"
  <2>1. CASE i \in DOMAIN memories
    BY <1>2, <1>4, <2>1 DEF Adds
  <2>2. CASE i = Len(memories) + 1
    <3>1. memories'[i] = record /\ reviews[c] = "approved" /\ Threshold(c) = 2
      BY <1>4, <2>2 DEF Adds, Threshold
    <3>2. CandidateOf[c].confidence >= 2 /\ CandidateOf[c].confidence \in 0 .. 2
      BY <3>1, ProposalFields DEF Gated
    <3>3. CandidateOf[c].confidence = 2
      BY <3>2
    <3> QED  BY <1>1, <1>4, <3>1, <3>3
  <2> QED  BY <1>0, <1>4, <2>1, <2>2 DEF Adds
<1>5. ASSUME NEW old \in DOMAIN memories, NEW record \in MemoryRecords,
             Replaces(old, record), record.candidate = memories[old].candidate,
             record.scope = memories[old].scope
      PROVE  /\ CandidateOf[memories'[i].candidate].confidence = 2
             /\ reviews'[memories'[i].candidate] # "none"
  <2>1. CASE i \in DOMAIN memories
    BY <1>2, <1>5, <2>1 DEF Replaces, SameMemory
  <2>2. CASE i = Len(memories) + 1
    BY <1>2, <1>5, <2>2 DEF Replaces
  <2> QED  BY <1>0, <1>5, <2>1, <2>2 DEF Replaces
<1> QED  BY <1>1, <1>3, <1>4, <1>5 DEF MemoryEffect

(* What others may recall was confident enough for them and went through   *)
(* the review gate, and what lost its consent is recalled by nobody until  *)
(* its candidate is promoted once more.                                    *)
THEOREM ReadersAreProtected == MemorySpec => []MemoryReadersAreProtected
<1>1. MemoryInit => Gated /\ SharedMemoryWasReviewed
  <2>1. DOMAIN << >> = {}
    OBVIOUS
  <2> QED  BY <2>1 DEF MemoryInit, Gated, SharedMemoryWasReviewed
<1>2. MemoryInv /\ Gated /\ SharedMemoryWasReviewed /\ [MemoryNext]_memoryVars =>
        Gated' /\ SharedMemoryWasReviewed'
  BY GateStep, ReviewedStep DEF MemoryInv
<1>3. MemoryInv /\ SharedMemoryWasReviewed => MemoryReadersAreProtected
  <2>1. MemoryInv => RevokedIsNotRecalled
    BY DEF MemoryInv, Consented, RevokedIsNotRecalled, Recall, Active
  <2> QED  BY <2>1 DEF MemoryReadersAreProtected
<1> QED  BY <1>1, <1>2, <1>3, SpecMemory, PTL DEF MemorySpec
=============================================================================
