------------------------------- MODULE Evidence -------------------------------
(***************************************************************************)
(* evidence/evidence.py over infrastructure/telemetry/collector.py: what   *)
(* adapters report is collected, ingested as observations and, where a     *)
(* window holds enough errors, made a candidate for an evolution trigger.  *)
(*                                                                         *)
(* Nothing empties a collector: whoever ingests again, as new reports come *)
(* in, hands over the old ones with them.  Nothing depends on the order of *)
(* what is collected or observed.                                          *)
(***************************************************************************)
EXTENDS Naturals, FiniteSets

CONSTANTS
  Tenant,     \* the tenant of the pipeline
  Tenants,    \* tenants that report
  Period,     \* window_period_millis, in moments
  ErrorRate,  \* threshold_error_rate, in percent
  MaxReports, \* bound: reports in all
  MaxIngests, \* bound: how often the collector is ingested
  MaxMoment   \* bound of the clock

ASSUME EvidenceAssumption == MaxReports \in Nat /\ MaxIngests \in Nat /\ MaxMoment \in Nat

VARIABLES
  collector,    \* traces and logs that were emitted
  observations, \* _observations: what was reported, each time it was ingested
  ingests,      \* how often the collector was ingested
  reported,     \* how many reports there ever were: each has a number
  found,        \* ghost: the errors each trigger candidate was based on, and ingests
  moment        \* the clock

evidenceVars == <<collector, observations, ingests, reported, found, moment>>

-----------------------------------------------------------------------------
Reports ==
  [no : 1 .. MaxReports, kind : {"trace", "log"}, tenant : Tenants,
   error : BOOLEAN, at : 0 .. MaxMoment]

EvidenceInit ==
  /\ collector    = {}
  /\ observations = {}
  /\ ingests      = 0
  /\ reported     = 0
  /\ found        = {}
  /\ moment       = 0

(* EmitTrace and EmitLog.  Only a log can carry an error code: a trace     *)
(* tells its result class, which no one counts as an error.                *)
Emit(kind, tenant, error) ==
  /\ reported < MaxReports
  /\ error => kind = "log"
  /\ reported' = reported + 1
  /\ collector' = collector \union {[no |-> reported + 1, kind |-> kind, tenant |-> tenant,
                                     error |-> error, at |-> moment]}
  /\ UNCHANGED <<observations, ingests, found, moment>>

(* The traces of the tenant and all logs.                                  *)
Observed == {r \in collector : r.kind = "log" \/ r.tenant = Tenant}

(* An observation has an id of its own, so that what is ingested again     *)
(* counts again: here, the number of the ingestion tells the two apart.    *)
IngestEvidence ==
  /\ ingests < MaxIngests
  /\ ingests' = ingests + 1
  /\ observations' = observations \union {[of |-> r, ingest |-> ingests'] : r \in Observed}
  /\ UNCHANGED <<collector, reported, found, moment>>

RollingWindow == {o \in observations : o.of.at + Period >= moment}

ErrorsIn(window) == {o \in window : o.of.error}

(* Mutant: two errors are enough.                                          *)
BreachesByTwo(window) ==
  /\ Cardinality(ErrorsIn(window)) >= 2
  /\ 100 * Cardinality(ErrorsIn(window)) >= ErrorRate * Cardinality(window)

Breaches(window) ==
  /\ Cardinality(ErrorsIn(window)) >= 3
  /\ 100 * Cardinality(ErrorsIn(window)) >= ErrorRate * Cardinality(window)

DetectTriggerCandidate ==
  /\ Breaches(RollingWindow)
  /\ found' = found \union
       {[errors |-> {o.of.no : o \in ErrorsIn(RollingWindow)}, ingests |-> ingests]}
  /\ UNCHANGED <<collector, observations, ingests, reported, moment>>

Pass ==
  /\ moment < MaxMoment
  /\ moment' = moment + 1
  /\ UNCHANGED <<collector, observations, ingests, reported, found>>

EvidenceNext ==
  \/ \E kind \in {"trace", "log"}, tenant \in Tenants, error \in BOOLEAN :
       Emit(kind, tenant, error)
  \/ IngestEvidence
  \/ DetectTriggerCandidate
  \/ Pass

EvidenceSpec == EvidenceInit /\ [][EvidenceNext]_evidenceVars

-----------------------------------------------------------------------------
EvidenceTypeOK ==
  /\ collector \subseteq Reports
  /\ observations \subseteq [of : Reports, ingest : 1 .. MaxIngests]
  /\ ingests \in 0 .. MaxIngests
  /\ reported \in 0 .. MaxReports
  /\ found \subseteq [errors : SUBSET (1 .. MaxReports), ingests : 0 .. MaxIngests]
  /\ moment \in 0 .. MaxMoment

(* What a candidate's three errors are worth: an error counts at most once *)
(* each time it was ingested, so that fewer than three different errors    *)
(* make a candidate only where the collector was ingested again, and one   *)
(* alone only from the third time on (evidence.py:115, 190).  From there   *)
(* on a single anomaly does make a trigger, which evidence.py:187 excludes.*)
ErrorsCountOncePerIngest ==
  \A candidate \in found : Cardinality(candidate.errors) * candidate.ingests >= 3
=============================================================================
