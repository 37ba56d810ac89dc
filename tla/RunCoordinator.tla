---------------------------- MODULE RunCoordinator ----------------------------
(***************************************************************************)
(* runtime/coordinator.py over the SQL repositories: concurrent workers    *)
(* (API requests, executors, recovery) drive Runs through transactions.    *)
(*                                                                         *)
(* A transaction is two steps.  The first reads the row and makes every    *)
(* check the method makes before it writes; a check that fails raises,     *)
(* which changes nothing, so the step is simply not enabled.  The second   *)
(* is the conditional UPDATE, the INSERTs into the outbox and the commit:  *)
(* the row lock taken by the UPDATE is held to the commit, so the two are  *)
(* one step to every other writer (READ COMMITTED).  Between the steps     *)
(* other transactions commit.  Abort stands for RevisionConflict and every *)
(* other exception: the session rolls back and nothing was written.        *)
(***************************************************************************)
EXTENDS RunStateMachine, Sequences, FiniteSets

CONSTANTS
  Workers,          \* concurrent callers of the coordinator
  Runs,             \* run ids create_run may draw
  Tasks,            \* task ids
  LeaseTTL,         \* life of an execution lease, in clock ticks (120 s)
  ResultTTL,        \* life of an admission result, in clock ticks (300 s)
  WaitRequests,     \* the wait origins callers pass to register_wait
  TerminalRequests, \* the dispositions callers pass to commit_terminal
  SerialAdmission,  \* TRUE: callers serialise begin_admission per run
  MaxRevision,      \* bound: no transaction starts at this revision
  MaxTime           \* bound of the clock

ASSUME ConstantsAssumption ==
  /\ LeaseTTL \in Nat \ {0}
  /\ ResultTTL \in Nat \ {0}
  /\ WaitRequests \subseteq WaitOrigins
  /\ TerminalRequests \subseteq Dispositions
  /\ SerialAdmission \in BOOLEAN
  /\ MaxRevision \in Nat
  /\ MaxTime \in Nat

ASSUME NoneIsNotAnId == None \notin Runs /\ None \notin Tasks

VARIABLES
  db,          \* the RunRecord rows
  taskOf,      \* the task of each created run (its TaskState row exists)
  outbox,      \* outbox rows of each run, in commit order
  admissions,  \* ids of the RunAdmissionResult rows: <<run, revision, outcome>>
  tx,          \* each worker's open transaction
  cred,        \* the lease each worker was last given
  admit,       \* the record or admission result each worker has in hand
  leases,      \* lease ids drawn so far
  now          \* the clock

vars == <<db, taskOf, outbox, admissions, tx, cred, admit, leases, now>>
local == <<cred, admit>>

-----------------------------------------------------------------------------
Outcomes == {"admitted", "rejected", "deferred"}

Operations == {"begin_admission", "apply_admission", "acquire_lease",
               "heartbeat", "register_wait", "resume", "schedule_retry",
               "pause", "commit_terminal"}

(* One outbox row; "to" is the phase its payload announces, if any.        *)
Event(name, to, run) == [name |-> name, to |-> to, version |-> run.revision]

EventNames == {"created", "phase_changed", "admitted", "wait_registered",
               "resumed", "retry_scheduled", "paused", "terminal_committed"}

Events == [name : EventNames, to : Phases \union {None}, version : Nat]

Idle == [op |-> "idle"]

(* "snap" is the row as last read, "base" the revision of the first read.  *)
Transactions ==
  [op : Operations, run : Runs, snap : RunRecord, base : Nat \ {0},
   arg : Outcomes \union Dispositions \union WaitOrigins \union Phases \union {None}]

NoCred == [run |-> None, id |-> 0, token |-> 0]
Creds  == [run : Runs, id : Nat \ {0}, token : Nat \ {0}]

NoAdmit == [run |-> None, revision |-> 0, phase |-> None,
            outcome |-> None, expires |-> 0]
Admits  == [run : Runs, revision : Nat \ {0}, phase : Phases,
            outcome : Outcomes \union {None}, expires : Nat]

TypeOK ==
  /\ db \in [Runs -> RunRecord \union {NoRun}]
  /\ taskOf \in [Runs -> Tasks \union {None}]
  /\ outbox \in [Runs -> Seq(Events)]
  /\ admissions \subseteq Runs \X (Nat \ {0}) \X Outcomes
  /\ tx \in [Workers -> Transactions \union {Idle}]
  /\ cred \in [Workers -> Creds \union {NoCred}]
  /\ admit \in [Workers -> Admits \union {NoAdmit}]
  /\ leases \in Nat
  /\ now \in Nat

Init ==
  /\ db         = [r \in Runs |-> NoRun]
  /\ taskOf     = [r \in Runs |-> None]
  /\ outbox     = [r \in Runs |-> <<>>]
  /\ admissions = {}
  /\ tx         = [w \in Workers |-> Idle]
  /\ cred       = [w \in Workers |-> NoCred]
  /\ admit      = [w \in Workers |-> NoAdmit]
  /\ leases     = 0
  /\ now        = 0

-----------------------------------------------------------------------------
(* The new versions of a row that the methods build with replace().        *)

Version(run, phase, disposition, wait, lease) ==
  [phase |-> phase, disposition |-> disposition, wait |-> wait,
   attempt |-> run.attempt, revision |-> run.revision + 1, lease |-> lease]

SamePhase(run, lease) ==
  Version(run, run.phase, run.disposition, run.wait, lease)

(* Mutant: a retry is counted when it is scheduled, too.                   *)
AppliedCountingRetry(run, to) ==
  [Version(run, to, None, None, IF to = "paused" THEN NoLease ELSE run.lease)
     EXCEPT !.attempt = IF to = "retrying" THEN @ + 1 ELSE @]

(* _apply; no caller passes to_phase="waiting", so the wait is dropped.    *)
Applied(run, to) ==
  Version(run, to, None, None, IF to = "paused" THEN NoLease ELSE run.lease)

Parked(run, origin) == Version(run, "waiting", run.disposition, origin, NoLease)

(* _commit_terminal leaves the wait fields as they are.                    *)
Terminated(run, d) == Version(run, "terminal", d, run.wait, NoLease)

LeaseFor(id, token) == [id |-> id, token |-> token, expires |-> now + LeaseTTL]

(* Mutant: renewing for any caller, with the lease and token it found.     *)
LeasedAsRenewal(run, id) ==
  SamePhase(run, IF run.lease = NoLease THEN LeaseFor(id, 1)
                 ELSE LeaseFor(run.lease.id, run.lease.token))

(* Taking a lease in a retry that holds none counts an attempt.            *)
Leased(run, id) ==
  [SamePhase(run, LeaseFor(id, run.lease.token + 1)) EXCEPT
     !.attempt = IF run.lease = NoLease /\ run.phase = "retrying"
                   THEN @ + 1 ELSE @]

Renewed(run) == SamePhase(run, LeaseFor(run.lease.id, run.lease.token))

-----------------------------------------------------------------------------
(* Transactions in general.                                                *)

AnyRevision == 0

(* Mutants: an UPDATE without the revision condition, for heartbeats and   *)
(* for terminal commits.                                                   *)
ExpectedUnlessBeating(t) ==
  IF t.op \in {"begin_admission", "heartbeat"} THEN AnyRevision
  ELSE t.snap.revision

ExpectedUnlessEnding(t) ==
  IF t.op \in {"begin_admission", "commit_terminal"} THEN AnyRevision
  ELSE t.snap.revision

(* expected_revision of the UPDATE: begin_admission passes None, and       *)
(* apply_admission passes the first read's revision to _transition only.   *)
Expected(t) ==
  IF t.op = "begin_admission" THEN AnyRevision
  ELSE IF t.op = "apply_admission" /\ t.arg = "admitted" THEN t.base
  ELSE t.snap.revision

(* Where callers serialise admission, begin_admission overlaps no other    *)
(* transaction on the same run.                                            *)
MayOverlap(op, r) ==
  SerialAdmission =>
    \A v \in Workers :
      (tx[v] # Idle /\ tx[v].run = r) =>
         op # "begin_admission" /\ tx[v].op # "begin_admission"

Read(w, op, r, arg) ==
  /\ tx[w] = Idle
  /\ db[r] # NoRun
  /\ db[r].revision < MaxRevision
  /\ MayOverlap(op, r)
  /\ tx' = [tx EXCEPT ![w] = [op |-> op, run |-> r, arg |-> arg,
                              snap |-> db[r], base |-> db[r].revision]]
  /\ UNCHANGED <<db, taskOf, outbox, admissions, local, leases, now>>

(* UPDATE ... WHERE run_id [AND revision = expected]; INSERT INTO outbox;  *)
(* COMMIT.  WellFormed is RunRecord.__post_init__, which replace() runs.   *)
Write(w, op, updated, events) ==
  LET t == tx[w] IN
  /\ t.op = op
  /\ WellFormed(updated)
  /\ Expected(t) # AnyRevision => db[t.run].revision = Expected(t)
  /\ db' = [db EXCEPT ![t.run] = updated]
  /\ outbox' = [outbox EXCEPT ![t.run] = @ \o events]
  /\ tx' = [tx EXCEPT ![w] = Idle]
  /\ UNCHANGED <<taskOf, now>>

(* RevisionConflict or any other exception: rollback.                      *)
Abort(w) ==
  /\ tx[w] # Idle
  /\ tx' = [tx EXCEPT ![w] = Idle]
  /\ UNCHANGED <<db, taskOf, outbox, admissions, local, leases, now>>

(* The worker's process dies; the database rolls its transaction back.     *)
Crash(w) ==
  /\ <<tx[w], cred[w], admit[w]>> # <<Idle, NoCred, NoAdmit>>
  /\ tx' = [tx EXCEPT ![w] = Idle]
  /\ cred' = [cred EXCEPT ![w] = NoCred]
  /\ admit' = [admit EXCEPT ![w] = NoAdmit]
  /\ UNCHANGED <<db, taskOf, outbox, admissions, leases, now>>

-----------------------------------------------------------------------------
(* create_run: TaskState and RunRecord rows and the first event.  Both     *)
(* inserts are guarded by their primary keys alone, so one step is enough. *)
(* Mutant: attempts are counted from 0.                                    *)
NewRunFromZero == [phase |-> "queued", disposition |-> None, wait |-> None,
                   attempt |-> 0, revision |-> 1, lease |-> NoLease]

NewRun == [phase |-> "queued", disposition |-> None, wait |-> None,
           attempt |-> 1, revision |-> 1, lease |-> NoLease]

TaskExists(t) == \E r \in Runs : taskOf[r] = t

CreateRun(r, t) ==
  /\ db[r] = NoRun
  /\ ~TaskExists(t)
  /\ db' = [db EXCEPT ![r] = NewRun]
  /\ taskOf' = [taskOf EXCEPT ![r] = t]
  /\ outbox' = [outbox EXCEPT ![r] = <<Event("created", "queued", NewRun)>>]
  /\ UNCHANGED <<admissions, tx, local, leases, now>>

-----------------------------------------------------------------------------
(* Admission.  The caller (api/app.py admit_run) begins admission, has the *)
(* AdmissionController evaluate the record that begin_admission returned,  *)
(* and applies the result in a second transaction.  A caller may also have *)
(* the queued record evaluated first, which alone can yield "deferred".    *)

InHand(r, run) == [run |-> r, revision |-> run.revision, phase |-> run.phase,
                   outcome |-> None, expires |-> 0]

LookUp(w, r) ==
  /\ tx[w] = Idle
  /\ admit[w] = NoAdmit
  /\ db[r].phase = "queued"
  /\ admit' = [admit EXCEPT ![w] = InHand(r, db[r])]
  /\ UNCHANGED <<db, taskOf, outbox, admissions, tx, cred, leases, now>>

Evaluate(w, outcome) ==
  /\ tx[w] = Idle
  /\ admit[w] # NoAdmit
  /\ admit[w].outcome = None
  /\ outcome = "deferred" => admit[w].phase = "queued"
  /\ admit' = [admit EXCEPT ![w] = [@ EXCEPT !.outcome = outcome,
                                            !.expires = now + ResultTTL]]
  /\ UNCHANGED <<db, taskOf, outbox, admissions, tx, cred, leases, now>>

BeginAdmission(w, r) ==
  /\ CanTransition(db[r].phase, "admitting")
  /\ Read(w, "begin_admission", r, None)

(* The returned record is evaluated next, unless a result is in hand.      *)
BeginAdmissionCommit(w) ==
  LET t == tx[w]  run == Applied(t.snap, "admitting") IN
  /\ Write(w, "begin_admission", run, <<Event("phase_changed", "admitting", run)>>)
  /\ admit' = IF admit[w].run = t.run /\ admit[w].outcome # None THEN admit
              ELSE [admit EXCEPT ![w] = InHand(t.run, run)]
  /\ UNCHANGED <<admissions, cred, leases>>

AdmissionId(a) == <<a.run, a.revision>>

(* Mutant: results are inserted without looking for their id.              *)
NeverStored(id) == FALSE

IsStored(id) == \E row \in admissions : <<row[1], row[2]>> = id

ApplyAdmission(w, r) ==
  /\ admit[w].run = r
  /\ admit[w].outcome # None
  /\ now < admit[w].expires
  /\ ~IsStored(AdmissionId(admit[w]))
  /\ db[r].phase = "admitting"
  /\ Read(w, "apply_admission", r, admit[w].outcome)

(* _transition, _register_wait and _commit_terminal read the row again: by *)
(* then other transactions may have committed.                             *)
ApplyAdmissionReread(w) ==
  /\ tx[w].op = "apply_admission"
  /\ tx[w].snap # db[tx[w].run]
  /\ tx' = [tx EXCEPT ![w].snap = db[tx[w].run]]
  /\ UNCHANGED <<db, taskOf, outbox, admissions, local, leases, now>>

StoreResult(w) ==
  /\ ~IsStored(AdmissionId(admit[w]))
  /\ admissions' = admissions \union
                     {<<admit[w].run, admit[w].revision, admit[w].outcome>>}
  /\ admit' = [admit EXCEPT ![w] = NoAdmit]

(* The first event carries the revision of the first read; for "deferred"  *)
(* it announces admitting -> terminal, as it does for "rejected".          *)
OutcomeEvent(t) ==
  [name    |-> IF t.arg = "admitted" THEN "admitted" ELSE "phase_changed",
   to      |-> IF t.arg = "admitted" THEN None ELSE "terminal",
   version |-> t.base]

ApplyAdmitted(w) ==
  LET t == tx[w]  run == Applied(t.snap, "running") IN
  /\ t.op = "apply_admission" /\ t.arg = "admitted"
  /\ CanTransition(t.snap.phase, "running")
  /\ Write(w, "apply_admission", run,
           <<OutcomeEvent(t), Event("phase_changed", "running", run)>>)
  /\ StoreResult(w)
  /\ UNCHANGED <<cred, leases>>

(* Mutant: the outcome's event is appended after the transition's.         *)
ApplyDeferredSwapped(w) ==
  LET t == tx[w]  run == Parked(t.snap, "admission_deferred") IN
  /\ t.op = "apply_admission" /\ t.arg = "deferred"
  /\ t.snap.phase \in ExecutingPhases
  /\ Write(w, "apply_admission", run,
           <<Event("wait_registered", "waiting", run), OutcomeEvent(t)>>)
  /\ StoreResult(w)
  /\ UNCHANGED <<cred, leases>>

ApplyDeferred(w) ==
  LET t == tx[w]  run == Parked(t.snap, "admission_deferred") IN
  /\ t.op = "apply_admission" /\ t.arg = "deferred"
  /\ t.snap.phase \in ExecutingPhases
  /\ Write(w, "apply_admission", run,
           <<OutcomeEvent(t), Event("wait_registered", "waiting", run)>>)
  /\ StoreResult(w)
  /\ UNCHANGED <<cred, leases>>

ApplyRejected(w) ==
  LET t == tx[w]  run == Terminated(t.snap, "rejected") IN
  /\ t.op = "apply_admission" /\ t.arg = "rejected"
  /\ t.snap.phase # "terminal"
  /\ Write(w, "apply_admission", run,
           <<OutcomeEvent(t), Event("terminal_committed", "terminal", run)>>)
  /\ StoreResult(w)
  /\ UNCHANGED <<cred, leases>>

(* _commit_terminal returns early on a run already rejected by another     *)
(* transaction: the result row and its event are committed all the same.   *)
ApplyRejectedAgain(w) ==
  LET t == tx[w] IN
  /\ t.op = "apply_admission" /\ t.arg = "rejected"
  /\ t.snap.phase = "terminal" /\ t.snap.disposition = "rejected"
  /\ outbox' = [outbox EXCEPT ![t.run] = Append(@, OutcomeEvent(t))]
  /\ tx' = [tx EXCEPT ![w] = Idle]
  /\ StoreResult(w)
  /\ UNCHANGED <<db, taskOf, cred, leases, now>>

-----------------------------------------------------------------------------
(* Leases.  RecoveryManager.recover on a live run is an AcquireLease.      *)

AcquireLease(w, r) ==
  /\ db[r].phase \in ExecutingPhases
  /\ Read(w, "acquire_lease", r, None)

AcquireLeaseCommit(w) ==
  LET t == tx[w]  run == Leased(t.snap, leases + 1) IN
  /\ Write(w, "acquire_lease", run, <<Event("phase_changed", run.phase, run)>>)
  /\ leases' = leases + 1
  /\ cred' = [cred EXCEPT ![w] = [run |-> t.run, id |-> run.lease.id,
                                  token |-> run.lease.token]]
  /\ UNCHANGED <<admissions, admit>>

(* _ensure_lease and the expiry check.                                     *)
HoldsLease(w, r) ==
  /\ cred[w].run = r
  /\ db[r].lease # NoLease
  /\ db[r].lease.id = cred[w].id
  /\ cred[w].token >= db[r].lease.token
  /\ now < db[r].lease.expires

Heartbeat(w, r) == HoldsLease(w, r) /\ Read(w, "heartbeat", r, None)

HeartbeatCommit(w) ==
  /\ Write(w, "heartbeat", Renewed(tx[w].snap), <<>>)
  /\ UNCHANGED <<admissions, local, leases>>

-----------------------------------------------------------------------------
(* Lifecycle commands.                                                     *)

RegisterWait(w, r, origin) ==
  /\ db[r].phase \in ExecutingPhases
  /\ Read(w, "register_wait", r, origin)

RegisterWaitCommit(w) ==
  LET run == Parked(tx[w].snap, tx[w].arg) IN
  /\ Write(w, "register_wait", run, <<Event("wait_registered", "waiting", run)>>)
  /\ UNCHANGED <<admissions, local, leases>>

Resume(w, r, to) ==
  /\ CanTransition(db[r].phase, to)
  /\ Read(w, "resume", r, to)

(* The payload of ueaf.run.resumed names the phase left, not the one taken. *)
ResumeCommit(w) ==
  LET run == Applied(tx[w].snap, tx[w].arg) IN
  /\ Write(w, "resume", run, <<Event("resumed", None, run)>>)
  /\ UNCHANGED <<admissions, local, leases>>

ScheduleRetry(w, r) ==
  /\ CanTransition(db[r].phase, "retrying")
  /\ Read(w, "schedule_retry", r, None)

ScheduleRetryCommit(w) ==
  LET run == Applied(tx[w].snap, "retrying") IN
  /\ Write(w, "schedule_retry", run, <<Event("retry_scheduled", "retrying", run)>>)
  /\ UNCHANGED <<admissions, local, leases>>

Pause(w, r) ==
  /\ CanTransition(db[r].phase, "paused")
  /\ Read(w, "pause", r, None)

PauseCommit(w) ==
  LET run == Applied(tx[w].snap, "paused") IN
  /\ Write(w, "pause", run, <<Event("paused", "paused", run)>>)
  /\ UNCHANGED <<admissions, local, leases>>

(* commit_terminal, and cancel with d = "cancelled".  A repeated command   *)
(* on a terminal run returns or raises before any write.  The coordinator  *)
(* never fills pending_action_refs, so the checks on it always pass.       *)
CommitTerminal(w, r, d) ==
  /\ db[r].phase # "terminal"
  /\ d = "completed" => db[r].phase \in {"running", "waiting", "retrying"}
  /\ Read(w, "commit_terminal", r, d)

CommitTerminalCommit(w) ==
  LET run == Terminated(tx[w].snap, tx[w].arg) IN
  /\ Write(w, "commit_terminal", run,
           <<Event("terminal_committed", "terminal", run)>>)
  /\ UNCHANGED <<admissions, local, leases>>

Tick ==
  /\ now < MaxTime
  /\ now' = now + 1
  /\ UNCHANGED <<db, taskOf, outbox, admissions, tx, local, leases>>

-----------------------------------------------------------------------------
Requests(w, r) ==
  \/ LookUp(w, r)
  \/ BeginAdmission(w, r)
  \/ ApplyAdmission(w, r)
  \/ AcquireLease(w, r)
  \/ Heartbeat(w, r)
  \/ \E origin \in WaitRequests : RegisterWait(w, r, origin)
  \/ \E to \in {"running", "admitting"} : Resume(w, r, to)
  \/ ScheduleRetry(w, r)
  \/ Pause(w, r)
  \/ \E d \in TerminalRequests : CommitTerminal(w, r, d)

Commits(w) ==
  \/ BeginAdmissionCommit(w)
  \/ ApplyAdmitted(w)
  \/ ApplyDeferred(w)
  \/ ApplyRejected(w)
  \/ ApplyRejectedAgain(w)
  \/ AcquireLeaseCommit(w)
  \/ HeartbeatCommit(w)
  \/ RegisterWaitCommit(w)
  \/ ResumeCommit(w)
  \/ ScheduleRetryCommit(w)
  \/ PauseCommit(w)
  \/ CommitTerminalCommit(w)

Next ==
  \/ \E r \in Runs, t \in Tasks : CreateRun(r, t)
  \/ \E w \in Workers, r \in Runs : Requests(w, r)
  \/ \E w \in Workers : Commits(w)
  \/ \E w \in Workers : ApplyAdmissionReread(w)
  \/ \E w \in Workers, outcome \in Outcomes : Evaluate(w, outcome)
  \/ \E w \in Workers : Abort(w)
  \/ \E w \in Workers : Crash(w)
  \/ Tick

Spec == Init /\ [][Next]_vars

-----------------------------------------------------------------------------
(* Properties.                                                             *)

(* The coordinator implements the abstract lifecycle: whatever the         *)
(* transactions interleave, each Run moves along the closed matrix, a      *)
(* terminal Run never changes, every change raises the revision by one     *)
(* (the CAS of every UPDATE), and leases move only while it executes.      *)
Lifecycle == INSTANCE RunLifecycle WITH
  phase       <- [r \in Runs |-> db[r].phase],
  disposition <- [r \in Runs |-> db[r].disposition],
  revision    <- [r \in Runs |-> db[r].revision]

ImplementsLifecycle == Lifecycle!Spec

(* A terminal Run is never written again, whoever still holds an older     *)
(* snapshot of it.                                                         *)
TerminalIsFinal ==
  [][\A r \in Runs : db[r].phase = "terminal" => db'[r] = db[r]]_vars

(* The phases a reader may infer from an event alone.                      *)
Told(e) ==
  CASE e.to # None          -> {e.to}
    [] e.name = "resumed"   -> {"running", "admitting"}
    [] OTHER                -> Phases

(* Row and outbox commit together: the last event of a run announces the   *)
(* phase the row is in, and no event is ahead of the row's revision.       *)
OutboxTellsPhase ==
  \A r \in Runs : db[r] # NoRun =>
    /\ outbox[r] # <<>>
    /\ db[r].phase \in Told(outbox[r][Len(outbox[r])])
    /\ \A i \in DOMAIN outbox[r] : outbox[r][i].version <= db[r].revision

EventsNamed(r, name) == {i \in DOMAIN outbox[r] : outbox[r][i].name = name}

(* Of competing terminal commands exactly one succeeds: a run commits at   *)
(* most one terminal event, and has one exactly if its row is terminal.    *)
TerminalCommittedOnce ==
  \A r \in Runs :
    Cardinality(EventsNamed(r, "terminal_committed")) =
      IF db[r].phase = "terminal" THEN 1 ELSE 0

(* A lease that was replaced or dropped never comes back: a step leaves    *)
(* the row's lease id alone, clears it, or sets one drawn in that step.    *)
LeaseNeverReturns ==
  [][\A r \in Runs :
       LET old == db[r].lease.id  new == db'[r].lease.id IN
       new # old => new = 0 \/ (new = leases' /\ new > leases)]_vars

(* However acquire_lease calls race, at most one worker holds a credential *)
(* that heartbeat accepts; the worker it was taken from is refused.        *)
OneEffectiveHolder ==
  \A r \in Runs, v, w \in Workers :
    HoldsLease(v, r) /\ HoldsLease(w, r) => v = w

(* attempt counts executed retries: it never runs ahead of the retries     *)
(* that were scheduled, although several workers may take the lease.       *)
AttemptsMatchRetries ==
  \A r \in Runs : db[r] # NoRun =>
    db[r].attempt - 1 <= Cardinality(EventsNamed(r, "retry_scheduled"))

(* An admission result is consumed once: two stored rows never share the   *)
(* id run-admission:<run>:<revision>, whichever callers evaluated it.      *)
ResultsAppliedOnce ==
  \A a, b \in admissions : a[1] = b[1] /\ a[2] = b[2] => a = b

(* Documented, not kept: fencing tokens grow over the leases of a run, so  *)
(* the credential of a replaced lease is below the current token.          *)
FencingTokensGrow ==
  \A r \in Runs, w \in Workers :
    (cred[w].run = r /\ db[r].lease # NoLease /\ cred[w].id < db[r].lease.id)
      => cred[w].token < db[r].lease.token

(* Documented, not kept: a terminal command that passed the checks and was *)
(* not overtaken can commit.                                               *)
TerminalCommandSucceeds ==
  \A w \in Workers :
    (tx[w].op = "commit_terminal" /\ tx[w].snap = db[tx[w].run])
      => ENABLED CommitTerminalCommit(w)

(* Documented, not kept: a run that waits because its admission was        *)
(* deferred executes again only by way of a new admission                  *)
(* (02-状态机与终态规范.md:175): no step takes it from waiting to running. *)
DeferredIsAdmittedAgain ==
  [][\A r \in Runs :
       db[r].phase = "waiting" /\ db[r].wait = "admission_deferred"
         => db'[r].phase # "running"]_vars
=============================================================================
