------------------------ MODULE RunCoordinatorProofs ------------------------
(***************************************************************************)
(* Theorems about RunCoordinator for every value of its constants: its     *)
(* types, its refinement of the abstract lifecycle, and what it leaves     *)
(* behind, which is the outbox a consumer reads in place of the row, the   *)
(* attempts a row counts, the stored admission results and the credentials *)
(* of lease holders.                                                       *)
(***************************************************************************)
EXTENDS RunCoordinator, FiniteSetTheorems, SequenceTheorems, TLAPS

-----------------------------------------------------------------------------
(* TypeOK alone is not inductive: what a commit writes depends on what the *)
(* transaction read and was asked for, and on the result in its hands.     *)
ArgumentsOK(w) ==
  /\ tx[w].op = "apply_admission" =>
       tx[w].arg \in Outcomes /\ admit[w].outcome \in Outcomes
  /\ tx[w].op = "register_wait"   => tx[w].arg \in WaitOrigins
  /\ tx[w].op = "resume"          => tx[w].arg \in Phases
  /\ tx[w].op = "commit_terminal" => tx[w].arg \in Dispositions
  /\ tx[w].op = "heartbeat"       => tx[w].snap.lease # NoLease
  /\ tx[w] # Idle                 => db[tx[w].run] # NoRun

TypeInv == TypeOK /\ \A w \in Workers : ArgumentsOK(w)

LEMMA VersionTyped ==
  ASSUME NEW run \in RunRecord, NEW phase \in Phases,
         NEW disposition \in Dispositions \union {None},
         NEW wait \in WaitOrigins \union {None},
         NEW lease \in RunLease \union {NoLease}
  PROVE  Version(run, phase, disposition, wait, lease) \in RunRecord
<1>1. run.attempt \in Nat \ {0} /\ run.revision + 1 \in Nat \ {0}
  BY DEF RunRecord
<1> QED
  BY <1>1 DEF Version, RunRecord

LEMMA FieldsTyped ==
  ASSUME NEW run \in RunRecord
  PROVE  /\ run.phase \in Phases
         /\ run.disposition \in Dispositions \union {None}
         /\ run.wait \in WaitOrigins \union {None}
         /\ run.attempt \in Nat \ {0}
         /\ run.revision \in Nat \ {0}
         /\ run.lease \in RunLease \union {NoLease}
BY DEF RunRecord

LEMMA RecordUpdates ==
  ASSUME NEW run \in RunRecord, now \in Nat
  PROVE  /\ \A to \in Phases : Applied(run, to) \in RunRecord
         /\ \A origin \in WaitOrigins : Parked(run, origin) \in RunRecord
         /\ \A d \in Dispositions : Terminated(run, d) \in RunRecord
         /\ \A id \in Nat \ {0} : Leased(run, id) \in RunRecord
         /\ run.lease # NoLease => Renewed(run) \in RunRecord
<1>1. \A to \in Phases : Applied(run, to) \in RunRecord
  BY VersionTyped, FieldsTyped DEF Applied
<1>2. \A origin \in WaitOrigins : Parked(run, origin) \in RunRecord
  BY VersionTyped, FieldsTyped DEF Parked, Phases
<1>3. \A d \in Dispositions : Terminated(run, d) \in RunRecord
  BY VersionTyped, FieldsTyped DEF Terminated, Phases
<1>4. \A id, token \in Nat \ {0} : LeaseFor(id, token) \in RunLease
  BY ConstantsAssumption DEF LeaseFor, RunLease
<1>5. \A lease \in RunLease : SamePhase(run, lease) \in RunRecord
  BY VersionTyped, FieldsTyped DEF SamePhase
<1>6. ASSUME NEW id \in Nat \ {0}
      PROVE  Leased(run, id) \in RunRecord
  <2> DEFINE next == SamePhase(run, LeaseFor(id, run.lease.token + 1))
             attempt == IF run.lease = NoLease /\ run.phase = "retrying"
                          THEN next.attempt + 1 ELSE next.attempt
  <2>1. run.lease.token + 1 \in Nat \ {0}
    BY FieldsTyped DEF RunLease, NoLease
  <2>2. next \in RunRecord
    BY <1>4, <1>5, <2>1
  <2>3. attempt \in Nat \ {0}
    BY <2>2, FieldsTyped
  <2>4. Leased(run, id) = [next EXCEPT !.attempt = attempt]
    BY DEF Leased
  <2> HIDE DEF next, attempt
  <2> QED
    BY <2>2, <2>3, <2>4 DEF RunRecord
<1>7. run.lease # NoLease => Renewed(run) \in RunRecord
  BY <1>4, <1>5, FieldsTyped DEF Renewed, RunLease
<1> QED
  BY <1>1, <1>2, <1>3, <1>6, <1>7

LEMMA EventsTyped ==
  ASSUME NEW run \in RunRecord, NEW name \in EventNames,
         NEW to \in Phases \union {None}
  PROVE  Event(name, to, run) \in Events
BY DEF Event, Events, RunRecord

LEMMA OutcomeEventTyped ==
  ASSUME NEW t \in Transactions
  PROVE  OutcomeEvent(t) \in Events
BY DEF OutcomeEvent, Events, EventNames, Transactions, Phases

LEMMA InitTyped == Init => TypeInv
<1> SUFFICES ASSUME Init PROVE TypeInv
  OBVIOUS
<1>1. TypeOK
  BY DEF Init, TypeOK
<1>2. \A w \in Workers : ArgumentsOK(w)
  BY DEF Init, ArgumentsOK, Idle
<1> QED
  BY <1>1, <1>2 DEF TypeInv

(* An open transaction is a transaction.                                   *)
LEMMA OpenTyped ==
  ASSUME TypeInv, NEW w \in Workers, tx[w].op \in Operations
  PROVE  /\ tx[w] \in Transactions
         /\ tx[w].run \in Runs
         /\ tx[w].snap \in RunRecord
         /\ tx[w].base \in Nat \ {0}
<1>1. tx[w] \in Transactions
  BY DEF TypeInv, TypeOK, Idle, Operations
<1> QED
  BY <1>1 DEF Transactions

(* A step that opens no transaction, deletes no row and leaves the results *)
(* in the hands of the open ones alone keeps their arguments in order.     *)
LEMMA ArgumentsKept ==
  ASSUME TypeInv,
         \A r \in Runs : db[r] # NoRun => db'[r] # NoRun,
         \A v \in Workers : tx'[v] = Idle \/ (tx'[v] = tx[v] /\ admit'[v] = admit[v])
  PROVE  \A v \in Workers : ArgumentsOK(v)'
<1> SUFFICES ASSUME NEW v \in Workers PROVE ArgumentsOK(v)'
  OBVIOUS
<1>1. CASE tx'[v] = Idle
  BY <1>1 DEF ArgumentsOK, Idle
<1>2. CASE tx'[v] = tx[v] /\ admit'[v] = admit[v]
  <2>1. tx[v] # Idle => tx[v].run \in Runs
    BY DEF TypeInv, TypeOK, Transactions
  <2> QED
    BY <1>2, <2>1 DEF ArgumentsOK, TypeInv
<1> QED
  BY <1>1, <1>2

LEMMA WriteTyped ==
  ASSUME TypeInv, NEW w \in Workers, NEW op \in Operations,
         NEW updated \in RunRecord, NEW events \in Seq(Events),
         Write(w, op, updated, events)
  PROVE  /\ db' \in [Runs -> RunRecord \union {NoRun}]
         /\ outbox' \in [Runs -> Seq(Events)]
         /\ tx' \in [Workers -> Transactions \union {Idle}]
         /\ taskOf' = taskOf /\ now' = now
         /\ \A v \in Workers : tx'[v] = IF v = w THEN Idle ELSE tx[v]
         /\ \A r \in Runs : db[r] # NoRun => db'[r] # NoRun
<1>0. NoRun \notin RunRecord
  BY DEF NoRun, RunRecord
<1>1. tx[w].run \in Runs
  BY OpenTyped DEF Write
<1>2. outbox[tx[w].run] \o events \in Seq(Events)
  BY <1>1 DEF TypeInv, TypeOK
<1> QED
  BY <1>0, <1>1, <1>2 DEF Write, TypeInv, TypeOK

LEMMA ReadTyped ==
  ASSUME TypeInv, NEW w \in Workers, NEW r \in Runs, NEW op \in Operations,
         NEW arg \in Outcomes \union Dispositions \union WaitOrigins
                       \union Phases \union {None},
         Read(w, op, r, arg),
         op = "apply_admission" => arg \in Outcomes /\ admit[w].outcome \in Outcomes,
         op = "register_wait"   => arg \in WaitOrigins,
         op = "resume"          => arg \in Phases,
         op = "commit_terminal" => arg \in Dispositions,
         op = "heartbeat"       => db[r].lease # NoLease
  PROVE  TypeInv'
<1> DEFINE t == [op |-> op, run |-> r, arg |-> arg,
                 snap |-> db[r], base |-> db[r].revision]
<1>1. db[r] \in RunRecord
  BY DEF Read, TypeInv, TypeOK
<1>2. t \in Transactions
  BY <1>1, FieldsTyped DEF Transactions
<1>3. tx' = [tx EXCEPT ![w] = t]
  BY DEF Read
<1> HIDE DEF t
<1>4. TypeOK'
  BY <1>2, <1>3 DEF Read, local, TypeInv, TypeOK
<1>5. ASSUME NEW v \in Workers PROVE ArgumentsOK(v)'
  <2>1. CASE v # w
    BY <2>1, <1>3 DEF Read, local, TypeInv, TypeOK, ArgumentsOK
  <2>2. CASE v = w
    <3>1. tx'[v] = t /\ admit' = admit /\ db' = db /\ db[r] # NoRun
      BY <2>2, <1>3 DEF Read, local, TypeInv, TypeOK
    <3> QED
      BY <2>2, <3>1 DEF ArgumentsOK, t
  <2> QED
    BY <2>1, <2>2
<1> QED
  BY <1>4, <1>5 DEF TypeInv

LEMMA RequestsTyped ==
  ASSUME TypeInv, NEW w \in Workers, NEW r \in Runs, Requests(w, r)
  PROVE  TypeInv'
<1>1. CASE LookUp(w, r)
  <2>1. InHand(r, db[r]) \in Admits
    <3>1. db[r] # NoRun
      BY <1>1 DEF LookUp, NoRun, None
    <3>2. db[r] \in RunRecord
      BY <3>1 DEF TypeInv, TypeOK
    <3> QED
      BY <3>2, FieldsTyped DEF InHand, Admits
  <2>2. TypeOK'
    BY <1>1, <2>1 DEF LookUp, TypeInv, TypeOK
  <2>3. \A v \in Workers : ArgumentsOK(v)'
    BY <1>1, ArgumentsKept DEF LookUp, TypeInv, TypeOK
  <2> QED
    BY <2>2, <2>3 DEF TypeInv
<1>2. CASE BeginAdmission(w, r)
  BY <1>2, ReadTyped DEF BeginAdmission, Operations
<1>3. CASE ApplyAdmission(w, r)
  <2>1. admit[w].outcome \in Outcomes
    BY <1>3 DEF ApplyAdmission, TypeInv, TypeOK, Admits, NoAdmit
  <2> QED
    BY <1>3, <2>1, ReadTyped DEF ApplyAdmission, Operations
<1>4. CASE AcquireLease(w, r)
  BY <1>4, ReadTyped DEF AcquireLease, Operations
<1>5. CASE Heartbeat(w, r)
  BY <1>5, ReadTyped DEF Heartbeat, HoldsLease, Operations
<1>6. ASSUME NEW origin \in WaitRequests, RegisterWait(w, r, origin)
      PROVE  TypeInv'
  BY <1>6, ReadTyped, ConstantsAssumption DEF RegisterWait, Operations
<1>7. ASSUME NEW to \in {"running", "admitting"}, Resume(w, r, to)
      PROVE  TypeInv'
  <2>1. to \in Phases
    BY DEF Phases
  <2> QED
    BY <1>7, <2>1, ReadTyped DEF Resume, Operations
<1>8. CASE ScheduleRetry(w, r)
  BY <1>8, ReadTyped DEF ScheduleRetry, Operations
<1>9. CASE Pause(w, r)
  BY <1>9, ReadTyped DEF Pause, Operations
<1>10. ASSUME NEW d \in TerminalRequests, CommitTerminal(w, r, d)
       PROVE  TypeInv'
  BY <1>10, ReadTyped, ConstantsAssumption DEF CommitTerminal, Operations
<1> QED
  BY <1>1, <1>2, <1>3, <1>4, <1>5, <1>6, <1>7, <1>8, <1>9, <1>10 DEF Requests

LEMMA StoreResultTyped ==
  ASSUME TypeInv, NEW w \in Workers, StoreResult(w), tx[w].op = "apply_admission"
  PROVE  /\ admissions' \subseteq Runs \X (Nat \ {0}) \X Outcomes
         /\ admit' \in [Workers -> Admits \union {NoAdmit}]
         /\ \A v \in Workers \ {w} : admit'[v] = admit[v]
<1>1. admit[w].outcome \in Outcomes
  BY DEF TypeInv, ArgumentsOK
<1>2. admit[w] \in Admits
  BY <1>1 DEF TypeInv, TypeOK, NoAdmit, Outcomes, None
<1> QED
  BY <1>1, <1>2 DEF StoreResult, TypeInv, TypeOK, Admits

LEMMA CommitTyped ==
  ASSUME TypeInv, NEW w \in Workers, NEW op \in Operations,
         NEW updated \in RunRecord, NEW events \in Seq(Events),
         Write(w, op, updated, events),
         admissions' \subseteq Runs \X (Nat \ {0}) \X Outcomes,
         cred' \in [Workers -> Creds \union {NoCred}],
         admit' \in [Workers -> Admits \union {NoAdmit}],
         \A v \in Workers \ {w} : admit'[v] = admit[v],
         leases' \in Nat
  PROVE  TypeInv'
<1>1. TypeOK'
  BY WriteTyped DEF TypeInv, TypeOK
<1>2. \A v \in Workers : ArgumentsOK(v)'
  BY WriteTyped, ArgumentsKept
<1> QED
  BY <1>1, <1>2 DEF TypeInv

(* The last four conjuncts of most commits.                                *)
LEMMA PlainCommitTyped ==
  ASSUME TypeInv, NEW w \in Workers, NEW op \in Operations,
         NEW updated \in RunRecord, NEW events \in Seq(Events),
         Write(w, op, updated, events),
         UNCHANGED <<admissions, local, leases>>
  PROVE  TypeInv'
BY CommitTyped DEF local, TypeInv, TypeOK

LEMMA CommitsTyped ==
  ASSUME TypeInv, NEW w \in Workers, Commits(w)
  PROVE  TypeInv'
<1> DEFINE t == tx[w]
<1>0. now \in Nat /\ leases \in Nat
  BY DEF TypeInv, TypeOK
<1>1. CASE BeginAdmissionCommit(w)
  <2> DEFINE run == Applied(t.snap, "admitting")
  <2>1. run \in RunRecord
    BY <1>0, <1>1, OpenTyped, RecordUpdates DEF BeginAdmissionCommit, Write, Operations, Phases
  <2>2. <<Event("phase_changed", "admitting", run)>> \in Seq(Events)
    BY <2>1, EventsTyped DEF EventNames, Phases
  <2>3. InHand(t.run, run) \in Admits
    BY <1>1, <2>1, OpenTyped, FieldsTyped DEF InHand, Admits, BeginAdmissionCommit, Write, Operations
  <2>4. /\ admit' \in [Workers -> Admits \union {NoAdmit}]
        /\ \A v \in Workers \ {w} : admit'[v] = admit[v]
    BY <1>1, <2>3 DEF BeginAdmissionCommit, TypeInv, TypeOK
  <2> HIDE DEF run
  <2>5. Write(w, "begin_admission", run, <<Event("phase_changed", "admitting", run)>>)
    BY <1>1 DEF BeginAdmissionCommit, run
  <2> QED
    BY <1>1, <2>1, <2>2, <2>4, <2>5, CommitTyped DEF BeginAdmissionCommit, Operations, TypeInv, TypeOK
<1>2. CASE ApplyAdmitted(w)
  <2> DEFINE run == Applied(t.snap, "running")
             events == <<OutcomeEvent(t), Event("phase_changed", "running", run)>>
  <2>1. run \in RunRecord /\ t \in Transactions
    BY <1>0, <1>2, OpenTyped, RecordUpdates DEF ApplyAdmitted, Operations, Phases
  <2>2. events \in Seq(Events)
    BY <2>1, EventsTyped, OutcomeEventTyped DEF EventNames, Phases
  <2>3. Write(w, "apply_admission", run, events)
    BY <1>2 DEF ApplyAdmitted
  <2> HIDE DEF run, events
  <2> QED
    BY <1>2, <2>1, <2>2, <2>3, CommitTyped, StoreResultTyped DEF ApplyAdmitted, Operations, TypeInv, TypeOK
<1>3. CASE ApplyDeferred(w)
  <2> DEFINE run == Parked(t.snap, "admission_deferred")
             events == <<OutcomeEvent(t), Event("wait_registered", "waiting", run)>>
  <2>1. run \in RunRecord /\ t \in Transactions
    BY <1>0, <1>3, OpenTyped, RecordUpdates DEF ApplyDeferred, Operations, WaitOrigins
  <2>2. events \in Seq(Events)
    BY <2>1, EventsTyped, OutcomeEventTyped DEF EventNames, Phases
  <2>3. Write(w, "apply_admission", run, events)
    BY <1>3 DEF ApplyDeferred
  <2> HIDE DEF run, events
  <2> QED
    BY <1>3, <2>1, <2>2, <2>3, CommitTyped, StoreResultTyped DEF ApplyDeferred, Operations, TypeInv, TypeOK
<1>4. CASE ApplyRejected(w)
  <2> DEFINE run == Terminated(t.snap, "rejected")
             events == <<OutcomeEvent(t), Event("terminal_committed", "terminal", run)>>
  <2>1. run \in RunRecord /\ t \in Transactions
    BY <1>0, <1>4, OpenTyped, RecordUpdates DEF ApplyRejected, Operations, Dispositions
  <2>2. events \in Seq(Events)
    BY <2>1, EventsTyped, OutcomeEventTyped DEF EventNames, Phases
  <2>3. Write(w, "apply_admission", run, events)
    BY <1>4 DEF ApplyRejected
  <2> HIDE DEF run, events
  <2> QED
    BY <1>4, <2>1, <2>2, <2>3, CommitTyped, StoreResultTyped DEF ApplyRejected, Operations, TypeInv, TypeOK
<1>5. CASE ApplyRejectedAgain(w)
  <2>1. t \in Transactions /\ t.run \in Runs
    BY <1>5, OpenTyped DEF ApplyRejectedAgain, Operations
  <2>2. OutcomeEvent(t) \in Events
    BY <2>1, OutcomeEventTyped
  <2>3. Append(outbox[t.run], OutcomeEvent(t)) \in Seq(Events)
    BY <2>1, <2>2 DEF TypeInv, TypeOK
  <2>4. /\ admissions' \subseteq Runs \X (Nat \ {0}) \X Outcomes
        /\ admit' \in [Workers -> Admits \union {NoAdmit}]
        /\ \A v \in Workers \ {w} : admit'[v] = admit[v]
    BY <1>5, StoreResultTyped DEF ApplyRejectedAgain
  <2>5. \A v \in Workers : tx'[v] = IF v = w THEN Idle ELSE tx[v]
    BY <1>5 DEF ApplyRejectedAgain, TypeInv, TypeOK
  <2>6. TypeOK'
    BY <1>5, <2>1, <2>3, <2>4 DEF ApplyRejectedAgain, TypeInv, TypeOK
  <2>7. \A r \in Runs : db[r] # NoRun => db'[r] # NoRun
    BY <1>5 DEF ApplyRejectedAgain
  <2>8. \A v \in Workers : tx'[v] = Idle \/ (tx'[v] = tx[v] /\ admit'[v] = admit[v])
    BY <2>4, <2>5
  <2> QED
    BY <2>6, <2>7, <2>8, ArgumentsKept DEF TypeInv
<1>6. CASE AcquireLeaseCommit(w)
  <2> DEFINE run == Leased(t.snap, leases + 1)
             events == <<Event("phase_changed", run.phase, run)>>
  <2>0. t.run \in Runs /\ t.snap \in RunRecord /\ leases + 1 \in Nat \ {0}
    BY <1>0, <1>6, OpenTyped DEF AcquireLeaseCommit, Write, Operations
  <2>1. run \in RunRecord /\ t.run \in Runs
    BY <1>0, <2>0, RecordUpdates
  <2>2. events \in Seq(Events)
    BY <2>1, EventsTyped, FieldsTyped DEF EventNames
  <2>3. Write(w, "acquire_lease", run, events)
    BY <1>6 DEF AcquireLeaseCommit
  <2>4. run.lease = LeaseFor(leases + 1, t.snap.lease.token + 1)
    BY DEF Leased, SamePhase, Version
  <2>5. [run |-> t.run, id |-> run.lease.id, token |-> run.lease.token] \in Creds
    <3>1. run.lease \in RunLease
      BY <1>0, <2>1, <2>4, FieldsTyped DEF LeaseFor, NoLease
    <3> QED
      BY <2>1, <3>1 DEF Creds, RunLease
  <2>6. cred' \in [Workers -> Creds \union {NoCred}]
    BY <1>6, <2>5 DEF AcquireLeaseCommit, TypeInv, TypeOK
  <2> HIDE DEF run, events
  <2> QED
    <3>1. /\ admissions' = admissions /\ admit' = admit
          /\ leases' \in Nat
      BY <1>0, <1>6 DEF AcquireLeaseCommit
    <3>2. /\ admissions' \subseteq Runs \X (Nat \ {0}) \X Outcomes
          /\ admit' \in [Workers -> Admits \union {NoAdmit}]
      BY <3>1 DEF TypeInv, TypeOK
    <3>3. "acquire_lease" \in Operations
      BY DEF Operations
    <3> QED
      BY <2>1, <2>2, <2>3, <2>6, <3>1, <3>2, <3>3, CommitTyped
<1>7. CASE HeartbeatCommit(w)
  <2>1. t.op = "heartbeat"
    BY <1>7 DEF HeartbeatCommit, Write
  <2>2. Renewed(t.snap) \in RunRecord
    BY <1>0, <2>1, OpenTyped, RecordUpdates DEF Operations, TypeInv, ArgumentsOK
  <2>3. <<>> \in Seq(Events)
    OBVIOUS
  <2> QED
    BY <1>7, <2>2, <2>3, PlainCommitTyped DEF HeartbeatCommit, Operations
<1>8. CASE RegisterWaitCommit(w)
  <2> DEFINE run == Parked(t.snap, t.arg)
             events == <<Event("wait_registered", "waiting", run)>>
  <2>1. t.op = "register_wait"
    BY <1>8 DEF RegisterWaitCommit, Write
  <2>2. run \in RunRecord
    BY <1>0, <2>1, OpenTyped, RecordUpdates DEF Operations, TypeInv, ArgumentsOK
  <2>3. events \in Seq(Events)
    BY <2>2, EventsTyped DEF EventNames, Phases
  <2> QED
    BY <1>8, <2>2, <2>3, PlainCommitTyped DEF RegisterWaitCommit, Operations
<1>9. CASE ResumeCommit(w)
  <2> DEFINE run == Applied(t.snap, t.arg)
             events == <<Event("resumed", None, run)>>
  <2>1. t.op = "resume"
    BY <1>9 DEF ResumeCommit, Write
  <2>2. run \in RunRecord
    BY <1>0, <2>1, OpenTyped, RecordUpdates DEF Operations, TypeInv, ArgumentsOK
  <2>3. events \in Seq(Events)
    BY <2>2, EventsTyped DEF EventNames
  <2> QED
    BY <1>9, <2>2, <2>3, PlainCommitTyped DEF ResumeCommit, Operations
<1>10. CASE ScheduleRetryCommit(w)
  <2> DEFINE run == Applied(t.snap, "retrying")
             events == <<Event("retry_scheduled", "retrying", run)>>
  <2>1. t.op = "schedule_retry"
    BY <1>10 DEF ScheduleRetryCommit, Write
  <2>2. run \in RunRecord
    BY <1>0, <2>1, OpenTyped, RecordUpdates DEF Operations, Phases
  <2>3. events \in Seq(Events)
    BY <2>2, EventsTyped DEF EventNames, Phases
  <2> QED
    BY <1>10, <2>2, <2>3, PlainCommitTyped DEF ScheduleRetryCommit, Operations
<1>11. CASE PauseCommit(w)
  <2> DEFINE run == Applied(t.snap, "paused")
             events == <<Event("paused", "paused", run)>>
  <2>1. t.op = "pause"
    BY <1>11 DEF PauseCommit, Write
  <2>2. run \in RunRecord
    BY <1>0, <2>1, OpenTyped, RecordUpdates DEF Operations, Phases
  <2>3. events \in Seq(Events)
    BY <2>2, EventsTyped DEF EventNames, Phases
  <2> QED
    BY <1>11, <2>2, <2>3, PlainCommitTyped DEF PauseCommit, Operations
<1>12. CASE CommitTerminalCommit(w)
  <2> DEFINE run == Terminated(t.snap, t.arg)
             events == <<Event("terminal_committed", "terminal", run)>>
  <2>1. t.op = "commit_terminal"
    BY <1>12 DEF CommitTerminalCommit, Write
  <2>2. run \in RunRecord
    BY <1>0, <2>1, OpenTyped, RecordUpdates DEF Operations, TypeInv, ArgumentsOK
  <2>3. events \in Seq(Events)
    BY <2>2, EventsTyped DEF EventNames, Phases
  <2> QED
    BY <1>12, <2>2, <2>3, PlainCommitTyped DEF CommitTerminalCommit, Operations
<1> QED
  BY <1>1, <1>2, <1>3, <1>4, <1>5, <1>6, <1>7, <1>8, <1>9, <1>10, <1>11, <1>12 DEF Commits

LEMMA OthersTyped ==
  ASSUME TypeInv,
         \/ \E r \in Runs, t \in Tasks : CreateRun(r, t)
         \/ \E w \in Workers : ApplyAdmissionReread(w) \/ Abort(w) \/ Crash(w)
         \/ \E w \in Workers, outcome \in Outcomes : Evaluate(w, outcome)
         \/ Tick
         \/ UNCHANGED vars
  PROVE  TypeInv'
<1>1. ASSUME NEW r \in Runs, NEW t \in Tasks, CreateRun(r, t)
      PROVE  TypeInv'
  <2>1. NewRun \in RunRecord
    BY DEF NewRun, RunRecord, Phases
  <2>2. <<Event("created", "queued", NewRun)>> \in Seq(Events)
    BY <2>1, EventsTyped DEF EventNames, Phases
  <2>3. TypeOK'
    BY <1>1, <2>1, <2>2 DEF CreateRun, local, TypeInv, TypeOK
  <2>4. \A v \in Workers : ArgumentsOK(v)'
    BY <1>1, ArgumentsKept DEF CreateRun, local
  <2> QED
    BY <2>3, <2>4 DEF TypeInv
<1>2. ASSUME NEW w \in Workers, ApplyAdmissionReread(w)
      PROVE  TypeInv'
  <2>1. tx[w] \in Transactions /\ tx[w].run \in Runs /\ tx[w].snap \in RunRecord
    BY <1>2, OpenTyped DEF ApplyAdmissionReread, Operations
  <2>2. db[tx[w].run] \in RunRecord
    BY <1>2, <2>1 DEF ApplyAdmissionReread, ArgumentsOK, Idle, TypeInv, TypeOK
  <2>3. [tx[w] EXCEPT !.snap = db[tx[w].run]] \in Transactions
    BY <2>1, <2>2 DEF Transactions
  <2>4. TypeOK'
    BY <1>2, <2>3 DEF ApplyAdmissionReread, local, TypeInv, TypeOK
  <2>5. ASSUME NEW v \in Workers PROVE ArgumentsOK(v)'
    <3>1. CASE v = w
      <4>1. /\ tx'[v].op = "apply_admission"
            /\ tx'[v].arg = tx[v].arg
            /\ admit'[v] = admit[v]
            /\ db'[tx'[v].run] # NoRun
        <5>1. db' = db /\ admit' = admit
          BY <1>2 DEF ApplyAdmissionReread, local
        <5>2. tx'[v] = [tx[w] EXCEPT !.snap = db[tx[w].run]]
          BY <1>2, <3>1 DEF ApplyAdmissionReread, TypeInv, TypeOK
        <5>3. /\ tx'[v].op = tx[w].op /\ tx'[v].arg = tx[w].arg
              /\ tx'[v].run = tx[w].run
          BY <2>1, <5>2 DEF Transactions
        <5>4. NoRun \notin RunRecord
          BY DEF NoRun, RunRecord
        <5> QED
          BY <1>2, <2>2, <3>1, <5>1, <5>3, <5>4 DEF ApplyAdmissionReread
      <4> QED
        BY <1>2, <3>1, <4>1 DEF ApplyAdmissionReread, ArgumentsOK, TypeInv
    <3>2. CASE v # w
      BY <1>2, <3>2 DEF ApplyAdmissionReread, local, TypeInv, TypeOK, ArgumentsOK
    <3> QED
      BY <3>1, <3>2
  <2> QED
    BY <2>4, <2>5 DEF TypeInv
<1>3. ASSUME NEW w \in Workers, Abort(w)
      PROVE  TypeInv'
  <2>1. TypeOK'
    BY <1>3 DEF Abort, local, TypeInv, TypeOK
  <2>2. \A v \in Workers : ArgumentsOK(v)'
    BY <1>3, ArgumentsKept DEF Abort, local, TypeInv, TypeOK
  <2> QED
    BY <2>1, <2>2 DEF TypeInv
<1>4. ASSUME NEW w \in Workers, Crash(w)
      PROVE  TypeInv'
  <2>1. TypeOK'
    BY <1>4 DEF Crash, TypeInv, TypeOK
  <2>2. \A v \in Workers : ArgumentsOK(v)'
    BY <1>4, ArgumentsKept DEF Crash, TypeInv, TypeOK
  <2> QED
    BY <2>1, <2>2 DEF TypeInv
<1>5. ASSUME NEW w \in Workers, NEW outcome \in Outcomes, Evaluate(w, outcome)
      PROVE  TypeInv'
  <2>1. admit[w] \in Admits
    BY <1>5 DEF Evaluate, TypeInv, TypeOK
  <2>0. now + ResultTTL \in Nat
    BY ConstantsAssumption DEF TypeInv, TypeOK
  <2>2. [admit[w] EXCEPT !.outcome = outcome, !.expires = now + ResultTTL] \in Admits
    BY <2>0, <2>1 DEF Admits
  <2>3. TypeOK'
    BY <1>5, <2>2 DEF Evaluate, TypeInv, TypeOK
  <2>4. \A v \in Workers : ArgumentsOK(v)'
    BY <1>5, ArgumentsKept DEF Evaluate, TypeInv, TypeOK
  <2> QED
    BY <2>3, <2>4 DEF TypeInv
<1>6. CASE Tick
  <2>1. TypeOK'
    BY <1>6 DEF Tick, local, TypeInv, TypeOK
  <2>2. \A v \in Workers : ArgumentsOK(v)'
    BY <1>6, ArgumentsKept DEF Tick, local
  <2> QED
    BY <2>1, <2>2 DEF TypeInv
<1>7. CASE UNCHANGED vars
  BY <1>7 DEF vars, TypeInv, TypeOK, ArgumentsOK
<1> QED
  BY <1>1, <1>2, <1>3, <1>4, <1>5, <1>6, <1>7

LEMMA NextTyped == TypeInv /\ [Next]_vars => TypeInv'
BY RequestsTyped, CommitsTyped, OthersTyped DEF Next

(* Every row, event, stored result, open transaction and credential keeps  *)
(* its shape: the commits of runtime/coordinator.py build well-typed rows  *)
(* from what their transactions read, however they interleave.             *)
THEOREM TypeCorrect == Spec => []TypeOK
<1>1. TypeInv => TypeOK
  BY DEF TypeInv
<1> QED
  BY InitTyped, NextTyped, <1>1, PTL DEF Spec

-----------------------------------------------------------------------------
(* With admission serialised, the invariant behind every later theorem:    *)
(* a snapshot that still has the row's revision is the row, so a write     *)
(* that passes its revision condition starts from what it checked.         *)

RowsOK ==
  \A r \in Runs : db[r] # NoRun =>
    /\ WellFormed(db[r])
    /\ db[r].phase = "terminal" => db[r].lease = NoLease

SnapshotOK(w) ==
  LET t == tx[w]  row == db[tx[w].run] IN
  t # Idle =>
    /\ row # NoRun
    /\ t.base <= t.snap.revision
    /\ t.snap.revision <= row.revision
    /\ t.snap.revision = row.revision => t.snap = row
    /\ t.op = "begin_admission" => t.snap = row

(* What the reading half of each operation checked, of the row it read.    *)
ChecksOK(w) ==
  LET t == tx[w] IN
  /\ t.op = "begin_admission" => CanTransition(t.snap.phase, "admitting")
  /\ t.op \in {"acquire_lease", "register_wait"} => t.snap.phase \in ExecutingPhases
  /\ t.op = "heartbeat" => t.snap.lease # NoLease
  /\ t.op = "resume" =>
       t.arg \in {"running", "admitting"} /\ CanTransition(t.snap.phase, t.arg)
  /\ t.op = "schedule_retry" => CanTransition(t.snap.phase, "retrying")
  /\ t.op = "pause" => CanTransition(t.snap.phase, "paused")
  /\ t.op = "commit_terminal" =>
       /\ t.snap.phase # "terminal"
       /\ t.arg = "completed" => t.snap.phase \in {"running", "waiting", "retrying"}

AdmissionAlone ==
  \A v, w \in Workers :
    (v # w /\ tx[v] # Idle /\ tx[w] # Idle /\ tx[v].run = tx[w].run)
      => tx[v].op # "begin_admission"

IInv ==
  /\ TypeInv
  /\ RowsOK
  /\ AdmissionAlone
  /\ \A w \in Workers : SnapshotOK(w) /\ ChecksOK(w)


LEMMA InitIInv == Init => IInv
<1> SUFFICES ASSUME Init PROVE IInv
  OBVIOUS
<1>1. \A w \in Workers : tx[w] = Idle
  BY DEF Init
<1>2. RowsOK
  BY DEF Init, RowsOK
<1>3. AdmissionAlone /\ \A w \in Workers : SnapshotOK(w) /\ ChecksOK(w)
  BY <1>1 DEF AdmissionAlone, SnapshotOK, ChecksOK, Idle
<1> QED
  BY InitTyped, <1>2, <1>3 DEF IInv

-----------------------------------------------------------------------------
(* How a commit changes a row.                                             *)

Evolves(old, new) ==
  /\ old.phase # "terminal"
  /\ new.revision = old.revision + 1
  /\ new.phase = "terminal" => new.lease = NoLease
  /\ \/ /\ CanTransition(old.phase, new.phase)
        /\ new.phase # "terminal"
        /\ new.disposition = None
     \/ /\ old.phase \in ExecutingPhases
        /\ new.phase = old.phase
        /\ new.disposition = None
     \/ /\ CanTransition(old.phase, "terminal")
        /\ new.phase = "terminal"
        /\ new.disposition \in Dispositions
        /\ new.disposition = "completed" =>
             old.phase \in {"running", "waiting", "retrying"}

LeaseMoves(old, new) ==
  new.lease.id # old.lease.id =>
    new.lease.id = 0 \/ (new.lease.id = leases' /\ leases' > leases)

(* A write that goes through found its own snapshot in the row.            *)
LEMMA SnapshotIsCurrent ==
  ASSUME IInv, SerialAdmission, NEW w \in Workers, NEW op \in Operations,
         NEW updated, NEW events, Write(w, op, updated, events)
  PROVE  /\ tx[w].op = op
         /\ tx[w].snap = db[tx[w].run]
         /\ tx[w].run \in Runs
         /\ tx[w].snap \in RunRecord
         /\ WellFormed(tx[w].snap)
         /\ tx[w].snap.phase = "terminal" => tx[w].snap.lease = NoLease
<1> DEFINE t == tx[w]
<1>1. /\ t.op = op /\ t # Idle
      /\ t.run \in Runs /\ t.snap \in RunRecord /\ t.base \in Nat \ {0}
  BY OpenTyped DEF Write, IInv, Idle, Operations
<1>2. /\ db[t.run] # NoRun
      /\ t.base <= t.snap.revision
      /\ t.snap.revision <= db[t.run].revision
      /\ t.snap.revision = db[t.run].revision => t.snap = db[t.run]
      /\ t.op = "begin_admission" => t.snap = db[t.run]
  BY <1>1 DEF IInv, SnapshotOK
<1>3. db[t.run] \in RunRecord
  BY <1>1, <1>2 DEF IInv, TypeInv, TypeOK
<1>4. t.snap = db[t.run]
  <2>1. CASE t.op = "begin_admission"
    BY <1>2, <2>1
  <2>2. CASE t.op # "begin_admission"
    <3>1. Expected(t) \in {t.base, t.snap.revision}
      BY <2>2 DEF Expected
    <3>2. t.snap.revision \in Nat \ {0} /\ db[t.run].revision \in Nat
      BY <1>1, <1>3, FieldsTyped
    <3>3. db[t.run].revision = Expected(t)
      BY <1>1, <3>1, <3>2 DEF Write, AnyRevision
    <3> QED
      BY <1>1, <1>2, <3>1, <3>2, <3>3
  <2> QED
    BY <2>1, <2>2
<1> QED
  BY <1>1, <1>2, <1>4 DEF IInv, RowsOK

(* What the three shapes of new versions do to a current row.              *)
LEMMA AppliedEvolves ==
  ASSUME NEW run \in RunRecord, NEW to \in Phases,
         CanTransition(run.phase, to), to # "terminal"
  PROVE  Evolves(run, Applied(run, to)) /\ LeaseMoves(run, Applied(run, to))
<1>1. run.phase # "terminal"
  BY DEF CanTransition, Transitions
<1> QED
  BY <1>1 DEF Evolves, LeaseMoves, Applied, Version, NoLease

LEMMA ParkedEvolves ==
  ASSUME NEW run \in RunRecord, NEW origin, WellFormed(run),
         run.phase \in ExecutingPhases
  PROVE  Evolves(run, Parked(run, origin)) /\ LeaseMoves(run, Parked(run, origin))
<1>1. CanTransition(run.phase, "waiting") /\ run.phase # "terminal"
  BY DEF ExecutingPhases, CanTransition, Transitions, Phases
<1>2. run.disposition = None
  BY <1>1 DEF WellFormed
<1> QED
  BY <1>1, <1>2 DEF Evolves, LeaseMoves, Parked, Version, NoLease

LEMMA TerminatedEvolves ==
  ASSUME NEW run \in RunRecord, NEW d \in Dispositions,
         run.phase # "terminal",
         d = "completed" => run.phase \in {"running", "waiting", "retrying"}
  PROVE  Evolves(run, Terminated(run, d)) /\ LeaseMoves(run, Terminated(run, d))
<1>1. CanTransition(run.phase, "terminal")
  BY FieldsTyped DEF CanTransition, Transitions, Phases
<1> QED
  BY <1>1 DEF Evolves, LeaseMoves, Terminated, Version, NoLease

LEMMA LeaseEvolves ==
  ASSUME NEW run \in RunRecord, NEW new, WellFormed(run),
         run.phase \in ExecutingPhases,
         new.phase = run.phase, new.disposition = run.disposition,
         new.revision = run.revision + 1
  PROVE  Evolves(run, new)
<1>1. run.phase # "terminal"
  BY DEF ExecutingPhases
<1>2. run.disposition = None
  BY <1>1 DEF WellFormed
<1> QED
  BY <1>1, <1>2 DEF Evolves

(* The row of a committing transaction evolves, or nothing is written.     *)
CommitsRow(w) ==
  \E new \in RunRecord :
    /\ db' = [db EXCEPT ![tx[w].run] = new]
    /\ WellFormed(new)
    /\ Evolves(db[tx[w].run], new)
    /\ LeaseMoves(db[tx[w].run], new)

LEMMA WriteCommitsRow ==
  ASSUME IInv, SerialAdmission, NEW w \in Workers, NEW op \in Operations,
         NEW updated \in RunRecord, NEW events, Write(w, op, updated, events),
         Evolves(tx[w].snap, updated), LeaseMoves(tx[w].snap, updated)
  PROVE  CommitsRow(w)
<1>1. tx[w].snap = db[tx[w].run]
  BY SnapshotIsCurrent
<1>2. db' = [db EXCEPT ![tx[w].run] = updated] /\ WellFormed(updated)
  BY DEF Write
<1> QED
  BY <1>1, <1>2 DEF CommitsRow

LEMMA CommitsEvolve ==
  ASSUME IInv, SerialAdmission, NEW w \in Workers, Commits(w)
  PROVE  db' = db \/ (tx[w].run \in Runs /\ CommitsRow(w))
<1> DEFINE t == tx[w]
<1> USE DEF Operations
<1>0. now \in Nat /\ leases \in Nat /\ ArgumentsOK(w) /\ ChecksOK(w)
  BY DEF IInv, TypeInv, TypeOK
<1>1. CASE BeginAdmissionCommit(w)
  <2>1. CanTransition(t.snap.phase, "admitting") /\ t.snap \in RunRecord /\ t.run \in Runs
    BY <1>0, <1>1, SnapshotIsCurrent DEF BeginAdmissionCommit, ChecksOK
  <2>2. Applied(t.snap, "admitting") \in RunRecord
    BY <1>0, <2>1, RecordUpdates DEF Phases
  <2> QED
    BY <1>1, <2>1, <2>2, AppliedEvolves, WriteCommitsRow DEF BeginAdmissionCommit, Phases
<1>2. CASE ApplyAdmitted(w)
  <2>1. t.snap \in RunRecord /\ t.run \in Runs
    BY <1>2, SnapshotIsCurrent DEF ApplyAdmitted
  <2>2. Applied(t.snap, "running") \in RunRecord
    BY <1>0, <2>1, RecordUpdates DEF Phases
  <2> QED
    BY <1>2, <2>1, <2>2, AppliedEvolves, WriteCommitsRow DEF ApplyAdmitted, Phases
<1>3. CASE ApplyDeferred(w)
  <2>1. t.snap \in RunRecord /\ WellFormed(t.snap) /\ t.run \in Runs
    BY <1>3, SnapshotIsCurrent DEF ApplyDeferred
  <2>2. Parked(t.snap, "admission_deferred") \in RunRecord
    BY <1>0, <2>1, RecordUpdates DEF WaitOrigins
  <2> QED
    BY <1>3, <2>1, <2>2, ParkedEvolves, WriteCommitsRow DEF ApplyDeferred
<1>4. CASE ApplyRejected(w)
  <2>1. t.snap \in RunRecord /\ t.run \in Runs
    BY <1>4, SnapshotIsCurrent DEF ApplyRejected
  <2>2. Terminated(t.snap, "rejected") \in RunRecord
    BY <1>0, <2>1, RecordUpdates DEF Dispositions
  <2> QED
    BY <1>4, <2>1, <2>2, TerminatedEvolves, WriteCommitsRow DEF ApplyRejected, Dispositions
<1>5. CASE ApplyRejectedAgain(w)
  BY <1>5 DEF ApplyRejectedAgain
<1>6. CASE AcquireLeaseCommit(w)
  <2> DEFINE new == Leased(t.snap, leases + 1)
  <2>1. /\ t.snap \in RunRecord /\ WellFormed(t.snap) /\ t.run \in Runs
        /\ t.snap.phase \in ExecutingPhases
    BY <1>0, <1>6, SnapshotIsCurrent DEF AcquireLeaseCommit, ChecksOK
  <2>2. new \in RunRecord
    BY <1>0, <2>1, RecordUpdates
  <2>3. /\ new.phase = t.snap.phase /\ new.disposition = t.snap.disposition
        /\ new.revision = t.snap.revision + 1
        /\ new.lease.id = leases + 1
    BY DEF Leased, SamePhase, Version, LeaseFor
  <2>4. LeaseMoves(t.snap, new)
    BY <1>0, <1>6, <2>3 DEF LeaseMoves, AcquireLeaseCommit
  <2>5. Evolves(t.snap, new)
    BY <2>1, <2>3, LeaseEvolves
  <2>6. Write(w, "acquire_lease", new, <<Event("phase_changed", new.phase, new)>>)
    BY <1>6 DEF AcquireLeaseCommit
  <2> HIDE DEF new
  <2> QED
    BY <2>1, <2>2, <2>4, <2>5, <2>6, WriteCommitsRow
<1>7. CASE HeartbeatCommit(w)
  <2> DEFINE new == Renewed(t.snap)
  <2>1. /\ t.snap \in RunRecord /\ WellFormed(t.snap) /\ t.run \in Runs
        /\ t.snap.lease # NoLease
        /\ t.snap.phase = "terminal" => t.snap.lease = NoLease
    BY <1>0, <1>7, SnapshotIsCurrent DEF HeartbeatCommit, ChecksOK
  <2>2. t.snap.phase \in ExecutingPhases
    BY <2>1, FieldsTyped DEF WellFormed, ExecutingPhases, Phases
  <2>3. new \in RunRecord
    BY <1>0, <2>1, RecordUpdates
  <2>4. /\ new.phase = t.snap.phase /\ new.disposition = t.snap.disposition
        /\ new.revision = t.snap.revision + 1
        /\ new.lease.id = t.snap.lease.id
    BY DEF Renewed, SamePhase, Version, LeaseFor
  <2>5. LeaseMoves(t.snap, new)
    BY <2>4 DEF LeaseMoves
  <2>6. Evolves(t.snap, new)
    BY <2>1, <2>2, <2>4, LeaseEvolves
  <2> HIDE DEF new
  <2>7. Write(w, "heartbeat", new, <<>>)
    BY <1>7 DEF HeartbeatCommit, new
  <2> QED
    BY <2>1, <2>3, <2>5, <2>6, <2>7, WriteCommitsRow
<1>8. CASE RegisterWaitCommit(w)
  <2>1. /\ t.snap \in RunRecord /\ WellFormed(t.snap) /\ t.run \in Runs
        /\ t.snap.phase \in ExecutingPhases /\ t.arg \in WaitOrigins
    BY <1>0, <1>8, SnapshotIsCurrent DEF RegisterWaitCommit, ChecksOK, ArgumentsOK
  <2>2. Parked(t.snap, t.arg) \in RunRecord
    BY <1>0, <2>1, RecordUpdates
  <2> QED
    BY <1>8, <2>1, <2>2, ParkedEvolves, WriteCommitsRow DEF RegisterWaitCommit
<1>9. CASE ResumeCommit(w)
  <2>1. /\ t.snap \in RunRecord /\ t.run \in Runs
        /\ t.arg \in {"running", "admitting"} /\ CanTransition(t.snap.phase, t.arg)
    BY <1>0, <1>9, SnapshotIsCurrent DEF ResumeCommit, ChecksOK
  <2>2. t.arg \in Phases /\ t.arg # "terminal"
    BY <2>1 DEF Phases
  <2>3. Applied(t.snap, t.arg) \in RunRecord
    BY <1>0, <2>1, <2>2, RecordUpdates
  <2> QED
    BY <1>9, <2>1, <2>2, <2>3, AppliedEvolves, WriteCommitsRow DEF ResumeCommit
<1>10. CASE ScheduleRetryCommit(w)
  <2>1. /\ t.snap \in RunRecord /\ t.run \in Runs
        /\ CanTransition(t.snap.phase, "retrying")
    BY <1>0, <1>10, SnapshotIsCurrent DEF ScheduleRetryCommit, ChecksOK
  <2>2. Applied(t.snap, "retrying") \in RunRecord
    BY <1>0, <2>1, RecordUpdates DEF Phases
  <2> QED
    BY <1>10, <2>1, <2>2, AppliedEvolves, WriteCommitsRow DEF ScheduleRetryCommit, Phases
<1>11. CASE PauseCommit(w)
  <2>1. /\ t.snap \in RunRecord /\ t.run \in Runs
        /\ CanTransition(t.snap.phase, "paused")
    BY <1>0, <1>11, SnapshotIsCurrent DEF PauseCommit, ChecksOK
  <2>2. Applied(t.snap, "paused") \in RunRecord
    BY <1>0, <2>1, RecordUpdates DEF Phases
  <2> QED
    BY <1>11, <2>1, <2>2, AppliedEvolves, WriteCommitsRow DEF PauseCommit, Phases
<1>12. CASE CommitTerminalCommit(w)
  <2>1. /\ t.snap \in RunRecord /\ t.run \in Runs /\ t.arg \in Dispositions
        /\ t.snap.phase # "terminal"
        /\ t.arg = "completed" => t.snap.phase \in {"running", "waiting", "retrying"}
    BY <1>0, <1>12, SnapshotIsCurrent DEF CommitTerminalCommit, ChecksOK, ArgumentsOK
  <2>2. Terminated(t.snap, t.arg) \in RunRecord
    BY <1>0, <2>1, RecordUpdates
  <2> QED
    BY <1>12, <2>1, <2>2, TerminatedEvolves, WriteCommitsRow DEF CommitTerminalCommit
<1> QED
  BY <1>1, <1>2, <1>3, <1>4, <1>5, <1>6, <1>7, <1>8, <1>9, <1>10, <1>11, <1>12 DEF Commits

-----------------------------------------------------------------------------
(* IInv is inductive.                                                      *)

(* A step that leaves the rows alone and opens no transaction.             *)
LEMMA QuietStepInv ==
  ASSUME IInv, TypeInv', db' = db,
         \A v \in Workers : tx'[v] = Idle \/ tx'[v] = tx[v]
  PROVE  IInv'
<1>1. RowsOK'
  BY DEF IInv, RowsOK
<1>2. AdmissionAlone'
  BY DEF IInv, AdmissionAlone
<1>3. ASSUME NEW v \in Workers
      PROVE  SnapshotOK(v)' /\ ChecksOK(v)'
  <2>1. CASE tx'[v] = Idle
    BY <2>1 DEF SnapshotOK, ChecksOK, Idle
  <2>2. CASE tx'[v] = tx[v]
    BY <2>2 DEF IInv, SnapshotOK, ChecksOK
  <2> QED
    BY <2>1, <2>2
<1> QED
  BY <1>1, <1>2, <1>3 DEF IInv

LEMMA ReadInv ==
  ASSUME IInv, SerialAdmission, TypeInv',
         NEW w \in Workers, NEW r \in Runs, NEW op \in Operations, NEW arg,
         Read(w, op, r, arg),
         op = "begin_admission" => CanTransition(db[r].phase, "admitting"),
         op \in {"acquire_lease", "register_wait"} => db[r].phase \in ExecutingPhases,
         op = "heartbeat" => db[r].lease # NoLease,
         op = "resume" => arg \in {"running", "admitting"} /\ CanTransition(db[r].phase, arg),
         op = "schedule_retry" => CanTransition(db[r].phase, "retrying"),
         op = "pause" => CanTransition(db[r].phase, "paused"),
         op = "commit_terminal" =>
           /\ db[r].phase # "terminal"
           /\ arg = "completed" => db[r].phase \in {"running", "waiting", "retrying"}
  PROVE  IInv'
<1> DEFINE t == [op |-> op, run |-> r, arg |-> arg,
                 snap |-> db[r], base |-> db[r].revision]
<1>1. /\ db' = db /\ db[r] # NoRun
      /\ \A v \in Workers : tx'[v] = IF v = w THEN t ELSE tx[v]
      /\ tx[w] = Idle
      /\ \A v \in Workers :
           (tx[v] # Idle /\ tx[v].run = r) =>
              op # "begin_admission" /\ tx[v].op # "begin_admission"
  BY DEF Read, MayOverlap, IInv, TypeInv, TypeOK
<1>2. /\ t.op = op /\ t.run = r /\ t.arg = arg /\ t.snap = db[r]
      /\ t.base = db[r].revision
  OBVIOUS
<1>3. db[r].revision \in Nat
  BY <1>1, FieldsTyped DEF IInv, TypeInv, TypeOK
<1> HIDE DEF t
<1>4. RowsOK'
  BY <1>1 DEF IInv, RowsOK
<1>5. AdmissionAlone'
  <2> SUFFICES ASSUME NEW u \in Workers, NEW v \in Workers, u # v,
                      tx'[u] # Idle, tx'[v] # Idle, tx'[u].run = tx'[v].run
               PROVE  tx'[u].op # "begin_admission"
    BY DEF AdmissionAlone
  <2> QED
    BY <1>1, <1>2 DEF IInv, AdmissionAlone
<1>6. ASSUME NEW v \in Workers
      PROVE  SnapshotOK(v)' /\ ChecksOK(v)'
  <2>1. CASE v = w
    <3>1. tx'[v] = t
      BY <1>1, <2>1
    <3>2. SnapshotOK(v)'
      BY <1>1, <1>2, <1>3, <3>1 DEF SnapshotOK
    <3>3. ChecksOK(v)'
      BY <1>2, <3>1 DEF ChecksOK
    <3> QED
      BY <3>2, <3>3
  <2>2. CASE v # w
    BY <1>1, <2>2 DEF IInv, SnapshotOK, ChecksOK
  <2> QED
    BY <2>1, <2>2
<1> QED
  BY <1>4, <1>5, <1>6 DEF IInv

LEMMA RequestsInv ==
  ASSUME IInv, SerialAdmission, NEW w \in Workers, NEW r \in Runs, Requests(w, r)
  PROVE  IInv'
<1> USE DEF Operations
<1>0. TypeInv'
  BY RequestsTyped DEF IInv
<1>1. CASE LookUp(w, r)
  BY <1>0, <1>1, QuietStepInv DEF LookUp
<1>2. CASE BeginAdmission(w, r)
  BY <1>0, <1>2, ReadInv DEF BeginAdmission
<1>3. CASE ApplyAdmission(w, r)
  BY <1>0, <1>3, ReadInv DEF ApplyAdmission
<1>4. CASE AcquireLease(w, r)
  BY <1>0, <1>4, ReadInv DEF AcquireLease
<1>5. CASE Heartbeat(w, r)
  BY <1>0, <1>5, ReadInv DEF Heartbeat, HoldsLease
<1>6. ASSUME NEW origin \in WaitRequests, RegisterWait(w, r, origin)
      PROVE  IInv'
  BY <1>0, <1>6, ReadInv DEF RegisterWait
<1>7. ASSUME NEW to \in {"running", "admitting"}, Resume(w, r, to)
      PROVE  IInv'
  BY <1>0, <1>7, ReadInv DEF Resume
<1>8. CASE ScheduleRetry(w, r)
  BY <1>0, <1>8, ReadInv DEF ScheduleRetry
<1>9. CASE Pause(w, r)
  BY <1>0, <1>9, ReadInv DEF Pause
<1>10. ASSUME NEW d \in TerminalRequests, CommitTerminal(w, r, d)
       PROVE  IInv'
  BY <1>0, <1>10, ReadInv DEF CommitTerminal
<1> QED
  BY <1>1, <1>2, <1>3, <1>4, <1>5, <1>6, <1>7, <1>8, <1>9, <1>10 DEF Requests

(* A commit ends its own transaction and outdates the snapshots of others. *)
LEMMA CommitsInv ==
  ASSUME IInv, SerialAdmission, NEW w \in Workers, Commits(w)
  PROVE  IInv'
<1>0. TypeInv'
  BY CommitsTyped DEF IInv
<1>1. tx[w] # Idle /\ \A v \in Workers : tx'[v] = IF v = w THEN Idle ELSE tx[v]
  <2>1. tx' = [tx EXCEPT ![w] = Idle] /\ tx[w].op # "idle"
    BY DEF Commits, BeginAdmissionCommit, ApplyAdmitted, ApplyDeferred,
           ApplyRejected, ApplyRejectedAgain, AcquireLeaseCommit, HeartbeatCommit,
           RegisterWaitCommit, ResumeCommit, ScheduleRetryCommit, PauseCommit,
           CommitTerminalCommit, Write
  <2> QED
    BY <2>1 DEF IInv, TypeInv, TypeOK, Idle
<1>2. CASE db' = db
  BY <1>0, <1>1, <1>2, QuietStepInv
<1>3. CASE tx[w].run \in Runs /\ CommitsRow(w)
  <2> DEFINE r == tx[w].run
  <2>1. PICK new \in RunRecord :
          /\ db' = [db EXCEPT ![r] = new]
          /\ WellFormed(new)
          /\ Evolves(db[r], new)
    BY <1>3 DEF CommitsRow
  <2>2. /\ db'[r] = new
        /\ \A q \in Runs : q # r => db'[q] = db[q]
    BY <1>3, <2>1 DEF IInv, TypeInv, TypeOK
  <2>3. RowsOK'
    <3> SUFFICES ASSUME NEW q \in Runs, db'[q] # NoRun
                 PROVE  /\ WellFormed(db'[q])
                        /\ db'[q].phase = "terminal" => db'[q].lease = NoLease
      BY DEF RowsOK, WellFormed
    <3> QED
      BY <2>1, <2>2 DEF IInv, RowsOK, Evolves
  <2>4. AdmissionAlone'
    BY <1>1 DEF IInv, AdmissionAlone
  <2>5. ASSUME NEW v \in Workers
        PROVE  SnapshotOK(v)' /\ ChecksOK(v)'
    <3>1. CASE tx'[v] = Idle
      BY <3>1 DEF SnapshotOK, ChecksOK, Idle
    <3>2. CASE tx'[v] # Idle
      <4>1. v # w /\ tx'[v] = tx[v] /\ tx[v] # Idle
        BY <1>1, <3>2
      <4>2. ChecksOK(v)'
        BY <4>1 DEF IInv, ChecksOK
      <4>3. tx[v] \in Transactions
        BY <4>1 DEF IInv, TypeInv, TypeOK
      <4>4. CASE tx[v].run # r
        <5>1. db'[tx[v].run] = db[tx[v].run]
          BY <2>2, <4>3, <4>4 DEF Transactions
        <5> QED
          BY <4>1, <4>2, <5>1 DEF IInv, SnapshotOK
      <4>5. CASE tx[v].run = r
        <5>1. tx[v].op # "begin_admission"
          BY <1>1, <4>1, <4>5 DEF IInv, AdmissionAlone
        <5>2. /\ db[r] # NoRun
              /\ tx[v].base <= tx[v].snap.revision
              /\ tx[v].snap.revision <= db[r].revision
          BY <4>1, <4>5 DEF IInv, SnapshotOK
        <5>3. new.revision = db[r].revision + 1
          BY <2>1 DEF Evolves
        <5>4. db[r].revision \in Nat /\ tx[v].snap.revision \in Nat
          BY <1>3, <4>3, <5>2, FieldsTyped DEF IInv, TypeInv, TypeOK, Transactions
        <5>5. new # NoRun
          BY <2>1 DEF NoRun, RunRecord
        <5>6. /\ tx[v].snap.revision <= new.revision
              /\ tx[v].snap.revision # new.revision
          BY <5>2, <5>3, <5>4
        <5>7. SnapshotOK(v)'
          BY <2>2, <4>1, <4>5, <5>1, <5>2, <5>5, <5>6 DEF SnapshotOK
        <5> QED
          BY <4>2, <5>7
      <4> QED
        BY <4>4, <4>5
    <3> QED
      BY <3>1, <3>2
  <2> QED
    BY <1>0, <2>3, <2>4, <2>5 DEF IInv
<1> QED
  BY <1>2, <1>3, CommitsEvolve

LEMMA OthersInv ==
  ASSUME IInv, SerialAdmission,
         \/ \E r \in Runs, t \in Tasks : CreateRun(r, t)
         \/ \E w \in Workers : ApplyAdmissionReread(w) \/ Abort(w) \/ Crash(w)
         \/ \E w \in Workers, outcome \in Outcomes : Evaluate(w, outcome)
         \/ Tick
         \/ UNCHANGED vars
  PROVE  IInv'
<1>0. TypeInv'
  BY OthersTyped DEF IInv
<1>1. ASSUME NEW r \in Runs, NEW t \in Tasks, CreateRun(r, t)
      PROVE  IInv'
  <2>1. /\ db[r] = NoRun /\ tx' = tx
        /\ \A q \in Runs : db'[q] = IF q = r THEN NewRun ELSE db[q]
    BY <1>1 DEF CreateRun, IInv, TypeInv, TypeOK
  <2>2. RowsOK'
    <3>1. WellFormed(NewRun) /\ NewRun.phase # "terminal"
      BY DEF NewRun, WellFormed
    <3> SUFFICES ASSUME NEW q \in Runs, db'[q] # NoRun
                 PROVE  /\ WellFormed(db'[q])
                        /\ db'[q].phase = "terminal" => db'[q].lease = NoLease
      BY DEF RowsOK, WellFormed
    <3> QED
      BY <2>1, <3>1 DEF IInv, RowsOK
  <2>3. AdmissionAlone'
    BY <2>1 DEF IInv, AdmissionAlone
  <2>4. ASSUME NEW v \in Workers
        PROVE  SnapshotOK(v)' /\ ChecksOK(v)'
    <3>1. CASE tx[v] = Idle
      BY <2>1, <3>1 DEF SnapshotOK, ChecksOK, Idle
    <3>2. CASE tx[v] # Idle
      <4>1. tx[v].run \in Runs /\ db[tx[v].run] # NoRun
        BY <3>2 DEF IInv, TypeInv, TypeOK, SnapshotOK, Transactions
      <4>2. db'[tx[v].run] = db[tx[v].run]
        BY <2>1, <4>1
      <4> QED
        BY <2>1, <4>2 DEF IInv, SnapshotOK, ChecksOK
    <3> QED
      BY <3>1, <3>2
  <2> QED
    BY <1>0, <2>2, <2>3, <2>4 DEF IInv
<1>2. ASSUME NEW w \in Workers, ApplyAdmissionReread(w)
      PROVE  IInv'
  <2> DEFINE r == tx[w].run
             t == [tx[w] EXCEPT !.snap = db[r]]
  <2>1. tx[w] \in Transactions /\ r \in Runs /\ tx[w].snap \in RunRecord
    BY <1>2, OpenTyped DEF ApplyAdmissionReread, Operations, IInv
  <2>2. /\ db' = db
        /\ \A v \in Workers : tx'[v] = IF v = w THEN t ELSE tx[v]
        /\ tx[w].op = "apply_admission" /\ tx[w] # Idle
    BY <1>2 DEF ApplyAdmissionReread, Idle, IInv, TypeInv, TypeOK
  <2>3. /\ t.op = tx[w].op /\ t.run = r /\ t.snap = db[r] /\ t.base = tx[w].base
    BY <2>1 DEF Transactions
  <2>4. /\ db[r] # NoRun
        /\ tx[w].base <= tx[w].snap.revision
        /\ tx[w].snap.revision <= db[r].revision
    BY <2>2 DEF IInv, SnapshotOK
  <2>5. /\ db[r].revision \in Nat /\ tx[w].base \in Nat
        /\ tx[w].snap.revision \in Nat
    BY <2>1, <2>4, FieldsTyped DEF IInv, TypeInv, TypeOK, Transactions
  <2>6. tx[w].base <= db[r].revision
    BY <2>4, <2>5
  <2> HIDE DEF t
  <2>7. RowsOK'
    BY <2>2 DEF IInv, RowsOK
  <2>8. AdmissionAlone'
    <3> SUFFICES ASSUME NEW u \in Workers, NEW v \in Workers, u # v,
                        tx'[u] # Idle, tx'[v] # Idle, tx'[u].run = tx'[v].run
                 PROVE  tx'[u].op # "begin_admission"
      BY DEF AdmissionAlone
    <3> QED
      BY <2>2, <2>3 DEF IInv, AdmissionAlone
  <2>9. ASSUME NEW v \in Workers
        PROVE  SnapshotOK(v)' /\ ChecksOK(v)'
    <3>1. CASE v = w
      <4>1. tx'[v] = t
        BY <2>2, <3>1
      <4>2. SnapshotOK(v)'
        BY <2>2, <2>3, <2>4, <2>5, <2>6, <4>1 DEF SnapshotOK
      <4>3. ChecksOK(v)'
        BY <2>2, <2>3, <4>1 DEF ChecksOK
      <4> QED
        BY <4>2, <4>3
    <3>2. CASE v # w
      BY <2>2, <3>2 DEF IInv, SnapshotOK, ChecksOK
    <3> QED
      BY <3>1, <3>2
  <2> QED
    BY <1>0, <2>7, <2>8, <2>9 DEF IInv
<1>3. ASSUME NEW w \in Workers, Abort(w) \/ Crash(w)
      PROVE  IInv'
  BY <1>0, <1>3, QuietStepInv DEF Abort, Crash, IInv, TypeInv, TypeOK
<1>4. ASSUME NEW w \in Workers, NEW outcome \in Outcomes, Evaluate(w, outcome)
      PROVE  IInv'
  BY <1>0, <1>4, QuietStepInv DEF Evaluate
<1>5. CASE Tick \/ UNCHANGED vars
  BY <1>0, <1>5, QuietStepInv DEF Tick, vars
<1> QED
  BY <1>1, <1>2, <1>3, <1>4, <1>5

LEMMA NextInv == SerialAdmission /\ IInv /\ [Next]_vars => IInv'
BY RequestsInv, CommitsInv, OthersInv DEF Next

LEMMA SpecInv == ASSUME SerialAdmission PROVE Spec => []IInv
<1>1. IInv /\ [Next]_vars => IInv'
  BY NextInv
<1> QED
  BY InitIInv, <1>1, PTL DEF Spec

-----------------------------------------------------------------------------
(* What one step does to the rows.                                         *)

RowStep ==
  \/ db' = db
  \/ \E r \in Runs : db[r] = NoRun /\ db' = [db EXCEPT ![r] = NewRun]
  \/ \E w \in Workers : tx[w].run \in Runs /\ CommitsRow(w)

LEMMA NextRowStep ==
  ASSUME IInv, SerialAdmission, [Next]_vars
  PROVE  RowStep
<1>1. ASSUME NEW r \in Runs, NEW t \in Tasks, CreateRun(r, t)
      PROVE  RowStep
  BY <1>1 DEF CreateRun, RowStep
<1>2. ASSUME NEW w \in Workers, NEW r \in Runs, Requests(w, r)
      PROVE  RowStep
  BY <1>2 DEF Requests, LookUp, BeginAdmission, ApplyAdmission, AcquireLease,
              Heartbeat, RegisterWait, Resume, ScheduleRetry, Pause,
              CommitTerminal, Read, RowStep
<1>3. ASSUME NEW w \in Workers, Commits(w)
      PROVE  RowStep
  BY <1>3, CommitsEvolve DEF RowStep
<1>4. ASSUME NEW w \in Workers, NEW outcome \in Outcomes,
             ApplyAdmissionReread(w) \/ Abort(w) \/ Crash(w) \/ Evaluate(w, outcome)
      PROVE  RowStep
  BY <1>4 DEF ApplyAdmissionReread, Abort, Crash, Evaluate, RowStep
<1>5. CASE Tick \/ UNCHANGED vars
  BY <1>5 DEF Tick, vars, RowStep
<1>6. "admitted" \in Outcomes
  BY DEF Outcomes
<1> QED
  BY <1>1, <1>2, <1>3, <1>4, <1>5, <1>6 DEF Next

(* A terminal Run is final: with begin_admission kept off a run that other *)
(* commands work on, no transaction of the coordinator writes a run that   *)
(* is terminal, whatever snapshot it started from.                         *)
THEOREM TerminalIsFinalIfSerial ==
  ASSUME SerialAdmission PROVE Spec => TerminalIsFinal
<1>1. ASSUME IInv, [Next]_vars, NEW r \in Runs, db[r].phase = "terminal"
      PROVE  db'[r] = db[r]
  <2>1. CASE \E q \in Runs : db[q] = NoRun /\ db' = [db EXCEPT ![q] = NewRun]
    BY <1>1, <2>1 DEF NoRun, None, IInv, TypeInv, TypeOK
  <2>2. CASE \E w \in Workers : tx[w].run \in Runs /\ CommitsRow(w)
    BY <1>1, <2>2 DEF CommitsRow, Evolves, IInv, TypeInv, TypeOK
  <2> QED
    BY <1>1, <2>1, <2>2, NextRowStep DEF RowStep
<1>2. IInv /\ [Next]_vars =>
        [\A r \in Runs : db[r].phase = "terminal" => db'[r] = db[r]]_vars
  BY <1>1
<1> QED
  BY SpecInv, <1>2, PTL DEF Spec, TerminalIsFinal

(* A lease that was replaced or dropped never comes back: acquire_lease    *)
(* alone sets a lease id, and then the one it has just drawn.              *)
THEOREM LeaseNeverReturnsIfSerial ==
  ASSUME SerialAdmission PROVE Spec => LeaseNeverReturns
<1> DEFINE Fresh(r) == LET old == db[r].lease.id  new == db'[r].lease.id IN
                       new # old => new = 0 \/ (new = leases' /\ new > leases)
<1>1. ASSUME IInv, [Next]_vars, NEW r \in Runs
      PROVE  Fresh(r)
  <2>1. CASE \E q \in Runs : db[q] = NoRun /\ db' = [db EXCEPT ![q] = NewRun]
    BY <1>1, <2>1 DEF NewRun, NoRun, NoLease, IInv, TypeInv, TypeOK
  <2>2. CASE \E w \in Workers : tx[w].run \in Runs /\ CommitsRow(w)
    BY <1>1, <2>2 DEF CommitsRow, LeaseMoves, IInv, TypeInv, TypeOK
  <2> QED
    BY <1>1, <2>1, <2>2, NextRowStep DEF RowStep
<1>2. IInv /\ [Next]_vars => [\A r \in Runs : Fresh(r)]_vars
  BY <1>1
<1> QED
  BY SpecInv, <1>2, PTL DEF Spec, LeaseNeverReturns

-----------------------------------------------------------------------------
(* Refinement of RunLifecycle.                                             *)

LEMMA SameVocabulary ==
  /\ Lifecycle!Phases = Phases
  /\ Lifecycle!Dispositions = Dispositions
  /\ Lifecycle!ExecutingPhases = ExecutingPhases
  /\ Lifecycle!None = None
  /\ \A from, to : Lifecycle!CanTransition(from, to) <=> CanTransition(from, to)
BY DEF Lifecycle!Phases, Phases, Lifecycle!Dispositions, Dispositions,
       Lifecycle!ExecutingPhases, ExecutingPhases, Lifecycle!None, None,
       Lifecycle!CanTransition, CanTransition, Lifecycle!Transitions, Transitions

(* Writing one row advances the mapped variables at that run alone.        *)
LEMMA AdvanceRow ==
  ASSUME NEW r \in Runs, NEW new, db \in [Runs -> RunRecord \union {NoRun}],
         db' = [db EXCEPT ![r] = new], new.revision = db[r].revision + 1
  PROVE  Lifecycle!Revise(r) /\ Lifecycle!Advance(r, new.phase, new.disposition)
<1>1. \A q \in Runs : db'[q] = IF q = r THEN new ELSE db[q]
  OBVIOUS
<1>2. [q \in Runs |-> db'[q].phase] =
        [[q \in Runs |-> db[q].phase] EXCEPT ![r] = new.phase]
  BY <1>1
<1>3. [q \in Runs |-> db'[q].disposition] =
        [[q \in Runs |-> db[q].disposition] EXCEPT ![r] = new.disposition]
  BY <1>1
<1>4. [q \in Runs |-> db'[q].revision] =
        [[q \in Runs |-> db[q].revision] EXCEPT
            ![r] = [q \in Runs |-> db[q].revision][r] + 1]
  BY <1>1
<1> QED
  BY <1>2, <1>3, <1>4 DEF Lifecycle!Revise, Lifecycle!Advance

LEMMA InitRefines == Init => Lifecycle!Init
<1>1. NoRun.phase = None /\ NoRun.disposition = None /\ NoRun.revision = 0
  BY DEF NoRun
<1> QED
  BY <1>1, SameVocabulary DEF Init, Lifecycle!Init

LEMMA EvolutionRefines ==
  ASSUME NEW r \in Runs, NEW new \in RunRecord,
         db \in [Runs -> RunRecord \union {NoRun}],
         db' = [db EXCEPT ![r] = new], Evolves(db[r], new)
  PROVE  Lifecycle!Next
<1>1. Lifecycle!Revise(r) /\ Lifecycle!Advance(r, new.phase, new.disposition)
  BY AdvanceRow DEF Evolves
<1>2. CASE /\ CanTransition(db[r].phase, new.phase)
           /\ new.phase # "terminal"
           /\ new.disposition = None
  <2>1. new.phase \in Phases
    BY FieldsTyped
  <2>2. Lifecycle!Move(r, new.phase)
    BY <1>1, <1>2, SameVocabulary DEF Lifecycle!Move
  <2> QED
    BY <1>1, <2>1, <2>2, SameVocabulary DEF Lifecycle!Next
<1>3. CASE /\ db[r].phase \in ExecutingPhases
           /\ new.phase = db[r].phase
           /\ new.disposition = None
  <2>1. Lifecycle!Touch(r)
    BY <1>1, <1>3, SameVocabulary DEF Lifecycle!Touch
  <2> QED
    BY <1>1, <2>1 DEF Lifecycle!Next
<1>4. CASE /\ CanTransition(db[r].phase, "terminal")
           /\ new.phase = "terminal"
           /\ new.disposition \in Dispositions
           /\ new.disposition = "completed" =>
                db[r].phase \in {"running", "waiting", "retrying"}
  <2>1. Lifecycle!Finish(r, new.disposition)
    BY <1>1, <1>4, SameVocabulary DEF Lifecycle!Finish
  <2> QED
    BY <1>1, <1>4, <2>1, SameVocabulary DEF Lifecycle!Next
<1> QED
  BY <1>2, <1>3, <1>4 DEF Evolves

LEMMA StepRefines ==
  ASSUME IInv, SerialAdmission, [Next]_vars
  PROVE  [Lifecycle!Next]_(Lifecycle!vars)
<1>0. db \in [Runs -> RunRecord \union {NoRun}]
  BY DEF IInv, TypeInv, TypeOK
<1>1. CASE db' = db
  BY <1>1 DEF Lifecycle!vars
<1>2. ASSUME NEW r \in Runs, db[r] = NoRun, db' = [db EXCEPT ![r] = NewRun]
      PROVE  Lifecycle!Next
  <2>1. /\ NewRun.phase = "queued" /\ NewRun.disposition = None
        /\ NewRun.revision = db[r].revision + 1
        /\ db[r].phase = None
    BY <1>2 DEF NewRun, NoRun
  <2>2. Lifecycle!Revise(r) /\ Lifecycle!Advance(r, "queued", None)
    BY <1>0, <1>2, <2>1, AdvanceRow
  <2>3. Lifecycle!Create(r)
    BY <2>1, <2>2, SameVocabulary DEF Lifecycle!Create
  <2> QED
    BY <2>2, <2>3 DEF Lifecycle!Next
<1>3. ASSUME NEW w \in Workers, tx[w].run \in Runs, CommitsRow(w)
      PROVE  Lifecycle!Next
  <2>1. PICK r \in Runs : r = tx[w].run
    BY <1>3
  <2>2. PICK new \in RunRecord :
          db' = [db EXCEPT ![r] = new] /\ Evolves(db[r], new)
    BY <1>3, <2>1 DEF CommitsRow
  <2> QED
    BY <1>0, <2>2, EvolutionRefines
<1> QED
  BY <1>1, <1>2, <1>3, NextRowStep DEF RowStep

(* The coordinator implements the abstract lifecycle for any workers, runs *)
(* and bounds, as long as begin_admission, the one UPDATE without a        *)
(* revision condition, is not run beside another command on its run.       *)
THEOREM ImplementsLifecycleIfSerial ==
  ASSUME SerialAdmission PROVE Spec => ImplementsLifecycle
<1>1. IInv /\ [Next]_vars => [Lifecycle!Next]_(Lifecycle!vars)
  BY StepRefines
<1> QED
  BY SpecInv, InitRefines, <1>1, PTL DEF Spec, ImplementsLifecycle, Lifecycle!Spec

-----------------------------------------------------------------------------
(* Two facts that need no serial admission: both rest on ids drawn or      *)
(* looked up inside the transaction that uses them.                        *)

(* Lease ids are drawn from one counter, so no two workers ever hold       *)
(* credentials with the same id.                                           *)
CredentialsDiffer ==
  \A v, w \in Workers :
    cred[v] # NoCred =>
      /\ cred[v].id <= leases
      /\ (v # w /\ cred[w] # NoCred) => cred[v].id # cred[w].id

LEMMA LeasedId ==
  ASSUME NEW run, NEW id
  PROVE  Leased(run, id).lease.id = id
BY DEF Leased, SamePhase, Version, LeaseFor

LEMMA CredentialStep ==
  ASSUME TypeInv, CredentialsDiffer, [Next]_vars
  PROVE  CredentialsDiffer'
<1>0. leases \in Nat /\ \A v \in Workers : cred[v] \in Creds \union {NoCred}
  BY DEF TypeInv, TypeOK
<1>1. ASSUME NEW w \in Workers, AcquireLeaseCommit(w)
      PROVE  CredentialsDiffer'
  <2> DEFINE new == [run |-> tx[w].run, id |-> Leased(tx[w].snap, leases + 1).lease.id,
                     token |-> Leased(tx[w].snap, leases + 1).lease.token]
  <2>1. new.id = leases + 1
    BY LeasedId
  <2>2. leases' = leases + 1 /\ cred' = [cred EXCEPT ![w] = new]
    BY <1>1 DEF AcquireLeaseCommit
  <2> HIDE DEF new
  <2>3. \A v \in Workers : cred'[v] = IF v = w THEN new ELSE cred[v]
    BY <2>2 DEF TypeInv, TypeOK
  <2>4. \A v \in Workers : cred[v] # NoCred => cred[v].id \in Nat /\ cred[v].id <= leases
    BY <1>0 DEF Creds, CredentialsDiffer
  <2> SUFFICES ASSUME NEW u \in Workers, NEW v \in Workers, cred'[u] # NoCred
               PROVE  /\ cred'[u].id <= leases'
                      /\ (u # v /\ cred'[v] # NoCred) => cred'[u].id # cred'[v].id
    BY DEF CredentialsDiffer, NoCred
  <2>5. cred'[u].id <= leases'
    BY <1>0, <2>1, <2>2, <2>3, <2>4
  <2>6. ASSUME u # v, cred'[v] # NoCred
        PROVE  cred'[u].id # cred'[v].id
    BY <1>0, <2>1, <2>3, <2>4, <2>6 DEF CredentialsDiffer
  <2> QED
    BY <2>5, <2>6
<1>2. ASSUME NEW w \in Workers, Crash(w)
      PROVE  CredentialsDiffer'
  BY <1>2 DEF Crash, CredentialsDiffer, TypeInv, TypeOK
<1>3. CASE leases' = leases /\ cred' = cred
  BY <1>3 DEF CredentialsDiffer
<1>4. ASSUME NEW w \in Workers, NEW r \in Runs, Requests(w, r)
      PROVE  leases' = leases /\ cred' = cred
  BY <1>4 DEF Requests, LookUp, BeginAdmission, ApplyAdmission, AcquireLease,
              Heartbeat, RegisterWait, Resume, ScheduleRetry, Pause,
              CommitTerminal, Read, local
<1>5. ASSUME NEW w \in Workers, Commits(w), ~AcquireLeaseCommit(w)
      PROVE  leases' = leases /\ cred' = cred
  BY <1>5 DEF Commits, BeginAdmissionCommit, ApplyAdmitted, ApplyDeferred,
              ApplyRejected, ApplyRejectedAgain, HeartbeatCommit,
              RegisterWaitCommit, ResumeCommit, ScheduleRetryCommit, PauseCommit,
              CommitTerminalCommit, local
<1>6. ASSUME \/ \E r \in Runs, t \in Tasks : CreateRun(r, t)
             \/ \E w \in Workers : ApplyAdmissionReread(w) \/ Abort(w)
             \/ \E w \in Workers, outcome \in Outcomes : Evaluate(w, outcome)
             \/ Tick
             \/ UNCHANGED vars
      PROVE  leases' = leases /\ cred' = cred
  BY <1>6 DEF CreateRun, ApplyAdmissionReread, Abort, Evaluate, Tick, vars, local
<1> QED
  BY <1>1, <1>2, <1>3, <1>4, <1>5, <1>6 DEF Next

(* However acquire_lease calls race, and whether or not callers serialise  *)
(* admission, the row names the lease id of at most one worker's           *)
(* credential: heartbeat (_ensure_lease) accepts no one else.              *)
THEOREM OneHolderAtMost == Spec => []OneEffectiveHolder
<1>1. Init => CredentialsDiffer
  BY DEF Init, CredentialsDiffer
<1>2. TypeInv /\ CredentialsDiffer /\ [Next]_vars => CredentialsDiffer'
  BY CredentialStep
<1>3. TypeInv /\ CredentialsDiffer => OneEffectiveHolder
  <2> SUFFICES ASSUME TypeInv, CredentialsDiffer, NEW r \in Runs,
                      NEW v \in Workers, NEW w \in Workers,
                      HoldsLease(v, r), HoldsLease(w, r), v # w
               PROVE  FALSE
    BY DEF OneEffectiveHolder
  <2>1. cred[v] # NoCred /\ cred[w] # NoCred /\ cred[v].id = cred[w].id
    BY NoneIsNotAnId DEF HoldsLease, NoCred
  <2> QED
    BY <2>1 DEF CredentialsDiffer
<1> QED
  BY InitTyped, NextTyped, <1>1, <1>2, <1>3, PTL DEF Spec

(* An admission result is consumed once: apply_admission looks its id up   *)
(* in the transaction that inserts it, so no two rows share one.           *)
THEOREM ResultsStoredOnce == Spec => []ResultsAppliedOnce
<1>1. Init => ResultsAppliedOnce
  BY DEF Init, ResultsAppliedOnce
<1>2. ASSUME ResultsAppliedOnce, [Next]_vars
      PROVE  ResultsAppliedOnce'
  <2>1. ASSUME NEW w \in Workers, StoreResult(w)
        PROVE  ResultsAppliedOnce'
    <3> DEFINE new == <<admit[w].run, admit[w].revision, admit[w].outcome>>
    <3>1. admissions' = admissions \union {new}
      BY <2>1 DEF StoreResult
    <3>2. \A a \in admissions : ~(a[1] = new[1] /\ a[2] = new[2])
      BY <2>1 DEF StoreResult, IsStored, AdmissionId
    <3> HIDE DEF new
    <3> QED
      BY <1>2, <3>1, <3>2 DEF ResultsAppliedOnce
  <2>2. CASE admissions' = admissions
    BY <1>2, <2>2 DEF ResultsAppliedOnce
  <2>3. ASSUME NEW w \in Workers, NEW r \in Runs, Requests(w, r)
        PROVE  admissions' = admissions
    BY <2>3 DEF Requests, LookUp, BeginAdmission, ApplyAdmission, AcquireLease,
                Heartbeat, RegisterWait, Resume, ScheduleRetry, Pause,
                CommitTerminal, Read
  <2>4. ASSUME NEW w \in Workers, Commits(w), ~StoreResult(w)
        PROVE  admissions' = admissions
    BY <2>4 DEF Commits, BeginAdmissionCommit, ApplyAdmitted, ApplyDeferred,
                ApplyRejected, ApplyRejectedAgain, AcquireLeaseCommit, HeartbeatCommit,
                RegisterWaitCommit, ResumeCommit, ScheduleRetryCommit, PauseCommit,
                CommitTerminalCommit
  <2>5. ASSUME \/ \E r \in Runs, t \in Tasks : CreateRun(r, t)
               \/ \E w \in Workers : ApplyAdmissionReread(w) \/ Abort(w) \/ Crash(w)
               \/ \E w \in Workers, outcome \in Outcomes : Evaluate(w, outcome)
               \/ Tick
               \/ UNCHANGED vars
        PROVE  admissions' = admissions
    BY <2>5 DEF CreateRun, ApplyAdmissionReread, Abort, Crash, Evaluate, Tick, vars
  <2> QED
    BY <1>2, <2>1, <2>2, <2>3, <2>4, <2>5 DEF Next
<1> QED
  BY <1>1, <1>2, PTL DEF Spec

-----------------------------------------------------------------------------
(* Counting the events of a name.                                          *)

Named(s, name) == {i \in DOMAIN s : s[i].name = name}

Count(s, name) == Cardinality(Named(s, name))

LEMMA CountTyped ==
  ASSUME NEW s \in Seq(Events), NEW name
  PROVE  IsFiniteSet(Named(s, name)) /\ Count(s, name) \in Nat
<1>1. IsFiniteSet(1..Len(s))
  BY FS_Interval
<1>2. Named(s, name) \in SUBSET (1..Len(s))
  BY DEF Named
<1> QED
  BY <1>1, <1>2, FS_Subset, FS_CardinalityType DEF Count

LEMMA CountEmpty ==
  ASSUME NEW name
  PROVE  Count(<<>>, name) = 0
<1>1. Named(<<>>, name) = {}
  BY DEF Named
<1> QED
  BY <1>1, FS_EmptySet DEF Count

LEMMA CountAppend ==
  ASSUME NEW s \in Seq(Events), NEW e \in Events, NEW name
  PROVE  Count(s \o <<e>>, name) = Count(s, name) + (IF e.name = name THEN 1 ELSE 0)
<1> DEFINE longer == s \o <<e>>
           n == Len(s) + 1
<1>1. /\ Len(s) \in Nat
      /\ DOMAIN s = 1..Len(s)
      /\ DOMAIN longer = 1..n
      /\ \A i \in 1..Len(s) : longer[i] = s[i]
      /\ longer[n] = e
  OBVIOUS
<1>2. n \notin Named(s, name)
  BY <1>1 DEF Named
<1> HIDE DEF longer, n
<1>3. CASE e.name = name
  <2>1. Named(longer, name) = Named(s, name) \union {n}
    BY <1>1, <1>3 DEF Named, n
  <2> QED
    BY <1>2, <1>3, <2>1, CountTyped, FS_AddElement DEF Count, longer
<1>4. CASE e.name # name
  <2>1. Named(longer, name) = Named(s, name)
    BY <1>1, <1>4 DEF Named, n
  <2> QED
    BY <1>4, <2>1, CountTyped DEF Count, longer
<1> QED
  BY <1>3, <1>4

LEMMA CountOne ==
  ASSUME NEW e \in Events, NEW name
  PROVE  Count(<<e>>, name) = IF e.name = name THEN 1 ELSE 0
<1> DEFINE none == <<>>  one == <<e>>
<1>1. none \in Seq(Events) /\ Count(none, name) = 0
  BY EmptySeq, CountEmpty
<1>2. one \in Seq(Events)
  OBVIOUS
<1>3. Count(none \o one, name) = Count(none, name) + (IF e.name = name THEN 1 ELSE 0)
  BY <1>1, CountAppend
<1> HIDE DEF none, one
<1>4. none \o one = one
  BY <1>2, ConcatEmptySeq DEF none
<1>5. Count(one, name) = IF e.name = name THEN 1 ELSE 0
  BY <1>1, <1>3, <1>4
<1> QED
  BY <1>5 DEF one

LEMMA PairIsConcat ==
  ASSUME NEW d \in Events, NEW e \in Events
  PROVE  <<d>> \in Seq(Events) /\ <<e>> \in Seq(Events) /\ <<d>> \o <<e>> = <<d, e>>
<1> DEFINE one == <<d>>  other == <<e>>  both == <<d, e>>
<1>1. one \in Seq(Events) /\ other \in Seq(Events) /\ both \in Seq(Events)
  OBVIOUS
<1>2. /\ Len(one) = 1 /\ Len(other) = 1 /\ Len(both) = 2
      /\ one[1] = d /\ other[1] = e /\ both[1] = d /\ both[2] = e
  OBVIOUS
<1> HIDE DEF one, other, both
<1>3. /\ one \o other \in Seq(Events)
      /\ Len(one \o other) = Len(one) + Len(other)
      /\ \A i \in 1 .. Len(one) + Len(other) :
           (one \o other)[i] = IF i <= Len(one) THEN one[i] ELSE other[i - Len(one)]
  BY <1>1, ConcatProperties
<1>4. \A i \in 1..2 : (one \o other)[i] = both[i]
  <2>1. 1 \in 1..2 /\ 2 \in 1..2 /\ 2 - 1 = 1 /\ ~(2 <= 1)
    OBVIOUS
  <2>2. (one \o other)[1] = both[1] /\ (one \o other)[2] = both[2]
    BY <1>2, <1>3, <2>1
  <2>3. \A i \in 1..2 : i = 1 \/ i = 2
    OBVIOUS
  <2> QED
    BY <2>2, <2>3, Zenon
<1>5. one \o other = both
  BY <1>1, <1>2, <1>3, <1>4, SeqEqual
<1> QED
  BY <1>1, <1>5 DEF one, other, both

LEMMA CountTwo ==
  ASSUME NEW d \in Events, NEW e \in Events, NEW name
  PROVE  Count(<<d, e>>, name) =
           (IF d.name = name THEN 1 ELSE 0) + (IF e.name = name THEN 1 ELSE 0)
<1> DEFINE one == <<d>>
<1>1. one \in Seq(Events) /\ one \o <<e>> = <<d, e>>
  BY PairIsConcat
<1>2. Count(one, name) = IF d.name = name THEN 1 ELSE 0
  BY CountOne
<1> HIDE DEF one
<1>3. Count(one \o <<e>>, name) = Count(one, name) + (IF e.name = name THEN 1 ELSE 0)
  BY <1>1, CountAppend
<1> QED
  BY <1>1, <1>2, <1>3, Zenon

(* What one transaction inserts into the outbox: at most two rows.         *)
Batches == {<<>>} \union {<<e>> : e \in Events} \union {<<d, e>> : d, e \in Events}

LEMMA BatchesTyped ==
  ASSUME NEW batch \in Batches
  PROVE  batch \in Seq(Events)
<1>1. CASE batch = <<>>
  BY <1>1
<1>2. ASSUME NEW e \in Events, batch = <<e>>
      PROVE  batch \in Seq(Events)
  BY <1>2
<1>3. ASSUME NEW d \in Events, NEW e \in Events, batch = <<d, e>>
      PROVE  batch \in Seq(Events)
  BY <1>3
<1> QED
  BY <1>1, <1>2, <1>3 DEF Batches

LEMMA CountConcat ==
  ASSUME NEW s \in Seq(Events), NEW batch \in Batches, NEW name
  PROVE  Count(s \o batch, name) = Count(s, name) + Count(batch, name)
<1>0. Count(s, name) \in Nat
  BY CountTyped
<1>1. CASE batch = <<>>
  <2>1. s \o batch = s
    BY <1>1, ConcatEmptySeq
  <2>2. Count(batch, name) = 0
    BY <1>1, CountEmpty
  <2> QED
    BY <1>0, <2>1, <2>2
<1>2. ASSUME NEW e \in Events, batch = <<e>>
      PROVE  Count(s \o batch, name) = Count(s, name) + Count(batch, name)
  BY <1>2, CountAppend, CountOne
<1>3. ASSUME NEW d \in Events, NEW e \in Events, batch = <<d, e>>
      PROVE  Count(s \o batch, name) = Count(s, name) + Count(batch, name)
  <2> DEFINE one == <<d>>  other == <<e>>
             first == IF d.name = name THEN 1 ELSE 0
             second == IF e.name = name THEN 1 ELSE 0
  <2>1. one \in Seq(Events) /\ other \in Seq(Events) /\ one \o other = batch
    BY <1>3, PairIsConcat
  <2>2. Count(s \o one, name) = Count(s, name) + first
    BY CountAppend
  <2>3. Count(batch, name) = first + second
    BY <1>3, CountTwo
  <2>4. ASSUME NEW u \in Seq(Events)
        PROVE  Count(u \o other, name) = Count(u, name) + second
    BY CountAppend
  <2>5. first \in Nat /\ second \in Nat
    OBVIOUS
  <2> HIDE DEF one, other, first, second
  <2>6. s \o one \in Seq(Events)
    BY <2>1, ConcatProperties
  <2>7. s \o batch = (s \o one) \o other
    <3>1. \A u, v \in Seq(Events) : (s \o u) \o v = s \o (u \o v)
      BY ConcatAssociative
    <3> QED
      BY <2>1, <3>1, Zenon
  <2>8. Count(s \o batch, name) = Count(s \o one, name) + second
    BY <2>4, <2>6, <2>7
  <2> QED
    BY <1>0, <2>2, <2>3, <2>5, <2>8
<1> QED
  BY <1>1, <1>2, <1>3 DEF Batches

-----------------------------------------------------------------------------
(* What one transaction writes beside the row.                             *)

(* A retry that was scheduled and in which no lease was taken yet: the     *)
(* next acquire_lease counts an attempt.                                   *)
Pending(run) == IF run.phase = "retrying" /\ run.lease = NoLease THEN 1 ELSE 0

(* The rows inserted with a new version of the run: they announce the      *)
(* phase the run is then in, end it once, and pay for the attempts.        *)
Reports(old, new, batch) ==
  /\ batch \in Batches
  /\ \A i \in DOMAIN batch : batch[i].version <= new.revision
  /\ IF batch = <<>> THEN new.phase = old.phase
     ELSE new.phase \in Told(batch[Len(batch)])
  /\ Count(batch, "terminal_committed") =
       IF new.phase = "terminal" /\ old.phase # "terminal" THEN 1 ELSE 0
  /\ new.attempt + Pending(new) <=
       old.attempt + Pending(old) + Count(batch, "retry_scheduled")

(* A snapshot of a terminal run is its row: nothing ends twice.            *)
TerminalSeen(w) ==
  tx[w] # Idle /\ tx[w].snap.phase = "terminal" => tx[w].snap = db[tx[w].run]

CommitReports(w) ==
  \E batch \in Batches :
    /\ outbox' = [outbox EXCEPT ![tx[w].run] = @ \o batch]
    /\ Reports(db[tx[w].run], db'[tx[w].run], batch)

(* One or two events about a new version of the run.                       *)
LEMMA OneReports ==
  ASSUME NEW old \in RunRecord, NEW new \in RunRecord, NEW e \in Events,
         e.version <= new.revision,
         new.phase \in Told(e),
         e.name = "terminal_committed" <=> new.phase = "terminal" /\ old.phase # "terminal",
         \/ new.attempt + Pending(new) <= old.attempt + Pending(old)
         \/ /\ new.attempt = old.attempt /\ Pending(old) = 0
            /\ e.name = "retry_scheduled"
  PROVE  <<e>> \in Batches /\ Reports(old, new, <<e>>)
<1> DEFINE batch == <<e>>
<1>1. batch \in Batches
  BY DEF Batches
<1>2. DOMAIN batch = {1} /\ Len(batch) = 1 /\ batch[1] = e /\ batch # <<>>
  OBVIOUS
<1>3. /\ Count(batch, "terminal_committed") = IF e.name = "terminal_committed" THEN 1 ELSE 0
      /\ Count(batch, "retry_scheduled") = IF e.name = "retry_scheduled" THEN 1 ELSE 0
  BY CountOne
<1> HIDE DEF batch
<1>4. /\ old.attempt \in Nat /\ new.attempt \in Nat
      /\ Pending(old) \in {0, 1} /\ Pending(new) \in {0, 1}
  BY FieldsTyped DEF Pending
<1>5. new.attempt + Pending(new) <=
        old.attempt + Pending(old) + Count(batch, "retry_scheduled")
  BY <1>3, <1>4
<1>6. Count(batch, "terminal_committed") =
        IF new.phase = "terminal" /\ old.phase # "terminal" THEN 1 ELSE 0
  BY <1>3
<1> QED
  BY <1>1, <1>2, <1>5, <1>6 DEF Reports, batch

LEMMA TwoReport ==
  ASSUME NEW old \in RunRecord, NEW new \in RunRecord,
         NEW d \in Events, NEW e \in Events,
         d.version <= new.revision, e.version <= new.revision,
         new.phase \in Told(e),
         d.name # "terminal_committed",
         e.name = "terminal_committed" <=> new.phase = "terminal" /\ old.phase # "terminal",
         new.attempt + Pending(new) <= old.attempt + Pending(old)
  PROVE  <<d, e>> \in Batches /\ Reports(old, new, <<d, e>>)
<1> DEFINE batch == <<d, e>>
           first == IF d.name = "retry_scheduled" THEN 1 ELSE 0
           second == IF e.name = "retry_scheduled" THEN 1 ELSE 0
<1>1. batch \in Batches
  BY DEF Batches
<1>2. /\ DOMAIN batch = {1, 2} /\ Len(batch) = 2 /\ batch # <<>>
      /\ batch[1] = d /\ batch[2] = e
  OBVIOUS
<1>3. /\ Count(batch, "terminal_committed") =
           (IF d.name = "terminal_committed" THEN 1 ELSE 0)
             + (IF e.name = "terminal_committed" THEN 1 ELSE 0)
      /\ Count(batch, "retry_scheduled") = first + second
  BY CountTwo
<1>4. first \in Nat /\ second \in Nat
  OBVIOUS
<1>5. /\ old.attempt \in Nat /\ new.attempt \in Nat
      /\ Pending(old) \in Nat /\ Pending(new) \in Nat
  BY FieldsTyped DEF Pending
<1> HIDE DEF batch, first, second
<1>6. new.attempt + Pending(new) <=
        old.attempt + Pending(old) + Count(batch, "retry_scheduled")
  BY <1>3, <1>4, <1>5
<1>7. Count(batch, "terminal_committed") =
        IF new.phase = "terminal" /\ old.phase # "terminal" THEN 1 ELSE 0
  BY <1>3
<1> QED
  BY <1>1, <1>2, <1>6, <1>7 DEF Reports, batch

LEMMA NoneReports ==
  ASSUME NEW old \in RunRecord, NEW new \in RunRecord,
         new.phase = old.phase,
         new.attempt + Pending(new) <= old.attempt + Pending(old)
  PROVE  <<>> \in Batches /\ Reports(old, new, <<>>)
<1>1. <<>> \in Batches /\ DOMAIN <<>> = {}
  BY DEF Batches
<1>2. \A name : Count(<<>>, name) = 0
  BY CountEmpty
<1>3. old.attempt + Pending(old) \in Nat
  BY FieldsTyped DEF Pending
<1> QED
  BY <1>1, <1>2, <1>3 DEF Reports

LEMMA WriteReports ==
  ASSUME IInv, SerialAdmission, NEW w \in Workers, NEW op \in Operations,
         NEW updated \in RunRecord, NEW batch \in Batches,
         Write(w, op, updated, batch),
         Reports(tx[w].snap, updated, batch)
  PROVE  CommitReports(w)
<1>1. tx[w].snap = db[tx[w].run] /\ tx[w].run \in Runs
  BY SnapshotIsCurrent
<1>2. db'[tx[w].run] = updated
  BY <1>1 DEF Write, IInv, TypeInv, TypeOK
<1> QED
  BY <1>1, <1>2 DEF Write, CommitReports

LEMMA TellingEvents ==
  /\ \A name \in {"created", "phase_changed", "wait_registered", "retry_scheduled", "paused",
                  "terminal_committed"} : name \in EventNames \ {"resumed"}
  /\ \A to \in {"queued", "admitting", "running", "waiting", "retrying", "paused",
                "terminal"} : to \in Phases
BY DEF EventNames, Phases

LEMMA EventSays ==
  ASSUME NEW name \in EventNames \ {"resumed"}, NEW to \in Phases,
         NEW run \in RunRecord
  PROVE  /\ Event(name, to, run) \in Events
         /\ Event(name, to, run).name = name
         /\ Event(name, to, run).version = run.revision
         /\ Told(Event(name, to, run)) = {to}
<1> DEFINE e == Event(name, to, run)
<1>1. e.name = name /\ e.version = run.revision /\ e.to = to
  BY DEF Event
<1>2. e.to # None
  BY <1>1 DEF Phases, None
<1>3. e \in Events
  BY EventsTyped
<1> HIDE DEF e
<1>4. Told(e) = {to}
  BY <1>1, <1>2 DEF Told
<1> QED
  BY <1>1, <1>3, <1>4 DEF e

LEMMA OutcomeSays ==
  ASSUME NEW t \in Transactions
  PROVE  /\ OutcomeEvent(t) \in Events
         /\ OutcomeEvent(t).name \in {"admitted", "phase_changed"}
         /\ OutcomeEvent(t).version = t.base
         /\ t.arg # "admitted" => Told(OutcomeEvent(t)) = {"terminal"}
BY OutcomeEventTyped DEF OutcomeEvent, Told, None

(* The base of a transaction is no later than the version it writes.       *)
LEMMA BaseIsPast ==
  ASSUME IInv, NEW w \in Workers, tx[w].op = "apply_admission"
  PROVE  /\ tx[w] \in Transactions
         /\ tx[w].run \in Runs
         /\ tx[w].base \in Nat
         /\ tx[w].base <= tx[w].snap.revision
         /\ tx[w].base <= db[tx[w].run].revision
         /\ tx[w].snap.revision \in Nat
         /\ db[tx[w].run] \in RunRecord
<1>1. /\ tx[w] \in Transactions /\ tx[w].run \in Runs /\ tx[w].base \in Nat
      /\ tx[w].snap.revision \in Nat
  BY OpenTyped, FieldsTyped DEF IInv, Operations
<1>2. /\ tx[w].base <= tx[w].snap.revision
      /\ tx[w].snap.revision <= db[tx[w].run].revision
      /\ db[tx[w].run] # NoRun
  BY DEF IInv, SnapshotOK, Idle
<1>3. db[tx[w].run] \in RunRecord
  BY <1>1, <1>2 DEF IInv, TypeInv, TypeOK
<1> QED
  BY <1>1, <1>2, <1>3, FieldsTyped

LEMMA CommitsReport ==
  ASSUME IInv, SerialAdmission, NEW w \in Workers, Commits(w), TerminalSeen(w)
  PROVE  tx[w].run \in Runs /\ CommitReports(w)
<1> DEFINE t == tx[w]
           old == tx[w].snap
<1> USE DEF Operations
<1>0. now \in Nat /\ leases \in Nat /\ ArgumentsOK(w) /\ ChecksOK(w)
  BY DEF IInv, TypeInv, TypeOK
<1>1. CASE BeginAdmissionCommit(w)
  <2> DEFINE new == Applied(old, "admitting")
             e == Event("phase_changed", "admitting", new)
  <2>1. CanTransition(old.phase, "admitting") /\ old \in RunRecord /\ t.run \in Runs
    BY <1>0, <1>1, SnapshotIsCurrent DEF BeginAdmissionCommit, ChecksOK
  <2>2. new \in RunRecord
    BY <1>0, <2>1, RecordUpdates DEF Phases
  <2>3. /\ e \in Events /\ e.name = "phase_changed" /\ Told(e) = {"admitting"}
        /\ e.version = new.revision
    BY <2>2, EventSays, TellingEvents
  <2>4. /\ new.phase = "admitting" /\ new.attempt = old.attempt
        /\ Pending(new) = 0 /\ Pending(old) \in Nat
    BY DEF Applied, Version, Pending
  <2>5. Write(w, "begin_admission", new, <<e>>)
    BY <1>1 DEF BeginAdmissionCommit
  <2> HIDE DEF new, e
  <2>6. new.attempt + Pending(new) <= old.attempt + Pending(old) /\ e.version <= new.revision
    BY <2>1, <2>2, <2>3, <2>4, FieldsTyped
  <2> QED
    BY <2>1, <2>2, <2>3, <2>4, <2>5, <2>6, OneReports, WriteReports
<1>2. CASE ApplyAdmitted(w)
  <2> DEFINE new == Applied(old, "running")
             d == OutcomeEvent(t)
             e == Event("phase_changed", "running", new)
  <2>1. old \in RunRecord /\ t \in Transactions /\ t.run \in Runs
    BY <1>2, BaseIsPast, SnapshotIsCurrent DEF ApplyAdmitted
  <2>2. new \in RunRecord
    BY <1>0, <2>1, RecordUpdates DEF Phases
  <2>3. /\ e \in Events /\ e.name = "phase_changed" /\ Told(e) = {"running"}
        /\ e.version = new.revision
    BY <2>2, EventSays, TellingEvents
  <2>4. /\ d \in Events /\ d.name # "terminal_committed" /\ d.version = t.base
    BY <2>1, OutcomeSays
  <2>5. /\ new.phase = "running" /\ new.attempt = old.attempt
        /\ Pending(new) = 0 /\ Pending(old) \in Nat
        /\ new.revision = old.revision + 1
    BY DEF Applied, Version, Pending
  <2>6. Write(w, "apply_admission", new, <<d, e>>)
    BY <1>2 DEF ApplyAdmitted
  <2>7. t.base \in Nat /\ old.revision \in Nat /\ t.base <= old.revision
    BY <1>2, BaseIsPast DEF ApplyAdmitted
  <2>8. <<d, e>> \in Batches
    BY <2>3, <2>4 DEF Batches
  <2> HIDE DEF new, d, e
  <2>9. /\ new.attempt + Pending(new) <= old.attempt + Pending(old)
        /\ d.version <= new.revision /\ e.version <= new.revision
    BY <2>1, <2>2, <2>3, <2>4, <2>5, <2>7, FieldsTyped
  <2> QED
    BY <2>1, <2>2, <2>3, <2>4, <2>5, <2>6, <2>8, <2>9, TwoReport, WriteReports
<1>3. CASE ApplyDeferred(w)
  <2> DEFINE new == Parked(old, "admission_deferred")
             d == OutcomeEvent(t)
             e == Event("wait_registered", "waiting", new)
  <2>1. old \in RunRecord /\ t \in Transactions /\ t.run \in Runs
    BY <1>3, BaseIsPast, SnapshotIsCurrent DEF ApplyDeferred
  <2>2. new \in RunRecord
    BY <1>0, <2>1, RecordUpdates DEF WaitOrigins
  <2>3. /\ e \in Events /\ e.name = "wait_registered" /\ Told(e) = {"waiting"}
        /\ e.version = new.revision
    BY <2>2, EventSays, TellingEvents
  <2>4. /\ d \in Events /\ d.name # "terminal_committed" /\ d.version = t.base
    BY <2>1, OutcomeSays
  <2>5. /\ new.phase = "waiting" /\ new.attempt = old.attempt
        /\ Pending(new) = 0 /\ Pending(old) \in Nat
        /\ new.revision = old.revision + 1
    BY DEF Parked, Version, Pending
  <2>6. Write(w, "apply_admission", new, <<d, e>>)
    BY <1>3 DEF ApplyDeferred
  <2>7. t.base \in Nat /\ old.revision \in Nat /\ t.base <= old.revision
    BY <1>3, BaseIsPast DEF ApplyDeferred
  <2>8. <<d, e>> \in Batches
    BY <2>3, <2>4 DEF Batches
  <2> HIDE DEF new, d, e
  <2>9. /\ new.attempt + Pending(new) <= old.attempt + Pending(old)
        /\ d.version <= new.revision /\ e.version <= new.revision
    BY <2>1, <2>2, <2>3, <2>4, <2>5, <2>7, FieldsTyped
  <2> QED
    BY <2>1, <2>2, <2>3, <2>4, <2>5, <2>6, <2>8, <2>9, TwoReport, WriteReports
<1>4. CASE ApplyRejected(w)
  <2> DEFINE new == Terminated(old, "rejected")
             d == OutcomeEvent(t)
             e == Event("terminal_committed", "terminal", new)
  <2>1. /\ old \in RunRecord /\ t \in Transactions /\ t.run \in Runs
        /\ old.phase # "terminal"
    BY <1>4, BaseIsPast, SnapshotIsCurrent DEF ApplyRejected
  <2>2. new \in RunRecord
    BY <1>0, <2>1, RecordUpdates DEF Dispositions
  <2>3. /\ e \in Events /\ e.name = "terminal_committed" /\ Told(e) = {"terminal"}
        /\ e.version = new.revision
    BY <2>2, EventSays, TellingEvents
  <2>4. /\ d \in Events /\ d.name # "terminal_committed" /\ d.version = t.base
    BY <2>1, OutcomeSays
  <2>5. /\ new.phase = "terminal" /\ new.attempt = old.attempt
        /\ Pending(new) = 0 /\ Pending(old) \in Nat
        /\ new.revision = old.revision + 1
    BY DEF Terminated, Version, Pending
  <2>6. Write(w, "apply_admission", new, <<d, e>>)
    BY <1>4 DEF ApplyRejected
  <2>7. t.base \in Nat /\ old.revision \in Nat /\ t.base <= old.revision
    BY <1>4, BaseIsPast DEF ApplyRejected
  <2>8. <<d, e>> \in Batches
    BY <2>3, <2>4 DEF Batches
  <2> HIDE DEF new, d, e
  <2>9. /\ new.attempt + Pending(new) <= old.attempt + Pending(old)
        /\ d.version <= new.revision /\ e.version <= new.revision
    BY <2>1, <2>2, <2>3, <2>4, <2>5, <2>7, FieldsTyped
  <2> QED
    BY <2>1, <2>2, <2>3, <2>4, <2>5, <2>6, <2>8, <2>9, TwoReport, WriteReports
(* The second rejection finds the run terminal and tells of it once more.  *)
<1>5. CASE ApplyRejectedAgain(w)
  <2> DEFINE e == OutcomeEvent(t)
             row == db[t.run]
  <2>1. /\ t.op = "apply_admission" /\ t.arg = "rejected" /\ t # Idle
        /\ row = old /\ row.phase = "terminal"
        /\ outbox' = [outbox EXCEPT ![t.run] = Append(@, e)] /\ db' = db
    BY <1>5 DEF ApplyRejectedAgain, TerminalSeen, Idle
  <2>2. /\ t \in Transactions /\ t.run \in Runs /\ row \in RunRecord
        /\ t.base <= row.revision
    BY <2>1, BaseIsPast
  <2>3. /\ e \in Events /\ e.name # "terminal_committed"
        /\ e.version = t.base /\ Told(e) = {"terminal"}
    BY <2>1, <2>2, OutcomeSays
  <2> HIDE DEF e
  <2>4. outbox' = [outbox EXCEPT ![t.run] = @ \o <<e>>]
    <3>1. outbox[t.run] \in Seq(Events)
      BY <2>2 DEF IInv, TypeInv, TypeOK
    <3>2. Append(outbox[t.run], e) = outbox[t.run] \o <<e>>
      BY <2>3, <3>1, AppendIsConcat
    <3> QED
      BY <2>1, <3>2
  <2>5. row.attempt + Pending(row) <= row.attempt + Pending(row)
    BY <2>2, FieldsTyped DEF Pending
  <2>6. <<e>> \in Batches /\ Reports(row, row, <<e>>)
    BY <2>1, <2>2, <2>3, <2>5, OneReports
  <2> QED
    BY <2>1, <2>2, <2>4, <2>6 DEF CommitReports
<1>6. CASE AcquireLeaseCommit(w)
  <2> DEFINE new == Leased(old, leases + 1)
             e == Event("phase_changed", new.phase, new)
  <2>1. old \in RunRecord /\ t.run \in Runs /\ old.phase \in ExecutingPhases
    BY <1>0, <1>6, SnapshotIsCurrent DEF AcquireLeaseCommit, ChecksOK
  <2>2. new \in RunRecord
    BY <1>0, <2>1, RecordUpdates
  <2>3. /\ e \in Events /\ e.name = "phase_changed" /\ Told(e) = {new.phase}
        /\ e.version = new.revision
    BY <2>2, EventSays, FieldsTyped DEF EventNames
  <2>4. /\ new.phase = old.phase /\ new.lease # NoLease
        /\ new.attempt = old.attempt + Pending(old)
    BY <1>0, <2>1, FieldsTyped DEF Leased, SamePhase, Version, LeaseFor, Pending, NoLease
  <2>5. Pending(new) = 0 /\ Pending(old) \in Nat
    BY <2>4 DEF Pending
  <2>6. Write(w, "acquire_lease", new, <<e>>)
    BY <1>6 DEF AcquireLeaseCommit
  <2>7. old.phase # "terminal"
    BY <2>1 DEF ExecutingPhases
  <2> HIDE DEF new, e
  <2>8. new.attempt + Pending(new) <= old.attempt + Pending(old) /\ e.version <= new.revision
    BY <2>1, <2>2, <2>3, <2>4, <2>5, FieldsTyped
  <2> QED
    BY <2>1, <2>2, <2>3, <2>4, <2>6, <2>7, <2>8, OneReports, WriteReports
<1>7. CASE HeartbeatCommit(w)
  <2> DEFINE new == Renewed(old)
  <2>1. old \in RunRecord /\ t.run \in Runs /\ old.lease # NoLease
    BY <1>0, <1>7, SnapshotIsCurrent DEF HeartbeatCommit, ChecksOK
  <2>2. new \in RunRecord
    BY <1>0, <2>1, RecordUpdates
  <2>3. old.lease.id # 0
    BY <2>1, FieldsTyped DEF RunLease
  <2>4. new.phase = old.phase /\ new.attempt = old.attempt /\ new.lease # NoLease
    BY <2>3 DEF Renewed, SamePhase, Version, LeaseFor, NoLease
  <2>5. Pending(new) = 0 /\ Pending(old) \in Nat
    BY <2>4 DEF Pending
  <2>6. Write(w, "heartbeat", new, <<>>)
    BY <1>7 DEF HeartbeatCommit
  <2> HIDE DEF new
  <2>7. new.attempt + Pending(new) <= old.attempt + Pending(old)
    BY <2>1, <2>2, <2>4, <2>5, FieldsTyped
  <2> QED
    BY <2>1, <2>2, <2>4, <2>6, <2>7, NoneReports, WriteReports
<1>8. CASE RegisterWaitCommit(w)
  <2> DEFINE new == Parked(old, t.arg)
             e == Event("wait_registered", "waiting", new)
  <2>1. old \in RunRecord /\ t.run \in Runs /\ t.arg \in WaitOrigins
    BY <1>0, <1>8, SnapshotIsCurrent DEF RegisterWaitCommit, ArgumentsOK
  <2>2. new \in RunRecord
    BY <1>0, <2>1, RecordUpdates
  <2>3. /\ e \in Events /\ e.name = "wait_registered" /\ Told(e) = {"waiting"}
        /\ e.version = new.revision
    BY <2>2, EventSays, TellingEvents
  <2>4. /\ new.phase = "waiting" /\ new.attempt = old.attempt
        /\ Pending(new) = 0 /\ Pending(old) \in Nat
    BY DEF Parked, Version, Pending
  <2>5. Write(w, "register_wait", new, <<e>>)
    BY <1>8 DEF RegisterWaitCommit
  <2> HIDE DEF new, e
  <2>6. new.attempt + Pending(new) <= old.attempt + Pending(old) /\ e.version <= new.revision
    BY <2>1, <2>2, <2>3, <2>4, FieldsTyped
  <2> QED
    BY <2>1, <2>2, <2>3, <2>4, <2>5, <2>6, OneReports, WriteReports
<1>9. CASE ResumeCommit(w)
  <2> DEFINE new == Applied(old, t.arg)
             e == Event("resumed", None, new)
  <2>1. old \in RunRecord /\ t.run \in Runs /\ t.arg \in {"running", "admitting"}
    BY <1>0, <1>9, SnapshotIsCurrent DEF ResumeCommit, ChecksOK
  <2>2. new \in RunRecord
    BY <1>0, <2>1, RecordUpdates DEF Phases
  <2>3. /\ e \in Events /\ e.name = "resumed" /\ Told(e) = {"running", "admitting"}
        /\ e.version = new.revision
    BY <2>2, EventsTyped DEF EventNames, Event, Told
  <2>4. /\ new.phase = t.arg /\ new.attempt = old.attempt
        /\ Pending(new) = 0 /\ Pending(old) \in Nat
    BY <2>1 DEF Applied, Version, Pending
  <2>5. Write(w, "resume", new, <<e>>)
    BY <1>9 DEF ResumeCommit
  <2> HIDE DEF new, e
  <2>6. new.attempt + Pending(new) <= old.attempt + Pending(old) /\ e.version <= new.revision
    BY <2>1, <2>2, <2>3, <2>4, FieldsTyped
  <2> QED
    BY <2>1, <2>2, <2>3, <2>4, <2>5, <2>6, OneReports, WriteReports
(* The one commit that may leave an attempt still to be counted.           *)
<1>10. CASE ScheduleRetryCommit(w)
  <2> DEFINE new == Applied(old, "retrying")
             e == Event("retry_scheduled", "retrying", new)
  <2>1. old \in RunRecord /\ t.run \in Runs /\ CanTransition(old.phase, "retrying")
    BY <1>0, <1>10, SnapshotIsCurrent DEF ScheduleRetryCommit, ChecksOK
  <2>2. new \in RunRecord
    BY <1>0, <2>1, RecordUpdates DEF Phases
  <2>3. /\ e \in Events /\ e.name = "retry_scheduled" /\ Told(e) = {"retrying"}
        /\ e.version = new.revision
    BY <2>2, EventSays, TellingEvents
  <2>4. /\ new.phase = "retrying" /\ new.attempt = old.attempt
    BY DEF Applied, Version
  <2>5. Pending(old) = 0
    BY <2>1 DEF Pending, CanTransition, Transitions
  <2>6. Write(w, "schedule_retry", new, <<e>>)
    BY <1>10 DEF ScheduleRetryCommit
  <2> HIDE DEF new, e
  <2>7. e.version <= new.revision
    BY <2>2, <2>3, FieldsTyped
  <2> QED
    BY <2>1, <2>2, <2>3, <2>4, <2>5, <2>6, <2>7, OneReports, WriteReports
<1>11. CASE PauseCommit(w)
  <2> DEFINE new == Applied(old, "paused")
             e == Event("paused", "paused", new)
  <2>1. old \in RunRecord /\ t.run \in Runs
    BY <1>0, <1>11, SnapshotIsCurrent DEF PauseCommit
  <2>2. new \in RunRecord
    BY <1>0, <2>1, RecordUpdates DEF Phases
  <2>3. /\ e \in Events /\ e.name = "paused" /\ Told(e) = {"paused"}
        /\ e.version = new.revision
    BY <2>2, EventSays, TellingEvents
  <2>4. /\ new.phase = "paused" /\ new.attempt = old.attempt
        /\ Pending(new) = 0 /\ Pending(old) \in Nat
    BY DEF Applied, Version, Pending
  <2>5. Write(w, "pause", new, <<e>>)
    BY <1>11 DEF PauseCommit
  <2> HIDE DEF new, e
  <2>6. new.attempt + Pending(new) <= old.attempt + Pending(old) /\ e.version <= new.revision
    BY <2>1, <2>2, <2>3, <2>4, FieldsTyped
  <2> QED
    BY <2>1, <2>2, <2>3, <2>4, <2>5, <2>6, OneReports, WriteReports
<1>12. CASE CommitTerminalCommit(w)
  <2> DEFINE new == Terminated(old, t.arg)
             e == Event("terminal_committed", "terminal", new)
  <2>1. /\ old \in RunRecord /\ t.run \in Runs /\ t.arg \in Dispositions
        /\ old.phase # "terminal"
    BY <1>0, <1>12, SnapshotIsCurrent DEF CommitTerminalCommit, ChecksOK, ArgumentsOK
  <2>2. new \in RunRecord
    BY <1>0, <2>1, RecordUpdates
  <2>3. /\ e \in Events /\ e.name = "terminal_committed" /\ Told(e) = {"terminal"}
        /\ e.version = new.revision
    BY <2>2, EventSays, TellingEvents
  <2>4. /\ new.phase = "terminal" /\ new.attempt = old.attempt
        /\ Pending(new) = 0 /\ Pending(old) \in Nat
    BY DEF Terminated, Version, Pending
  <2>5. Write(w, "commit_terminal", new, <<e>>)
    BY <1>12 DEF CommitTerminalCommit
  <2> HIDE DEF new, e
  <2>6. new.attempt + Pending(new) <= old.attempt + Pending(old) /\ e.version <= new.revision
    BY <2>1, <2>2, <2>3, <2>4, FieldsTyped
  <2> QED
    BY <2>1, <2>2, <2>3, <2>4, <2>5, <2>6, OneReports, WriteReports
<1> QED
  BY <1>1, <1>2, <1>3, <1>4, <1>5, <1>6, <1>7, <1>8, <1>9, <1>10, <1>11, <1>12 DEF Commits

-----------------------------------------------------------------------------
(* The invariant: IInv makes every commit start from the row it checked,   *)
(* and these parts then follow row and outbox side by side.                *)

TellsPhase(r) ==
  db[r] # NoRun =>
    /\ outbox[r] # <<>>
    /\ db[r].phase \in Told(outbox[r][Len(outbox[r])])
    /\ \A i \in DOMAIN outbox[r] : outbox[r][i].version <= db[r].revision

EndedOnce(r) ==
  Count(outbox[r], "terminal_committed") = IF db[r].phase = "terminal" THEN 1 ELSE 0

AttemptsCounted(r) ==
  db[r] # NoRun =>
    db[r].attempt - 1 + Pending(db[r]) <= Count(outbox[r], "retry_scheduled")

RowHistory(r) == TellsPhase(r) /\ EndedOnce(r) /\ AttemptsCounted(r)

HistoryInv ==
  /\ \A w \in Workers : TerminalSeen(w)
  /\ \A r \in Runs : RowHistory(r)

LEMMA InitHistory == Init => HistoryInv
<1> SUFFICES ASSUME Init PROVE HistoryInv
  OBVIOUS
<1>1. \A w \in Workers : TerminalSeen(w)
  BY DEF Init, TerminalSeen
<1>2. ASSUME NEW r \in Runs
      PROVE  RowHistory(r)
  <2>1. db[r] = NoRun /\ outbox[r] = <<>> /\ db[r].phase # "terminal"
    BY DEF Init, NoRun, None
  <2>2. Count(outbox[r], "terminal_committed") = 0
    BY <2>1, CountEmpty
  <2> QED
    BY <2>1, <2>2 DEF RowHistory, TellsPhase, EndedOnce, AttemptsCounted
<1> QED
  BY <1>1, <1>2 DEF HistoryInv

LEMMA HistoryKept ==
  ASSUME NEW r \in Runs, RowHistory(r), db'[r] = db[r], outbox'[r] = outbox[r]
  PROVE  RowHistory(r)'
BY DEF RowHistory, TellsPhase, EndedOnce, AttemptsCounted

(* Events reported with a new version extend the history of the row.       *)
LEMMA HistoryExtended ==
  ASSUME NEW r \in Runs, RowHistory(r), outbox[r] \in Seq(Events),
         db[r] \in RunRecord, db'[r] \in RunRecord,
         NEW batch \in Batches, outbox'[r] = outbox[r] \o batch,
         Reports(db[r], db'[r], batch),
         db[r].revision <= db'[r].revision,
         db[r].phase = "terminal" => db'[r].phase = "terminal"
  PROVE  RowHistory(r)'
<1> DEFINE old == db[r]  new == db'[r]  s == outbox[r]  longer == outbox'[r]
<1>0. NoRun \notin RunRecord
  BY DEF NoRun, RunRecord
<1>1. /\ \A name : Count(longer, name) = Count(s, name) + Count(batch, name)
      /\ \A name : Count(s, name) \in Nat
  BY CountConcat, CountTyped
<1>2. /\ old.attempt \in Nat /\ new.attempt \in Nat
      /\ old.revision \in Nat /\ new.revision \in Nat
      /\ Pending(old) \in Nat /\ Pending(new) \in Nat
  BY FieldsTyped DEF Pending
<1>3. batch \in Seq(Events)
  BY BatchesTyped
<1>4. Count(batch, "retry_scheduled") \in Nat
  BY <1>3, CountTyped
<1>5. EndedOnce(r)'
  BY <1>1 DEF RowHistory, EndedOnce, Reports
<1>6. AttemptsCounted(r)'
  <2>1. old.attempt - 1 + Pending(old) <= Count(s, "retry_scheduled")
    BY <1>0 DEF RowHistory, AttemptsCounted
  <2>2. new.attempt + Pending(new) <=
          old.attempt + Pending(old) + Count(batch, "retry_scheduled")
    BY DEF Reports
  <2>3. new.attempt - 1 + Pending(new) <=
          Count(s, "retry_scheduled") + Count(batch, "retry_scheduled")
    <3>1. \A a, p, b, q, x, y \in Nat :
            a - 1 + p <= x /\ b + q <= a + p + y => b - 1 + q <= x + y
      OBVIOUS
    <3> QED
      BY <1>1, <1>2, <1>4, <2>1, <2>2, <3>1
  <2> QED
    BY <1>1, <2>3 DEF AttemptsCounted
<1>7. TellsPhase(r)'
  <2> DEFINE n == Len(s)  m == Len(batch)
  <2>1. /\ s # <<>> /\ old.phase \in Told(s[n])
        /\ \A i \in DOMAIN s : s[i].version <= old.revision
    BY <1>0 DEF RowHistory, TellsPhase
  <2>2. /\ n \in Nat /\ m \in Nat /\ DOMAIN s = 1..n /\ DOMAIN batch = 1..m
        /\ Len(longer) = n + m /\ DOMAIN longer = 1..(n + m)
        /\ \A i \in 1..(n + m) : longer[i] = IF i <= n THEN s[i] ELSE batch[i - n]
    BY <1>3, ConcatProperties, LenProperties
  <2>3. \A i \in DOMAIN s : s[i] \in Events
    OBVIOUS
  <2>4. \A i \in DOMAIN batch : batch[i].version <= new.revision
    BY DEF Reports
  <2>5. n # 0
    BY <2>1, EmptySeq
  <2>6. CASE batch = <<>>
    <3>1. longer = s /\ new.phase = old.phase
      BY <2>6, ConcatEmptySeq DEF Reports
    <3>2. \A i \in DOMAIN s : s[i].version \in Nat
      BY <2>3 DEF Events
    <3>3. \A i \in DOMAIN longer : longer[i].version <= new.revision
      BY <1>2, <2>1, <3>1, <3>2
    <3> QED
      BY <2>1, <3>1, <3>3 DEF TellsPhase
  <2>7. CASE batch # <<>>
    <3>1. m # 0 /\ new.phase \in Told(batch[m])
      BY <1>3, <2>7, EmptySeq DEF Reports
    <3>2. longer[n + m] = batch[m]
      BY <2>2, <3>1
    <3>3. longer # <<>>
      BY <1>3, <2>7, ConcatEqualIffEmpty
    <3>4. ASSUME NEW i \in DOMAIN longer
          PROVE  longer[i].version <= new.revision
      <4>1. CASE i <= n
        <5>1. i \in DOMAIN s /\ longer[i] = s[i]
          BY <2>2, <4>1
        <5>2. s[i].version \in Nat /\ s[i].version <= old.revision
          BY <2>1, <2>3, <5>1 DEF Events
        <5> QED
          BY <1>2, <5>1, <5>2
      <4>2. CASE ~(i <= n)
        <5>1. i - n \in DOMAIN batch /\ longer[i] = batch[i - n]
          BY <2>2, <4>2
        <5> QED
          BY <2>4, <5>1
      <4> QED
        BY <4>1, <4>2
    <3> QED
      BY <2>2, <3>1, <3>2, <3>3, <3>4 DEF TellsPhase
  <2> QED
    BY <2>6, <2>7
<1> QED
  BY <1>5, <1>6, <1>7 DEF RowHistory

(* A transaction that opens, ends without writing or reads again.          *)
LEMMA QuietHistory ==
  ASSUME HistoryInv, db' = db, outbox' = outbox,
         \A v \in Workers : \/ tx'[v] = Idle \/ tx'[v] = tx[v]
                            \/ tx'[v].snap = db[tx'[v].run]
  PROVE  HistoryInv'
<1>1. \A v \in Workers : TerminalSeen(v)'
  BY DEF HistoryInv, TerminalSeen
<1>2. \A r \in Runs : RowHistory(r)'
  BY HistoryKept DEF HistoryInv
<1> QED
  BY <1>1, <1>2 DEF HistoryInv

LEMMA CommitsHistory ==
  ASSUME IInv, SerialAdmission, HistoryInv, NEW w \in Workers, Commits(w)
  PROVE  HistoryInv'
<1>0. IInv'
  BY CommitsInv
<1>01. tx[w].run \in Runs /\ CommitReports(w)
  BY CommitsReport DEF HistoryInv
<1>1. PICK r \in Runs : r = tx[w].run
  BY <1>01
<1>2. PICK batch \in Batches :
        /\ outbox' = [outbox EXCEPT ![r] = @ \o batch]
        /\ Reports(db[r], db'[r], batch)
  BY <1>1, <1>01 DEF CommitReports
<1>3. /\ outbox'[r] = outbox[r] \o batch /\ outbox[r] \in Seq(Events)
      /\ \A q \in Runs : q # r => outbox'[q] = outbox[q]
  BY <1>1, <1>2 DEF IInv, TypeInv, TypeOK
<1>4. /\ \A q \in Runs : q # r => db'[q] = db[q]
      /\ db'[r] = db[r] \/ Evolves(db[r], db'[r])
  BY <1>1, CommitsEvolve DEF CommitsRow, IInv, TypeInv, TypeOK
<1>5. tx[w] # Idle /\ \A v \in Workers : tx'[v] = IF v = w THEN Idle ELSE tx[v]
  <2>1. tx' = [tx EXCEPT ![w] = Idle] /\ tx[w].op # "idle"
    BY DEF Commits, BeginAdmissionCommit, ApplyAdmitted, ApplyDeferred,
           ApplyRejected, ApplyRejectedAgain, AcquireLeaseCommit, HeartbeatCommit,
           RegisterWaitCommit, ResumeCommit, ScheduleRetryCommit, PauseCommit,
           CommitTerminalCommit, Write
  <2> QED
    BY <2>1 DEF IInv, TypeInv, TypeOK, Idle
<1>6. db[r] \in RunRecord /\ db'[r] \in RunRecord
  <2>1. db[r] # NoRun
    BY <1>1, <1>5 DEF IInv, SnapshotOK
  <2>2. db'[r] # NoRun
    BY <1>4, <2>1, <1>1, FieldsTyped DEF Evolves, NoRun, IInv, TypeInv, TypeOK
  <2> QED
    BY <1>0, <1>1, <2>1, <2>2 DEF IInv, TypeInv, TypeOK
<1>7. /\ db[r].revision <= db'[r].revision
      /\ db[r].phase = "terminal" => db'[r].phase = "terminal"
  BY <1>4, <1>6, FieldsTyped DEF Evolves
<1>8. RowHistory(r)'
  BY <1>1, <1>2, <1>3, <1>6, <1>7, HistoryExtended DEF HistoryInv
<1>9. \A q \in Runs : RowHistory(q)'
  BY <1>3, <1>4, <1>8, HistoryKept DEF HistoryInv
<1>10. ASSUME NEW v \in Workers
       PROVE  TerminalSeen(v)'
  <2>1. CASE tx'[v] = Idle
    BY <2>1 DEF TerminalSeen
  <2>2. CASE tx'[v] # Idle
    <3>1. tx'[v] = tx[v] /\ tx[v] # Idle
      BY <1>5, <2>2
    <3>2. tx[v].run \in Runs
      BY <3>1 DEF IInv, TypeInv, TypeOK, Transactions
    <3>3. tx[v].snap.phase = "terminal" => tx[v].snap = db[tx[v].run]
      BY <3>1 DEF HistoryInv, TerminalSeen
    <3>4. tx[v].snap.phase = "terminal" => db'[tx[v].run] = db[tx[v].run]
      BY <1>4, <3>2, <3>3 DEF Evolves
    <3> QED
      BY <3>1, <3>3, <3>4 DEF TerminalSeen
  <2> QED
    BY <2>1, <2>2
<1> QED
  BY <1>9, <1>10 DEF HistoryInv

LEMMA CreateHistory ==
  ASSUME IInv, HistoryInv, NEW r \in Runs, NEW t \in Tasks, CreateRun(r, t)
  PROVE  HistoryInv'
<1> DEFINE e == Event("created", "queued", NewRun)
<1>1. /\ \A q \in Runs : db'[q] = IF q = r THEN NewRun ELSE db[q]
      /\ \A q \in Runs : outbox'[q] = IF q = r THEN <<e>> ELSE outbox[q]
      /\ tx' = tx /\ db[r] = NoRun
  BY DEF CreateRun, IInv, TypeInv, TypeOK
<1>2. NewRun \in RunRecord
  BY DEF NewRun, RunRecord, Phases
<1>3. /\ e \in Events /\ e.name = "created" /\ e.version = NewRun.revision
      /\ Told(e) = {"queued"}
  BY <1>2, EventSays, TellingEvents
<1>4. /\ Count(<<e>>, "terminal_committed") = 0
      /\ Count(<<e>>, "retry_scheduled") = 0
  BY <1>3, CountOne
<1>5. /\ NewRun.phase = "queued" /\ NewRun.attempt = 1 /\ NewRun.revision = 1
      /\ Pending(NewRun) = 0
  BY DEF NewRun, Pending
<1>6. RowHistory(r)'
  <2> DEFINE s == <<e>>
  <2>1. s # <<>> /\ Len(s) = 1 /\ s[1] = e /\ DOMAIN s = {1}
    OBVIOUS
  <2>2. outbox'[r] = s /\ db'[r] = NewRun
    BY <1>1
  <2> HIDE DEF e, s
  <2>3. TellsPhase(r)'
    <3>1. s[Len(s)] = e /\ "queued" \in Told(e)
      BY <1>3, <2>1
    <3>2. \A i \in DOMAIN s : s[i].version <= NewRun.revision
      BY <1>3, <1>5, <2>1
    <3> QED
      BY <1>5, <2>1, <2>2, <3>1, <3>2 DEF TellsPhase
  <2>4. EndedOnce(r)'
    BY <1>4, <1>5, <2>2 DEF EndedOnce, s
  <2>5. AttemptsCounted(r)'
    BY <1>4, <1>5, <2>2 DEF AttemptsCounted, s
  <2> QED
    BY <2>3, <2>4, <2>5 DEF RowHistory
<1>7. \A q \in Runs : RowHistory(q)'
  BY <1>1, <1>6, HistoryKept DEF HistoryInv
<1>8. ASSUME NEW v \in Workers
      PROVE  TerminalSeen(v)'
  <2>1. tx[v] # Idle => tx[v].run \in Runs /\ tx[v].run # r
    BY <1>1 DEF IInv, SnapshotOK, TypeInv, TypeOK, Transactions
  <2> QED
    BY <1>1, <2>1 DEF HistoryInv, TerminalSeen
<1> QED
  BY <1>7, <1>8 DEF HistoryInv

LEMMA ReadHistory ==
  ASSUME IInv, HistoryInv, NEW w \in Workers, NEW r \in Runs, NEW op, NEW arg,
         Read(w, op, r, arg)
  PROVE  HistoryInv'
<1>1. /\ db' = db /\ outbox' = outbox
      /\ \A v \in Workers : v # w => tx'[v] = tx[v]
      /\ tx'[w].snap = db[r] /\ tx'[w].run = r
  BY DEF Read, IInv, TypeInv, TypeOK
<1> QED
  BY <1>1, QuietHistory

LEMMA NextHistory ==
  IInv /\ SerialAdmission /\ HistoryInv /\ [Next]_vars => HistoryInv'
<1> SUFFICES ASSUME IInv, SerialAdmission, HistoryInv, [Next]_vars
             PROVE  HistoryInv'
  OBVIOUS
<1>1. ASSUME NEW r \in Runs, NEW t \in Tasks, CreateRun(r, t)
      PROVE  HistoryInv'
  BY <1>1, CreateHistory
<1>2. ASSUME NEW w \in Workers, NEW r \in Runs, LookUp(w, r)
      PROVE  HistoryInv'
  BY <1>2, QuietHistory DEF LookUp
<1>3. ASSUME NEW w \in Workers, NEW r \in Runs, Requests(w, r), ~LookUp(w, r)
      PROVE  HistoryInv'
  <2>1. \E op, arg : Read(w, op, r, arg)
    BY <1>3 DEF Requests, BeginAdmission, ApplyAdmission, AcquireLease, Heartbeat,
                RegisterWait, Resume, ScheduleRetry, Pause, CommitTerminal
  <2> QED
    BY <2>1, ReadHistory
<1>4. ASSUME NEW w \in Workers, Commits(w)
      PROVE  HistoryInv'
  BY <1>4, CommitsHistory
<1>5. ASSUME NEW w \in Workers, ApplyAdmissionReread(w)
      PROVE  HistoryInv'
  <2> DEFINE t == [tx[w] EXCEPT !.snap = db[tx[w].run]]
  <2>1. /\ db' = db /\ outbox' = outbox /\ tx[w].op = "apply_admission"
        /\ tx' = [tx EXCEPT ![w] = t]
    BY <1>5 DEF ApplyAdmissionReread, IInv, TypeInv, TypeOK
  <2>2. t.snap = db[t.run]
    BY <2>1, BaseIsPast DEF Transactions
  <2> HIDE DEF t
  <2>3. \A v \in Workers : tx'[v] = IF v = w THEN t ELSE tx[v]
    BY <2>1 DEF IInv, TypeInv, TypeOK
  <2> QED
    BY <2>1, <2>2, <2>3, QuietHistory
<1>6. ASSUME NEW w \in Workers, Abort(w) \/ Crash(w)
      PROVE  HistoryInv'
  BY <1>6, QuietHistory DEF Abort, Crash, IInv, TypeInv, TypeOK
<1>7. ASSUME NEW w \in Workers, NEW outcome \in Outcomes, Evaluate(w, outcome)
      PROVE  HistoryInv'
  BY <1>7, QuietHistory DEF Evaluate
<1>8. CASE Tick \/ UNCHANGED vars
  BY <1>8, QuietHistory DEF Tick, vars
<1> QED
  BY <1>1, <1>2, <1>3, <1>4, <1>5, <1>6, <1>7, <1>8 DEF Next

LEMMA SpecHistory ==
  ASSUME SerialAdmission PROVE Spec => [](IInv /\ HistoryInv)
<1>1. IInv /\ HistoryInv /\ [Next]_vars => IInv' /\ HistoryInv'
  BY NextInv, NextHistory
<1> QED
  BY InitIInv, InitHistory, <1>1, PTL DEF Spec

-----------------------------------------------------------------------------
(* The results.                                                            *)

(* The outbox never lies about the row it was committed with: the last     *)
(* event of a run announces the phase the row is in, and no event carries  *)
(* a revision the row has not reached.                                     *)
THEOREM OutboxFollowsRowIfSerial ==
  ASSUME SerialAdmission PROVE Spec => []OutboxTellsPhase
<1>1. HistoryInv => OutboxTellsPhase
  BY DEF HistoryInv, RowHistory, TellsPhase, OutboxTellsPhase
<1> QED
  BY SpecHistory, <1>1, PTL

(* Of any number of competing terminal commands exactly one commits its    *)
(* event, however old the snapshots are from which the others write.       *)
THEOREM OneTerminalEventIfSerial ==
  ASSUME SerialAdmission PROVE Spec => []TerminalCommittedOnce
<1>1. HistoryInv => TerminalCommittedOnce
  BY DEF HistoryInv, RowHistory, EndedOnce, TerminalCommittedOnce, Count, Named,
         EventsNamed
<1> QED
  BY SpecHistory, <1>1, PTL

(* A run never counts more attempts than retries were scheduled, although  *)
(* any number of workers may take, lose and take its lease in between.     *)
THEOREM AttemptsArePaidForIfSerial ==
  ASSUME SerialAdmission PROVE Spec => []AttemptsMatchRetries
<1>1. ASSUME IInv, HistoryInv, NEW r \in Runs, db[r] # NoRun
      PROVE  db[r].attempt - 1 <= Cardinality(EventsNamed(r, "retry_scheduled"))
  <2>1. db[r].attempt - 1 + Pending(db[r]) <= Count(outbox[r], "retry_scheduled")
    BY <1>1 DEF HistoryInv, RowHistory, AttemptsCounted
  <2>2. db[r].attempt \in Nat /\ Pending(db[r]) \in Nat
    BY <1>1, FieldsTyped DEF IInv, TypeInv, TypeOK, Pending
  <2>3. Count(outbox[r], "retry_scheduled") \in Nat
    BY <1>1, CountTyped DEF IInv, TypeInv, TypeOK
  <2>4. db[r].attempt - 1 <= Count(outbox[r], "retry_scheduled")
    BY <2>1, <2>2, <2>3
  <2> QED
    BY <2>4 DEF Count, Named, EventsNamed
<1>2. IInv /\ HistoryInv => AttemptsMatchRetries
  BY <1>1 DEF AttemptsMatchRetries
<1> QED
  BY SpecHistory, <1>2, PTL
=============================================================================
