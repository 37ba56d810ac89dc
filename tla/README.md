# A verification of UEAF in TLA+

UEAF (`src/src/ueaf`) is a Python platform that drives agent *runs*: it admits
them, leases them to executors, parks, retries and ends them, keeps their
authoritative state in a database and tells the world through a transactional
outbox and a NATS JetStream stream. Around that core stand the services a run
uses: tool actions, memory, workflows, context and retrieval, evaluation, and the
evolution and release of agents. This directory models both as TLA+ modules,
checks them with TLC on small instances and proves the central facts with TLAPS
for every value of the parameters.

Paths below are relative to `src/src/ueaf/` unless they start with `src/`.

## 1. Inventory

| Component | State it keeps | Operations | What is hard | What makes it correct |
| --- | --- | --- | --- | --- |
| Run state machine (`runtime/state_machine.py`, `objects.py`) | the record of one run | `validate_transition`, `__post_init__` | a rule of construction that makes a legal transition impossible | the closed matrix |
| Run Coordinator (`runtime/coordinator.py`) | rows of runs, tasks, admission results, outbox | create, admit, lease, wait, resume, retry, pause, end | other transactions commit between a method's read and its write | one end, one lease holder, row and event agree |
| Control-plane API (`api`) | task and budget envelopes in each process | `create_run`, `admit_run`, commands | replicas, restarts, a request of several transactions, any of which may raise | the admission judges the task as it was created; a run whose admission broke off does not execute |
| Recovery (`runtime/recovery.py`) | checkpoints | `recover` | a new holder while the old one still runs | a fresh lease |
| Outbox and publisher (`runtime/outbox.py`, `infrastructure/queue/publisher.py`) | rows, marks | `append`, `publish`, `drain` | crash after publish, overlapping publishers and business transactions, an expiring window | no event lost, none before one committed when it was built, duplicates paid for |
| JetStream consumer (`infrastructure/queue/jetstream.py`) | last sequence, gaps | `subscribe`, `fetch` | redelivery, lost acknowledgements, exceptions, retention, restart | once, in order, no silent gap |
| Stores (`infrastructure/db`) | the tables, and their in-memory doubles | get, create, update, lists | two implementations of one contract | both answer alike |
| Action coordinator, gateway (`tool`) | records, receipts, deadlines | propose, authorise, reserve, execute, record, reconcile, retry | records held by callers, receipts that do not reach the store | one side effect per action key |
| Memory (`memory`) | reviews, records, consent | submit, review, promote, correct, expire, delete, revoke, recall | the order of those; a correction that raises between its two writes | one current version, nothing revoked is recalled |
| Workflow (`workflow`) | definitions, node runs | `schedule_ready`, `complete_node`, `fail_node` | late, repeated and contradicting answers | dependencies first, completed means all |
| Release and evolution (`release`, `evolution`) | triggers, runs, proposals, genomes; candidates, manifests | trigger, run, materialize; activate, roll back | stale copies, proposals made by callers, a run that stops half way | what is active was validated and approved end to end |
| Schemas (`common/schema_registry.py`) | documents, lock, history | validate, update the lock; activation chain | edits by hand on branches; a verifier that is a callback | a version never has two contents |
| Retrieval (`rag`, `infrastructure/vector`) | index, mirror, tombstones | ingest, delete, search | a remote index that fails; two channels | a deleted source is not served |
| Context building (`context`) | cache, conflicts, lineage, plans | route, budget, assemble, build | invalidation, priorities, truncation | nothing that matters is dropped or untold |
| Admission, policy (`admission`, `security/policy.py`, `tool/fingerprint.py`) | none | pure decisions | several things wrong at once; equal arguments spelled differently | monotone, one key per action |
| Evaluation, model (`eval`, `model`) | none | pure decisions | boundaries | a better candidate is judged no worse; repair is bounded |
| Evidence, artifacts, projection (`evidence`, `infrastructure/artifact`, `operations`) | observations; objects; summaries | ingest, detect; put, get; apply | the same telemetry twice; overlapping puts; redelivery | three errors counted once per ingest; references stay true |
| Adapters, turns, ports, telemetry export | external or declarative | input and output | - | not modelled, see section 8 |

Calls of the core are `async` functions on one event loop per process, and several
processes (API, executors, recovery, publishers) share the database. Every public
method of the coordinator is one database transaction; at the default isolation of
PostgreSQL it sees what others have committed since its read. The services are
synchronous objects: a method is one step, but their callers keep what they were
returned and come back with it later, and the remote ones (broker, index, bucket)
fail between two steps. These are the interesting behaviours.

## 2. Modules

| Module | Models | Uses |
| --- | --- | --- |
| `RunStateMachine` | phases, matrix, records, rules of construction | - |
| `RunLifecycle` | abstract: what the coordinator promises about a run | `RunStateMachine` |
| `RunCoordinator` | transactions, leases, admission, events | `RunStateMachine`; `INSTANCE RunLifecycle` |
| `ControlPlane` | replicas of the API with their envelopes, above the coordinator | - |
| `OutboxRelay` | outbox, publishers, broker's deduplication | - |
| `StreamConsumer` | durable consumer, server's delivery | - |
| `ActionCoordinator` | actions, their callers and the tool | - |
| `MemoryService` | review gate, records, correction chains, consent, recall | - |
| `WorkflowRun` | registry and run of a workflow, executors, driver | - |
| `EvolutionRelease` | trigger to genome, candidate to manifest | `MutationSurface` |
| `RagIndex` | indexing pipeline over a remote collection and a mirror | - |
| `ContextServices` | evidence cache, conflict registry, lineage, plans | - |
| `SchemaLock` | catalogue, lock file and base revision | - |
| `AuthorityStores` | each repository in memory and over SQL, side by side | - |
| `Evidence`, `ArtifactStore` | triggers from telemetry; objects in a bucket | - |
| `RetrievalRules`, `ContextAssembly`, `AdmissionRules`, `AccessRules`, `ModelRules`, `EvalRules`, `MutationSurface`, `ReleaseActivation`, `Projections` | the pure rules, as operators with the property of each | - |
| `Orders` | `sorted()`, `ORDER BY` and comprehensions with a condition, without recursion | - |
| `SequenceFacts` | lemmas on orders, folds and induction | `Orders` |
| `RunCoordinatorProofs`, `OutboxRelayProofs`, `StreamConsumerProofs`, `ActionCoordinatorProofs`, `MemoryServiceProofs` | invariants, lemmas and theorems of one module each | their module, `TLAPS` |
| `ServicesProofs` | theorems of the control plane and the other services, and of all services beside one another | `MCServices`, `SequenceFacts` and the proofs of actions and memory |
| `RulesProofs` | theorems of the pure rules, and of the run on them | `MCDecisions`, `SequenceFacts` |
| `MC...` | instances for TLC | the above |

### 2.1 RunCoordinator

* `db`, `taskOf`, `admissions`, `outbox` are the tables. A row of `db` keeps the
  fields the rules tell apart; wait reason, conditions and origin are written and
  cleared together and are one field.
* `tx` holds each worker's open transaction: the operation, its argument and the
  row it read. `cred` is the lease a worker was given, `admit` the record or
  admission result it holds between transactions. `leases` numbers leases, `now`
  is the clock.
* A public method is two actions. `X(w, r)` is the read with every check made
  before the write; `XCommit(w)` is the conditional `UPDATE`, the events and the
  commit. A check that fails raises and changes nothing: the action is not enabled.
  `Abort` is any exception after the read, `Crash` the death of the process.
* `Expected(t)` is the revision in the `UPDATE`'s condition, none for
  `begin_admission` (coordinator.py:211), the first read's for an admitted result,
  the last read's elsewhere. `WellFormed` is `RunRecord.__post_init__`.
* `SerialAdmission` is about the callers: TRUE says that `begin_admission` overlaps
  no other transaction on its run. Nothing in the code sees to it; the runs with
  TRUE, and the theorems that assume it, say what holds then, and `run_overwrite`
  what happens otherwise.
* `recover` on a live run is `AcquireLease`; `cancel` is `CommitTerminal` with
  "cancelled".

### 2.2 OutboxRelay and StreamConsumer

* `writing` are the business transactions in flight with the rows they have built,
  `rows` and `published` the committed rows and marks; `drains` is each publisher's
  position and the marks of its session; `stream` is what the broker stored, `window`
  the ids it recognises. `clock` is one clock that all processes read `created_at` from.
* A coordinator command runs its `UPDATE` and then builds its row, so it holds the lock
  of the run's row by then: `AppendRow`. `apply_admission` builds its first row from the
  run as it was read, before it holds that lock: `AppendAhead`; another command may
  commit in between, after which the admission's own `UPDATE` may lose (`RollBack`) or,
  where it has no expected revision, go on. `CommitRows` and `RollBack` end a
  transaction. The marks of a drain become visible in `FinishDrain` only. `Abandon` is
  any failure on the way, `WindowExpires` the passing of `dedup_window_seconds`.
* The server of the consumer (`last`, `next`, `pending`) is external. The client is
  `buffer`, `client`, `gaps`, `handed`; `ReceiveDuplicate`/`ReceiveNew` are one pass of
  the loop up to the acknowledgement, which may be lost; `Yield` gives the message to
  `fetch`, which hands all it has over when it returns (`Return`). `Raise` is an
  exception in `next_msg`, `ack` or `_decode_event`: the consumer lives on with its
  statistics, and what `fetch` had taken goes down with it (`cut`). `Crash` is a restart.

### 2.3 ControlPlane

One level above `RunCoordinator`: its transactions are single steps here, except the
last of an admission, and what is modelled instead is what a request keeps between
them: the envelopes in the replica (`envelopes`) and the admission it is serving
(`handling`). `RestartReplica` loses both. `BreakOff` is whatever raises after
`begin_admission` was committed: no envelope, a principal without an id, an error in
`evaluate`, a result that expired, a lost race, a failing database; the replica lives
on. `lost` records the runs whose admission broke off in either way. `SameAgain` says
that a client that posts a task again asks for the same goal.

### 2.4 ActionCoordinator

`store` is `_records`, `hand` the copy of a record each caller works with and what
its tool call told it. Every method starts from the copy, checks the copy, and writes
over the stored record; `record_receipt` and `reconcile` only return theirs.
`record_receipt` stores the receipt before it looks at the transition, so that a call
that is refused leaves its receipt behind (`RefuseReceipt`). The tool
takes effect (`effects`) in a step of its own, may do so and still answer with an
error or not at all, and callers die (`Die`) and are replaced by others that read the
store. `Exclusive` says that one caller at most holds the record of a key: the code
leaves that to its callers.

### 2.5 The services

Each service is a module with its state as variables and one action per method; what
calls it is external and calls anything it may at any time. What matters about each:

* `MemoryService`: candidates come in any order; an id is a position in `memories`.
  `Correct` is a correction that succeeds, `CorrectHalfway` one that raises after the
  old version was superseded and before the new one is stored.
  `Recall` is an operator: the properties quantify over who asks.
* `WorkflowRun`: an executor answers for a node it was started for, whatever its status
  is by then: the driver may have given up on it before, and answers are repeated and
  contradict each other.
* `EvolutionRelease`: objects that were returned once may be passed in later, and
  callers may make a proposal with any status themselves, so stale manifests and
  proposals that were never validated are there to be used. An evolution builds a
  candidate if the kernel has a hook for it; by default it has none.
* `RagIndex`: a call to the collection may fail with or without effect; the process
  restarts and loses tombstones and mirror.
* `SchemaLock`: authors write and remove files and edit the lock by hand between two
  runs of `main()`; `published` remembers what was ever part of a base revision.
* `AuthorityStores`: the same call is put to the in-memory repository and to the SQL
  one; `answers` holds what both said. SQL lists are ordered by times the caller gives
  (`created`) or by turn numbers, lists in memory by arrival.
* `Evidence`: nothing empties a collector; `ingest` takes all of it, each time.
* `ArtifactStore`: the S3 store, a put being a head, a get and a put request; any of
  them fails or is interleaved with those of other writers.

The rules modules are operators without state; the property of each is defined next
to it and `MCDecisions` puts bounded inputs to it. A payload is the way from the whole
down to one of its atoms, so the codec needs no recursion over trees; a `foreign` part
is an object of a class the decoder does not know, and the whole is then refused. An
argument of a call is one value, at the top level or within a dictionary; lists, sets
and `None` are left out. The policy looks for rules that allow and reads any other
effect as no permission, so `deny` and `require_approval` have no actions of their own.

## 3. Runs

| Run | Question | Bounds | Result |
| --- | --- | --- | --- |
| `coordinator` | do the transactions implement the lifecycle and keep row, events, lease holders, retries and admission results consistent? | 1 run, 2 workers, 5 revisions, 2 clock values | holds, 1.65 million states |
| `outbox_relay` | loss, order, duplicates, settling | 2 publishers, 2 aggregates, 2 rows, 2 failures | holds, 238 thousand states |
| `stream_consumer` | once, in order, gaps reported, progress | 4 messages, retention 3, fetch 2, 1 lost acknowledgement, 1 exception, 1 crash | holds, 43 thousand states |
| `services` | does each service keep its promises under every order of its calls and its faults? | see below | holds, 660 thousand states |
| `decisions` | do the pure rules keep theirs for every input? | see below | holds, 245 thousand states |
| `run_overwrite` | is an ended run final without serialised admission? | as `coordinator` | violated |
| `run_fencing` | do fencing tokens grow? | 6 revisions, no clock, no end | violated |
| `run_waiting_end` | can an accepted terminal command be written? | as `coordinator` | violated |
| `run_unadmitted` | is a run that was deferred admitted again before it executes? | as `coordinator` | violated |
| `consumer_restart` | is an acknowledged message handed over? | 2 messages, 1 crash | violated |
| `action_shared` | are stored actions written with a compare-and-swap? | 2 callers of 1 key | violated |
| `replaced_envelope` | does a refused post leave the envelope alone? | 1 replica, 1 run, 2 goals | violated |

**Bounds of the core.** Runs do not influence each other except through the
uniqueness of task ids, so one run is enough for the properties of a run; two workers
give every race of two transactions. Five revisions are the shortest histories in
which a run is admitted, leased, retried or parked and ended. The clock needs
"before" and "after" an expiry. In the relay two failures suffice for a row that is
rolled back, refused as a duplicate and then stored again; the two rows may be those of
one transaction or of two that overlap. In the consumer four
messages over a retention of three with a fetch of two make redelivery, discarding
and the `break` happen in every order.

**Bounds of the services.** They do not call one another, so `MCServices` explores
each alone (`alone` picks it in the initial state); one run for all of them costs the
sum of their states, not the product. Actions: one key, since actions of two keys
share nothing, two callers, three attempts (`MaxAttempts`), ten revisions (`MaxRevision`). Memory:
three candidates of one subject (one private that lapses, one too weak to be approved,
one that repeats the first for others to read), three records, two days; `Reviewed`
are the two candidates that are submitted for review. Workflow: three nodes, and a
join and a chain as definitions. Evolution: one lesson with or without evidence, two runs, two manifests, with
a mutation in range, one out of range and one of governance. Index: two documents in
two versions. Cache: two keys, sources and scopes. Schemas: two files, five documents
with and without a changed version. Stores: two ids, two revisions, two tokens; the
outbox three events, at equal or different moments of two. Evidence: three reports and
three ingests of one collector. Artifacts: three writers of one key with two contents. Control plane: two
replicas, runs and tasks; no request starts at revision `MaxApiRevision`. The bounds
are in the guards, so a run may stop at one: deadlock is not checked where they are.

**Bounds of the decisions.** Domains small enough to be exhausted, with the cases the
rules tell apart: both answers, equal and different ranks, limits just reached and just
exceeded, one and several faults at once, references in and out of scope, one part of
the activation chain replaced by that of another release.

### 3.1 What the properties say

Core.

* `OutboxTellsPhase`: row and outbox commit together, and the last event of a run
  announces the phase its row is in.
* `TerminalCommittedOnce`: of all competing ends of a run exactly one commits.
* `OneEffectiveHolder`, `LeaseNeverReturns`: after a takeover the old holder's
  heartbeat is refused, and no late write brings the old lease back.
* `AttemptsMatchRetries`, `ResultsAppliedOnce`: attempts never run ahead of the
  retries scheduled; two stored admission results never share an id.
* `ImplementsLifecycle`: refinement of `RunLifecycle` under the map
  `phase, disposition, revision` of each row.
* `PublishedWasStored`, `FirstCopiesInOrder`, `CopiesArePaidFor`,
  `EventuallyPublished`: a mark implies a stored event; the first copy of an event comes
  after those of the events of its aggregate that were committed when it was built or
  were built before it in its transaction (`Before`: of two transactions that
  overlap, the one that built the earlier event may publish it later); every further copy is explained by a failure or an
  overlap; and every committed row is marked, and so stored, in the end.
* `HandedOnceInOrder`, `LossesAreErrors`, `EventuallyHandedOrReported`: without a
  restart, what the consumer hands over is strictly increasing, what it passes over is
  in a recorded gap or was taken along by an exception, none of which takes more than
  one fetch, and it gets to every message the stream still has.
* `AdmissionsAreSound`: the stored result of an admission was evaluated with the
  envelope its task was created with (`JudgedAsCreated`), what runs was admitted
  (`RunsAsAsked`), a run whose admission broke off never executes
  (`BrokenOffNeverRuns`), and a run in admitting is being served or was broken off
  (`ServedOrBrokenOff`); that it leaves admitting again is not so.

Services. A property of several parts is a conjunction of definitions of their own,
each with its comment; TLC names the conjunction, and the state shows the part.

* Actions: `OneEffectPerKey`; `ActionsTellTheTruth` (`DeniedNeverRuns`; `OutcomeIsTrue`,
  what a record that ended says did happen, so a retry is safe; `ReceiptsAgree`, with the
  receipts of refused calls).
* Memory: `MemoryLinesHold` (`LinearLineage`, `DuplicatesOnlyByCorrection`) and
  `MemoryReadersAreProtected` (`SharedMemoryWasReviewed`, `RevokedIsNotRecalled`).
* Workflow: `WorkflowKeepsOrder` (`StartsInOrder`, `DependenciesAnswered`,
  `CompletedMeansAll`), and the liveness `NodesSettle`.
* Evolution and release: `EvolutionIsJustified` (`ProposalsAreJudged`,
  `RunsTellTheirOutcome`, `ReleasesAreJustified`): the chain from evidence to manifest
  holds end to end, also beside genomes that callers had made of proposals of their own.
* Index and context: `DeletedIsNotServed` (of deletions that succeeded: one that raises
  in between tells its caller), `InvalidationReaches`.
* Schemas and stores: `VersionsStand`; `StoresAgreeThroughout` (`StoresAgree`,
  `OutboxesAgree`, with the differences that do exist named in them).
* Evidence and artifacts: `ErrorsCountOncePerIngest`, a trigger rests on three errors if
  each counts once per ingest of its collector; `ReferencesStayTrue` unless puts of a key overlapped or a head request failed.
* `WhatIsSettledStays`, of the steps of all of them: `RevisionsNeverFall` (actions),
  `RecordsOnlyRetire` (memory), `RolledBackForGood` (release), `ConflictsStand`
  (context), `UpdatesKeepHistory` (schemas).

Decisions. Each compares the code's algorithm with a promise it does not compute.

* `RetrievalIsFair`: fusion by ranks is monotone (`FusionIsFair`), a search that fails
  half way stays inside the allow list and serves exactly the first lexical hits
  (`SearchIsSafe`), packs repeat nothing and are filled in order (`PacksAreFair`).
* `ContextKeepsWhatMatters`: so do the fallback of the router (`RoutesAreSafe`) and the
  token budget (`BudgetsKeepWhatMatters`), and every source is used or told of
  (`ManifestsAreTraceable`).
* `AdmissionsConverge`: a request mended as told is admitted within three rounds; it may
  be refused for a further region meanwhile, since those are named one at a time.
* `AccessIsConsistent`: more rules that allow never deny what fewer allow
  (`PoliciesAddUp`), two calls share a key exactly if they mean the same
  (`KeysAreIdentities`), a moment and a decimal meaning the text they are written as,
  as the code turns them into it.
* `BetterIsNoWorse`: of candidates in an evaluation (`EvaluationsAreMonotone`) and of
  mutation surfaces, the wider of which refuses nothing the narrower one takes
  (`SurfacesAreMonotone`).
* `ChainsAreWhole`: no part of one activation chain can be put into another.
* `RewritingKeepsMeaning`: redelivery does not change a summary
  (`ReplaysChangeNothing`), payloads without the keys the codec reserves are read back,
  or refused as a whole for an unknown class (`PayloadsReadBack`), repair of output that
  quotes no delimiter closes what is open once (`RepairsAreBounded`).

### 3.2 Fairness

`OutboxRelay`: whoever schedules `drain` calls it again and its calls return (`Drains`),
and time passes (`WindowExpires`); of business transactions nothing is asked, only
committed rows have to settle. The repository has no scheduler of `drain` (only its tests call
it), so this is the contract a deployment has to provide. `StreamConsumer`: weak
fairness for each step of the client, whose loop has no other way to go, and strong
fairness for delivery, because a subscription's timeout can cut in between two
deliveries, but not between all of them; exceptions are bounded and never fair. `WorkflowRun`: the driver keeps calling
`schedule_ready` and every node that was started ends, by its executor or because the
driver gives up on it; this is again the caller's part. Failures are never fair.
`RunCoordinator` has no fairness: nothing in the code forces a run to advance.

## 4. Where the code and its documents disagree

1. **An ended run can come back** (`run_overwrite`). `begin_admission` passes no
   expected revision. The document asks for one on every write.
2. **Fencing tokens repeat** (`run_fencing`). They are counted from the lease in
   the row, which waits and pauses drop.
3. **A waiting run cannot be ended** (`run_waiting_end`). The wait fields survive
   into the terminal record, whose constructor refuses them.
4. **A deferred run can execute without another admission** (`run_unadmitted`). `resume`
   does not look at the origin of the wait.
5. **A restart can lose a message** (`consumer_restart`): acknowledged first, handed
   over second.
6. **Stored actions move back** (`action_shared`). The action coordinator compares no
   revisions, though its docstring speaks of CAS.
7. **A refused post replaces the envelope** (`replaced_envelope`) of the run that exists,
   which the next admission is evaluated with.

The following disagreements have no run of their own. The properties of the passing runs
are stated so that they say exactly how far the promise goes; lines are those of `src/ueaf/`.

| Seen at | What the code does | What still holds |
| --- | --- | --- |
| `runtime/coordinator.py:238` | `apply_admission` builds its first event before it holds the run's row, so the events of an aggregate may be published out of the order they were built in (`03-跨模块契约与事件规范.md:86` asks for it) | `FirstCopiesInOrder`, with its `Before` |
| `infrastructure/queue/jetstream.py:119` | the watermark moves before `ack` and `_decode_event`: a message is lost without a gap if one of them raises (`jetstream.py:5` promises the gap) | `LossesAreErrors` |
| `memory/service.py:335` | `correct` supersedes before it builds: if it raises in between, the fact has no current version (`service.py:319` promises a new one) | `LinearLineage`: only of memories that were to expire, since the comparison of times is what raises |
| `workflow/orchestrator.py:104` | a late failure is written over a completion, and a late completion over a failure (`06-工作流与多Agent.md:54`) | `StartsInOrder`, `CompletedMeansAll` |
| `evolution/kernel.py:198` | `materialize` trusts the status of the object it is given (`objects.py:91`: made by machine validation) | `ReleasesAreJustified`: no evolution ends with it |
| `evidence/evidence.py:115` | a collector is never emptied, and one error ingested three times is a trigger (`evidence.py:187` excludes it) | `ErrorsCountOncePerIngest` |
| `api/app.py:148` | a run stays in admitting for good when its request raises after `begin_admission` (`02-状态机与终态规范.md:106` wants a definite exit) | `BrokenOffNeverRuns`, `ServedOrBrokenOff` |
| `context/conflict.py:38` | a conflict registered again with the same statement replaces the first one's sources and versions (`conflict.py:22`) | `ConflictsStand`: the statement, and the sources if the statements differ |
| `infrastructure/artifact/store.py:96` | puts of one key that overlap replace each other's content (ACT-016 at `store.py:94`) | `ReferencesStayTrue` of all others |
| `rag/evidence.py:67` | a full pack drops the conflicting sources that rank behind (RAG-012 at `evidence.py:59`) | `PacksAreFair` |
| `tool/fingerprint.py:82` | credentials are redacted at the top level of the arguments only (ACT-017 at `fingerprint.py:81`) | `KeysAreIdentities`, with nested ones counting |
| `model/repair.py:67` | whole output with a delimiter in a string is rewritten (the test of PRM-007, `test_prm_ctx_gaps.py:120`) | `RepairsAreBounded` for output that quotes none |
| `infrastructure/db/serialization.py:68` | a dictionary with one of the codec's own keys comes back as another value; keys that are no strings come back as strings (`serialization.py:4`) | `PayloadsReadBack` for payloads without such keys |

Further: the stream's subject `ueaf.events.*` has a wildcard of one token while events are
published under names of three; every event of a run carries sequence 1; a wait's
`expires_at` is never acted on; an event may be stored twice once an outage is longer than
the deduplication window (`CopiesArePaidFor` says when); the effects `deny` and
`require_approval` of a rule only read as "not allow"; an object of a class outside the
codec's registry is stored and never read back; `renew_lease` of an action always raises;
tombstones of deleted sources do not outlive the process; the trigger window never ends; a
repeated `submit` of the tool gateway raises where the result is known already; evidence
computed before an invalidation can be cached after it; runtime adapters that are restarted
repeat sequences, and one that resumes has lost its context.

## 5. Proofs

What a run shows of a small instance, a theorem shows for every set of workers, runs,
keys, messages, ... and for every value of the bounds. TLC checked every invariant on an
instance before it was proved. The constants are assumed to be what the modules say of
them by name: finite bounds are numbers, and a value that stands for "none" (`None`,
`NoGoal`, `NoContent`) is none of the values it stands beside. Where a theorem also
needs something of those who call the code, that is a hypothesis of the theorem: see 5.9.

### 5.1 `RunCoordinatorProofs`

| Theorem | Statement |
| --- | --- |
| `TypeCorrect` | `Spec => []TypeOK` |
| `OneHolderAtMost` | `Spec => []OneEffectiveHolder` |
| `ResultsStoredOnce` | `Spec => []ResultsAppliedOnce` |
| `TerminalIsFinalIfSerial` | `SerialAdmission` implies `Spec => TerminalIsFinal` |
| `LeaseNeverReturnsIfSerial` | `SerialAdmission` implies `Spec => LeaseNeverReturns` |
| `ImplementsLifecycleIfSerial` | `SerialAdmission` implies `Spec => Lifecycle!Spec` |
| `OutboxFollowsRowIfSerial` | `SerialAdmission` implies `Spec => []OutboxTellsPhase` |
| `OneTerminalEventIfSerial` | `SerialAdmission` implies `Spec => []TerminalCommittedOnce` |
| `AttemptsArePaidForIfSerial` | `SerialAdmission` implies `Spec => []AttemptsMatchRetries` |

The type invariant is not inductive alone: what a transaction writes depends on its
argument, so `TypeInv` adds `ArgumentsOK`. `OneHolderAtMost` adds `CredentialsDiffer` to
it: lease ids are drawn from a counter and no two credentials share one, whatever the rows
say; so the lease in a row can be that of one worker only, even where admission is not
serialised.

The others rest on `IInv`: `TypeInv`; `RowsOK` (every row is well formed, and an ended one
has no lease); `AdmissionAlone` (what `SerialAdmission` gives); `SnapshotOK` (a snapshot
with the row's revision *is* the row, which makes a compare on the revision alone sound);
and `ChecksOK` (what the method checked is true of the snapshot it still holds).
`SnapshotIsCurrent` says that a write that passes its condition writes over the very row
it read, `CommitsEvolve` that every commit takes the row one legal step further; finality,
leases and the refinement follow from `NextRowStep` and `StepRefines`.

The last three relate a row to all the events of its run. `HistoryInv` says it side by
side: the last event tells the phase (`TellsPhase`), terminal events are counted one or
none as the row ended or not (`EndedOnce`), and attempts, with the retry that is scheduled
and not yet executed (`Pending`), are no more than the retries announced
(`AttemptsCounted`): the attempt itself moves only when the lease is taken, so the
property alone is not inductive. `Reports` describes a commit by what it adds to the outbox;
every commit is shown to report what it did, and `HistoryInv` follows from the report.

### 5.2 `OutboxRelayProofs`

| Theorem | Statement |
| --- | --- |
| `TypeCorrect` | `Spec => []TypeOK` |
| `MarksAreHonest` | `Spec => []PublishedWasStored` |
| `OrderIsKept` | `Spec => []FirstCopiesInOrder` |
| `DuplicatesAreBounded` | `Spec => []CopiesArePaidFor` |

`IInv` adds `RowsOK` (a row was built at a moment of its own and committed at or after it,
with all of its transaction), `WritingOK` (what is in flight was built by now, by one
transaction each), `MarksOK` (a mark, committed or in a publisher's session, is of a
stored event) and `DrainsOK` (a row that is `Before` one that a drain is still to visit is
to be visited, too, or is in the stream). Nothing is assumed of who holds which lock when:
transactions of one aggregate overlap and commit in any order. For the last theorem every copy
of an event gets a payer (`PaidFor`): a failed drain, or a publisher that has spent its
turn on the event, because the event is among its uncommitted marks, or is published and
not to be visited by it again. A publisher that stores a copy pays with its own turn, and
one that loses its marks turns its payment into a failure.

### 5.3 `StreamConsumerProofs`

| Theorem | Statement |
| --- | --- |
| `ConsumerTypeCorrect` | `Spec => []TypeOK` |
| `HandedInOrder` | `Spec => []HandedOnceInOrder` |
| `NothingSkippedInSilence` | `Spec => []LossesAreErrors` |

`TypeInv` knows that a message in hand is the watermark `client.seen` itself. `Watermark`
says that until the first restart all that was handed over lies at or below it, ascending
(`Ascending`), and that each number up to it was handed over, is in a gap, is in hand or
went down with an exception (`Accounted`); `CutBounded` counts the latter, no more than a
fetch for each. Nothing is assumed of the server: it may deliver anything it has, again.

### 5.4 `ActionCoordinatorProofs`

| Theorem | Statement |
| --- | --- |
| `TypeCorrect` | `Spec => []TypeOK` |
| `OneEffectIfExclusive` | `Exclusive` implies `Spec => []OneEffectPerKey` |
| `ActionsTellTheTruthIfExclusive` | `Exclusive` implies `Spec => []ActionsTellTheTruth` |
| `RevisionsNeverFallIfExclusive` | `Exclusive` implies `Spec => RevisionsNeverFall` |

`IInv` is `TypeOK` and `Safe`, the conjunction of: `Apart` (nobody shares a key);
`KeyOK` (a side effect that took place leaves a stored record that no begin accepts
again, a denied key has none); `CopyOK` for every copy in a hand, which relates the copy,
the tool's answer, the stored record and the effect (the heart of the argument: the
stored record may lag behind the copy by the one method that is not stored, so a caller
that takes over never finds a record from which the effect could be repeated);
`ReceiptsOK` and `HandReceiptsOK` (receipts, those of refused calls too, belong to the
attempts so far, before an attempt is begun none knows its end, and while it may still
succeed none says it failed); and `ReceiptsAgree`. The proof that a
step keeps it has one lemma per action and one step per conjunct.

### 5.5 `MemoryServiceProofs`

| Theorem | Statement |
| --- | --- |
| `MemoryTypeCorrect` | `MemorySpec => []MemoryTypeOK` |
| `RetiredForGood` | `MemorySpec => RecordsOnlyRetire` |
| `LinesHold` | `MemorySpec => []MemoryLinesHold` |
| `ReadersAreProtected` | `MemorySpec => []MemoryReadersAreProtected` |

Every operation of the service is one of three effects on the records (`EveryEffect`): it
retires some (a correction that breaks off halfway is one of these), adds one, or replaces
one by its correction. The invariants are shown for
the effects instead of for each operation. `Lineage` states the lines from below, by what
each version replaces, since counting successors is not inductive by itself;
`Consented` says that an active record's candidate is not revoked, which is what keeps a
correction from bringing a revoked record back.

### 5.6 `ServicesProofs`

| Theorem | Statement |
| --- | --- |
| `ControlTypeCorrect`, `BrokenOffStaysOut` | `ControlSpec => []ControlTypeOK`, `ControlSpec => [](BrokenOffNeverRuns /\ ServedOrBrokenOff)` |
| `AdmissionsSoundIfSame` | `SameAgain` implies `ControlSpec => []AdmissionsAreSound` |
| `WorkflowTypeCorrect`, `OrderKeptIfNodes` | `WorkflowSpec => []WorkflowTypeOK`; `Nodes # {}` implies `WorkflowSpec => WorkflowKeepsOrder` |
| `EvolutionStaysJustified`, `RollbacksStand` | `EvolutionSpec => []EvolutionIsJustified`, `EvolutionSpec => RolledBackForGood` |
| `DeletedStaysUnserved` | `RagSpec => []DeletedIsNotServed` |
| `InvalidationAlwaysReaches`, `ConflictsAlwaysStand` | `ContextSpec => []InvalidationReaches`, `ContextSpec => ConflictsStand` |
| `VersionsStandForGood`, `HistoryKeptByUpdates` | `SchemaSpec => []VersionsStand`, `SchemaSpec => UpdatesKeepHistory` |
| `ReferencesTrueForGood` | `ArtifactSpec => []ReferencesStayTrue` |
| `StoresAgreeForGood` | `StoresSpec => []StoresAgreeThroughout` |
| `TriggersCountErrorsOnce` | `EvidenceSpec => []ErrorsCountOncePerIngest` |
| `EveryServiceTypeCorrect` | `ServicesSpec => []ServicesTypeOK` |
| `SettledForGoodIfExclusive` | `Exclusive` implies `ServicesSpec => WhatIsSettledStays` |

Of the control plane, `AdmittingIsServed` says `ServedOrBrokenOff` of replicas that do
serve an admission, which is what survives a replica that finishes and starts over;
`AdmissionsOfRows` that an admission being served is of a run that is in admitting since,
or has ended, is the only one of its run, and that none of that run broke off. `AsAsked` follows the goal of
a task on its way through envelopes, admissions and results: each was asked for when the
task was created.

Each other invariant is the promise with the links between the variables it rests on:
`WorkflowInv` (a run waits for what its definition says, what was started is no longer
pending, what is no longer pending has its dependencies answered); `EvolutionInv` (one
part for each link of the chain: triggers, proposals, genomes, candidates, releases);
`RagInv` (what has a tombstone is in neither channel, and is on the mirror's own list of
deleted sources, so it cannot come back to either);
`SchemaInv` (every document that was ever published is in the base revision, whose
entries are one per id and version); `ArtifactInv` (two open puts of a key disturb it, and
one that is about to write to an undisturbed key finds nothing or its own content there);
`StoresInv` (each row is the image of the record, each event has one row if it was
appended, marked if it was sent; that a list over SQL has the records of the one in memory,
and their order where the caller's times rise with the additions, then follows from
`OrderedBy`: an ascending enumeration is unique);
`EvidenceInv` (what is observed is in the collector and of one of the ingests so far, so
errors are counted by their number and that of an ingest).

The last two compose. `EachAlone` derives from `ServicesSpec` the specification of every
service by itself, because a step of one leaves the variables of all others alone; the
theorems of the services then hold of all of them together. So proofs need not speak of
the eleven services at once, and what `MCServices` explores one service at a time (`alone`)
is proved of them.

### 5.7 `SequenceFacts`

What the rules compute they compute over lists: they sort, filter, fold and count. The
prover knows nothing of `SortSeq`, `SelectSeq` and `SetToSortSeq`, and a lemma about an
operator that takes an operator cannot be applied. So

* `Orders` defines sorting and filtering by counting: an element stands at the place that
  the number of elements before it gives. `RankedLists` proves that this lists each
  element once, in order, `RankedIsUnique` that any such list is the one.
* a fold is a function chosen on the sets of places still to do; `FoldExists` proves there is
  one for any step, given as a function of place and value, and each rule's fold is then
  unfolded into a table `g[0], g[1], ...` whose next entry is the step at the next place.
* induction is over sets: `SetInduction` (a set of naturals that has 0 and every successor
  has them all) and `PrefixInduction` (the same up to a bound), both from `NatMin`, the least element.

### 5.8 `RulesProofs`

| Theorem | Statement |
| --- | --- |
| `RulesAlwaysAddUp` | `RulesAddUp` of any roles, rules, action and resource |
| `KeysAlwaysTellCallsApart` | `KeysTellCallsApart` of any two calls and set of secret names |
| `EvaluationIsAlwaysMonotone` | `EvaluationIsMonotone` of any finite set of cases, outputs and conditions |
| `SurfaceIsAlwaysMonotone` | `SurfaceIsMonotone` of any proposal, subject and authority |
| `ActivatedChainsNeverMix` | two chains of one candidate that both activate have no mixture that does but themselves |
| `AdmissionAlwaysConverges` | a caller that remedies what each rejection names is admitted after three, for any limits, regions and allow list |
| `RoutesAlwaysSafe` | the router's fallback, for any backends, answers and scopes |
| `FusionAlwaysFair`, `SearchAlwaysSafe` | fusion and search, for any two rankings and any constant of the formula; a degraded search serves exactly the first lexical hits |
| `PackAlwaysFair` | evidence packs of any chunks, conflicts and limit |
| `RepairAlwaysBounded` | repair of output of any length that quotes no delimiter, in any number of passes |
| `ReplayNeverChangesAnything` | redelivery from any event on of any stream |
| `PayloadAlwaysReadBack` | encoding and decoding of any payload without reserved keys, of any depth; refusal of unknown classes |
| `BudgetAlwaysKeepsWhatMatters` | the token budget, of any slots and any number of tokens |
| `ManifestAlwaysTraceable` | context manifests of any sources, principal and limits |
| `AccessAlwaysConsistent` | `Spec => []AccessIsConsistent` |
| `BetterIsAlwaysNoWorse` | `Spec => []BetterIsNoWorse` |
| `RetrievalAlwaysFair` | `Spec => []RetrievalIsFair` |
| `AdmissionsAlwaysConverge` | `Spec => []AdmissionsConverge` |
| `RewritingAlwaysKeepsMeaning` | `Spec => []RewritingKeepsMeaning` |
| `ContextAlwaysKeepsWhatMatters` | `Spec => []ContextKeepsWhatMatters` |
| `ChainsAlwaysWhole` | `Spec => []ChainsAreWhole` |

All but the last seven are about all inputs, not about those `MCDecisions` puts to the rules;
the last seven derive what the run checks from them: `InputsShaped` says that what is put has
the shape the theorems ask for. Only `ChainsAlwaysWhole` is more than an instance: that no
altered field goes unnoticed is proved of the chains and the alterations `MCDecisions` has,
where each altered field disagrees with one it is compared with, and `ActivatedChainsNeverMix`
leaves no mixture but the two chains.

Outcomes of an evaluation are compared by the numbers of passing and of scored cases, so
its proof is one about cardinalities; keys are compared by the canonical form of each
argument, whose injectivity on meanings is the argument. Admission counts down how many
remedies are left. Fusion compares sums of reciprocal ranks as fractions; a chunk ahead in
both channels scores higher, and the ranking of `Orders` does the rest. A pack is followed
chunk by chunk: what was passed over was a duplicate, or there was no room. A budget is
followed entry by entry, critical ones first: up to each, every entry is kept or omitted
with its reason, no slot is over its limit, and the tokens in use never fall, so what had
no room has none at the end. Repair is
followed character by character: what is open after `n` characters counts the delimiters
not yet closed, and closing them leaves none. A summary's field is what the last event that
speaks of it says, so it is the same when the end of the stream comes twice.

### 5.9 Hypotheses on the callers

* `SerialAdmission`: no transaction on a run overlaps `begin_admission`. `run_overwrite`
  is what happens without it.
* `Exclusive`: one caller at most holds the record of an action key. `action_shared` is the
  counterexample without it.
* `SameAgain`: a task that is posted again asks for the same. Otherwise
  `replaced_envelope`.
* Three regions of a principal at most lie outside a task's allow list
  (`AdmissionAlwaysConverges`): the check names one region at a time, so a caller with four
  takes a fourth round.
* A repair is allowed one pass at least (`RepairAlwaysBounded`): `repair.py` refuses less;
  and its output has no delimiter in a string.
* No two slots of a budget have the same ref (`BudgetAlwaysKeepsWhatMatters`), nor two
  sources of a request (`ManifestAlwaysTraceable`): a ref is what they are told apart by.
* No dict in a payload has a key that the codec reserves (`PayloadAlwaysReadBack`): such a
  dict would be read back as what the key stands for.
* `Nodes # {}`: the code accepts a definition without nodes, and its run is never
  completed, though there is nothing it could wait for.

`MCServices.cfg` sets `Exclusive` and `SameAgain`, and `MCRunCoordinator.cfg`
sets `SerialAdmission`, so behaviours that satisfy the hypotheses exist and are what those
runs explore.

### 5.10 Only model-checked

* Liveness (`EventuallyPublished`, `EventuallyHandedOrReported`, `NodesSettle`): the
  prover has no rule for fairness, nor for `ENABLED`.

Every invariant of a passing run is stated by a theorem. Of the activation chains, that no
altered field goes unnoticed is proved for the chains `MCDecisions` writes and the
alterations it lists, not for every chain.

## 6. Reading a counterexample

`tlc -config MCRunOverwrite.cfg MCRunCoordinator` prints the states: one worker reads
a queued run for `begin_admission`; another cancels it and commits; the first commits
too, without a condition on the revision, and the run is `admitting` again.
In a trace of `services` the first state tells the service (`alone`); the variables of
the others stay as they began.

## 7. Plan

1. *(done)* The run core with its proofs, the relay with its proofs, the consumer.
2. *(done)* The actions with their proofs; memory, workflow, evolution and release,
   index, context, schemas, stores, evidence, artifacts; the pure rules; the control
   plane above the coordinator.
3. *(done)* Proofs of every safety property a run checks, and of the services beside one
   another.
4. The field checks of edge and registry, the evolution gates and the security rules.

## 8. Not modelled

* Adapters of agent frameworks, telemetry export, secrets, the fault injector of the
  tests, ports and value objects: input and output, or declarations.
* What a JSON schema says, what a model answers, embeddings, the scores inside a
  channel: data, abstracted to what the rules tell apart.
* Rules that are one comparison or a text filter (edge validation, delegation, egress,
  data loss prevention, sandbox, the single evaluation gates): a property would repeat
  the comparison.
* SQL itself is modelled at the granularity of rows and commits (READ COMMITTED); the
  SQLite database of the unit tests serialises writers and shows fewer interleavings.
* Checkpoints, budgets in use and payloads of events do not influence any transition.
* The scripts under `src/scripts` generate documents and are no part of the program.
