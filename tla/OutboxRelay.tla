----------------------------- MODULE OutboxRelay -----------------------------
(***************************************************************************)
(* The transactional outbox on its way to the broker: SqlOutboxStore       *)
(* (db/repositories_sql.py) drained by NatsJetStreamOutboxPublisher        *)
(* (queue/publisher.py) inside one database session, possibly by several   *)
(* publishers at once, into a stream that drops message ids it saw within  *)
(* its deduplication window.                                               *)
(*                                                                         *)
(* created_at is read from one clock when a business transaction builds a  *)
(* row, and tells the row apart from every other; the row shows up when    *)
(* that transaction commits.  A coordinator command builds its row after   *)
(* its UPDATE, under the lock of the run's row, but apply_admission builds *)
(* its first one before: another command may commit in between.            *)
(***************************************************************************)
EXTENDS Naturals, FiniteSets, SequencesExt

CONSTANTS
  Publishers,
  Aggregates,
  MaxRows,      \* bound: outbox rows in all
  MaxFailures   \* bound: drains that end in an exception or a crash

ASSUME RelayAssumption ==
  /\ IsFiniteSet(Publishers)
  /\ IsFiniteSet(Aggregates)
  /\ MaxRows \in Nat
  /\ MaxFailures \in Nat

VARIABLES
  clock,      \* the last created_at drawn
  writing,    \* transactions in flight that built rows
  rows,       \* committed outbox rows
  published,  \* rows whose published_at is committed
  drains,     \* each publisher's drain: rows still to visit, marks to commit
  stream,     \* the broker's stream: row ids in storage order
  window,     \* ids the broker would recognise as duplicates
  failures    \* drains that ended without committing their marks

vars == <<clock, writing, rows, published, drains, stream, window, failures>>
broker == <<stream, window>>
database == <<clock, writing, rows>>

Ids == 1 .. MaxRows

Transaction == [aggregate : Aggregates, built : SUBSET Ids, locked : BOOLEAN]

(* batch and committed, the rows of its transaction and the clock at its   *)
(* commit, are kept for the properties only.                               *)
Row == [aggregate : Aggregates, id : Ids, batch : SUBSET Ids, committed : Ids]

(* The list unpublished() returned is kept as the set of rows still to     *)
(* visit; they are visited in the order of created_at.                     *)
NoDrain == [active |-> FALSE, todo |-> {}, marks |-> {}]

Drain == [active : {TRUE}, todo : SUBSET Row, marks : SUBSET Ids]

NextRow(d) == CHOOSE row \in d.todo : \A other \in d.todo : row.id <= other.id

TypeOK ==
  /\ clock \in 0 .. MaxRows
  /\ writing \subseteq Transaction
  /\ rows \subseteq Row
  /\ published \subseteq Ids
  /\ drains \in [Publishers -> Drain \union {NoDrain}]
  /\ stream \in Seq(Ids)
  /\ window \subseteq ToSet(stream)
  /\ failures \in 0 .. MaxFailures

Init ==
  /\ clock     = 0
  /\ writing   = {}
  /\ rows      = {}
  /\ published = {}
  /\ drains    = [p \in Publishers |-> NoDrain]
  /\ stream    = <<>>
  /\ window    = {}
  /\ failures  = 0

-----------------------------------------------------------------------------
(* Business transactions: append inside the caller's session, then commit. *)

Locked(a) == \E t \in writing : t.aggregate = a /\ t.locked

(* apply_admission: the first row is built from the run as it was read.    *)
AppendAhead(a) ==
  /\ clock < MaxRows
  /\ clock' = clock + 1
  /\ writing' = writing \union {[aggregate |-> a, built |-> {clock + 1}, locked |-> FALSE]}
  /\ UNCHANGED <<rows, published, drains, broker, failures>>

(* Mutant: the row is built at the clock's last reading.                   *)
AppendRowLate(a, built) ==
  /\ clock < MaxRows
  /\ ~ Locked(a)
  /\ clock' = clock + 1
  /\ writing' = (writing \ {[aggregate |-> a, built |-> built, locked |-> FALSE]})
                   \union {[aggregate |-> a, built |-> built \union {clock}, locked |-> TRUE]}
  /\ UNCHANGED <<rows, published, drains, broker, failures>>

(* Any command, apply_admission's second row included: the UPDATE has the  *)
(* lock of the run's row, and the row of the outbox is built after it.     *)
AppendRow(a, built) ==
  /\ clock < MaxRows
  /\ ~ Locked(a)
  /\ clock' = clock + 1
  /\ writing' = (writing \ {[aggregate |-> a, built |-> built, locked |-> FALSE]})
                   \union {[aggregate |-> a, built |-> built \union {clock + 1}, locked |-> TRUE]}
  /\ UNCHANGED <<rows, published, drains, broker, failures>>

Begun(a) == {t.built : t \in {t \in writing : t.aggregate = a /\ ~ t.locked}}

CommitRows(t) ==
  /\ t.locked
  /\ writing' = writing \ {t}
  /\ rows' = rows \union {[aggregate |-> t.aggregate, id |-> id,
                           batch |-> t.built, committed |-> clock] : id \in t.built}
  /\ UNCHANGED <<clock, published, drains, broker, failures>>

(* A conflict of revisions, a phase that changed meanwhile, a crash.       *)
RollBack(t) ==
  /\ writing' = writing \ {t}
  /\ UNCHANGED <<clock, rows, published, drains, broker, failures>>

-----------------------------------------------------------------------------
(* drain.                                                                  *)

Unpublished == {row \in rows : row.id \notin published}

StartDrain(p) ==
  /\ ~drains[p].active
  /\ Unpublished # {}
  /\ drains' = [drains EXCEPT ![p] =
       [active |-> TRUE, todo |-> Unpublished, marks |-> {}]]
  /\ UNCHANGED <<database, published, broker, failures>>

(* Mutant: ids once stored are remembered for ever, as an in-memory set.   *)
PublishNextOnce(p) ==
  LET d == drains[p]  row == NextRow(d)  seen == row.id \in ToSet(stream) IN
  /\ d.todo # {}
  /\ row.id \notin window
  /\ stream' = IF seen THEN stream ELSE Append(stream, row.id)
  /\ window' = IF seen THEN window ELSE window \union {row.id}
  /\ drains' = [drains EXCEPT ![p].todo = @ \ {row},
                             ![p].marks = IF seen THEN @ ELSE @ \union {row.id}]
  /\ UNCHANGED <<database, published, failures>>

(* publish: stored and acknowledged, and then marked in the session.       *)
PublishNext(p) ==
  LET d == drains[p]  row == NextRow(d) IN
  /\ d.todo # {}
  /\ row.id \notin window
  /\ stream' = Append(stream, row.id)
  /\ window' = window \union {row.id}
  /\ drains' = [drains EXCEPT ![p].todo = @ \ {row},
                             ![p].marks = @ \union {row.id}]
  /\ UNCHANGED <<database, published, failures>>

(* publish returns False for a duplicate: the row is not marked.           *)
PublishDuplicate(p) ==
  LET d == drains[p]  row == NextRow(d) IN
  /\ d.todo # {}
  /\ row.id \in window
  /\ drains' = [drains EXCEPT ![p].todo = @ \ {row}]
  /\ UNCHANGED <<database, published, broker, failures>>

(* Mutant: the session ends without a commit.                              *)
FinishWithoutCommit(p) ==
  /\ drains[p].active
  /\ drains[p].todo = {}
  /\ drains' = [drains EXCEPT ![p] = NoDrain]
  /\ UNCHANGED <<database, published, broker, failures>>

FinishDrain(p) ==
  /\ drains[p].active
  /\ drains[p].todo = {}
  /\ published' = published \union drains[p].marks
  /\ drains' = [drains EXCEPT ![p] = NoDrain]
  /\ UNCHANGED <<database, broker, failures>>

(* Mutants: a failed row is marked all the same, or passed over.           *)
AbandonMarking(p) ==
  /\ drains[p].todo # {}
  /\ failures < MaxFailures
  /\ failures' = failures + 1
  /\ published' = published \union drains[p].marks \union {NextRow(drains[p]).id}
  /\ drains' = [drains EXCEPT ![p] = NoDrain]
  /\ UNCHANGED <<database, broker>>

AbandonRowOnly(p) ==
  /\ drains[p].todo # {}
  /\ failures < MaxFailures
  /\ failures' = failures + 1
  /\ drains' = [drains EXCEPT ![p].todo = @ \ {NextRow(drains[p])}]
  /\ UNCHANGED <<database, published, broker>>

(* publish raised, the commit failed or the process died: every mark of    *)
(* the session is rolled back, what the broker stored stays stored.  (A    *)
(* publish stored without an acknowledgement is PublishNext before this.)  *)
Abandon(p) ==
  /\ drains[p].active
  /\ failures < MaxFailures
  /\ failures' = failures + 1
  /\ drains' = [drains EXCEPT ![p] = NoDrain]
  /\ UNCHANGED <<database, published, broker>>

(* StreamConfig.dedup_window_seconds have passed since the id was stored.  *)
WindowExpires(id) ==
  /\ id \in window
  /\ window' = window \ {id}
  /\ UNCHANGED <<database, published, drains, stream, failures>>

-----------------------------------------------------------------------------
Drains(p) ==
  StartDrain(p) \/ PublishNext(p) \/ PublishDuplicate(p) \/ FinishDrain(p)

Next ==
  \/ \E a \in Aggregates :
       \/ AppendAhead(a)
       \/ \E built \in Begun(a) \union {{}} : AppendRow(a, built)
  \/ \E t \in writing : CommitRows(t) \/ RollBack(t)
  \/ \E p \in Publishers : Drains(p) \/ Abandon(p)
  \/ \E id \in Ids : WindowExpires(id)

Spec == Init /\ [][Next]_vars

(* Some scheduler outside this code calls drain again and again, calls     *)
(* return, and time passes.                                                *)
Fairness ==
  /\ \A p \in Publishers : WF_vars(Drains(p))
  /\ \A id \in Ids : WF_vars(WindowExpires(id))

FairSpec == Spec /\ Fairness

-----------------------------------------------------------------------------
(* Properties.                                                             *)

Committed(id) == \E row \in rows : row.id = id

(* A row is recorded as published only if the broker stored its event,     *)
(* whichever drains failed, overlapped or were rolled back on the way.     *)
PublishedWasStored == published \subseteq ToSet(stream)

(* One row is before another of its aggregate if it was committed when the *)
(* other was built, or built before it in one transaction.                 *)
Before(early, late) ==
  /\ early.aggregate = late.aggregate
  /\ \/ early.committed < late.id
     \/ early.batch = late.batch /\ early.id < late.id

(* The first copy of an event comes after a copy of every event that was   *)
(* before it, whichever drains overlap, fail or are rolled back.  Of two   *)
(* transactions that overlapped nothing is promised: one that built the    *)
(* earlier event may commit after the other's was published.               *)
FirstCopiesInOrder ==
  \A early, late \in rows : Before(early, late) =>
    \A i \in DOMAIN stream :
      stream[i] = late.id => \E j \in 1 .. i - 1 : stream[j] = early.id

Copies(id) == {i \in DOMAIN stream : stream[i] = id}

(* Extra copies of an event are paid for: each comes from a drain that was *)
(* rolled back, or from publishers that overlapped (each commits it once). *)
CopiesArePaidFor ==
  \A id \in Ids :
    Cardinality(Copies(id)) <= failures + Cardinality(Publishers)

(* Every row is marked in the end, also one that commits after events      *)
(* created later have been published; a row whose mark was rolled back is  *)
(* skipped as a duplicate until the window forgets it, and then settles.   *)
EventuallyPublished ==
  \A id \in Ids : Committed(id) ~> id \in published
=============================================================================
