---------------------------- MODULE AuthorityStores ----------------------------
(***************************************************************************)
(* The stores of authoritative records: infrastructure/db/repositories.py  *)
(* and the in-memory stores of runtime/ beside their counterparts over SQL *)
(* (infrastructure/db/repositories_sql.py).  Tests run on the former, the  *)
(* service on the latter: here both are put the same calls.                *)
(*                                                                         *)
(* A behaviour is about one kind of record ("kind").  A record is what the *)
(* stores look at: its number (the revision, or the turn_no of a turn) and *)
(* the fencing token of its lease.  Repositories that exist over SQL only  *)
(* are held against the in-memory one that their methods name.             *)
(***************************************************************************)
EXTENDS Orders, SequencesExt

CONSTANTS
  Ids,      \* identities of records
  Numbers,  \* revisions, or turn numbers
  Fencings, \* fencing tokens
  Events,   \* event ids
  Moments,  \* values of created_at
  MaxMarks  \* bound: how often one event is marked published

ASSUME StoresAssumption ==
  Fencings \subseteq Nat /\ MaxMarks \in Nat /\ Numbers \subseteq Int /\ Moments \subseteq Int

VARIABLES
  kind,     \* the kind of record this behaviour is about
  records,  \* in memory: the record of each id
  arrived,  \* in memory: the ids in the order they were added
  rows,     \* SQL: the row of each id
  created,  \* SQL: the column created_at of each row, where a list is by it
  answers,  \* what the two stores last answered
  appended, \* in memory: the outbox entries in order
  sent,     \* in memory: the events marked as published
  outbox    \* SQL: the rows of the outbox table

storeVars == <<kind, records, arrived, rows, created, answers, appended, sent, outbox>>

-----------------------------------------------------------------------------
(* What each repository offers: updates under compare-and-swap or none,    *)
(* with a fencing token or without, and the column its lists are in the    *)
(* order of.                                                               *)
SqlRunRecordRepository       == [updates |-> TRUE,  fenced |-> TRUE,  by |-> "none"]
SqlTaskStateRepository       == [updates |-> TRUE,  fenced |-> FALSE, by |-> "none"]
SqlAdmissionResultRepository == [updates |-> FALSE, fenced |-> FALSE, by |-> "none"]
SqlActionRecordRepository    == [updates |-> TRUE,  fenced |-> TRUE,  by |-> "created"]
SqlActionReceiptRepository   == [updates |-> FALSE, fenced |-> FALSE, by |-> "created"]
SqlTurnRecordRepository      == [updates |-> FALSE, fenced |-> FALSE, by |-> "number"]
SqlMemoryRecordRepository    == [updates |-> FALSE, fenced |-> FALSE, by |-> "created"]

Repositories ==
  [run       |-> SqlRunRecordRepository,
   task      |-> SqlTaskStateRepository,
   admission |-> SqlAdmissionResultRepository,
   action    |-> SqlActionRecordRepository,
   receipt   |-> SqlActionReceiptRepository,
   turn      |-> SqlTurnRecordRepository,
   memory    |-> SqlMemoryRecordRepository]

Repository == Repositories[kind]

NoRecordOf == [number |-> 0]

NoLease == 0

StoredRecords == [number : Numbers, lease : Fencings \union {NoLease}]

(* No token was presented, or no revision was expected.                    *)
Unasked == 0

(* _record_to_row and _record_from_row.  The payload holds the whole       *)
(* record; the column lease_fencing_token is NULL, or {}, without a lease. *)
(* No update writes created_at, which is in created.                       *)
Row(record) ==
  [number  |-> record.number,
   token   |-> {record.lease} \ {NoLease},
   payload |-> record]

NoRow == [number |-> 0]

NoMoment == 0

FromRow(row) == IF row = NoRow THEN NoRecordOf ELSE row.payload

-----------------------------------------------------------------------------
(* In memory.  The checks come one by one, and each raises.                *)
CreateInMemory(id) == IF records[id] = NoRecordOf THEN "done" ELSE "exists"

UpdateInMemory(id, expected, token) ==
  IF records[id] = NoRecordOf THEN "not found"
  ELSE IF expected \notin {Unasked, records[id].number} THEN "revision conflict"
  ELSE IF token # Unasked /\ token < records[id].lease THEN "stale fencing"
  ELSE "done"

(* Over SQL.  One conditional UPDATE; when it matched no row, the row is   *)
(* looked at to say why.                                                   *)
CreateInSql(id) == IF rows[id] = NoRow THEN "done" ELSE "exists"

(* Mutant: the token of the lease itself counts as stale.                  *)
TokenPassesStrictly(row, token) ==
  token = Unasked \/ \A current \in row.token : current < token

TokenPasses(row, token) ==
  token = Unasked \/ \A current \in row.token : current <= token

UpdateInSql(id, expected, token) ==
  IF rows[id] # NoRow /\ expected \in {Unasked, rows[id].number}
                      /\ TokenPasses(rows[id], token) THEN "done"
  ELSE IF rows[id] = NoRow THEN "not found"
  ELSE IF ~ TokenPasses(rows[id], token) THEN "stale fencing"
  ELSE "revision conflict"

-----------------------------------------------------------------------------
(* The caller says what created_at is: the created_at of a run, an action  *)
(* or a turn, the finished_at of a receipt, the valid_from of a memory; if *)
(* it leaves it out, the clock does.                                       *)
Create(id, record, moment) ==
  /\ answers' = <<CreateInMemory(id), CreateInSql(id)>>
  /\ records' = IF answers'[1] = "done" THEN [records EXCEPT ![id] = record] ELSE records
  /\ arrived' = IF answers'[1] = "done" THEN Append(arrived, id) ELSE arrived
  /\ rows' = IF answers'[2] = "done" THEN [rows EXCEPT ![id] = Row(record)] ELSE rows
  /\ created' = IF answers'[2] = "done" THEN [created EXCEPT ![id] = moment] ELSE created
  /\ UNCHANGED <<kind, appended, sent, outbox>>

Update(id, record, expected, token) ==
  /\ Repository.updates
  /\ token # Unasked => Repository.fenced
  /\ answers' = <<UpdateInMemory(id, expected, token), UpdateInSql(id, expected, token)>>
  /\ records' = IF answers'[1] = "done" THEN [records EXCEPT ![id] = record] ELSE records
  /\ rows' = IF answers'[2] = "done" THEN [rows EXCEPT ![id] = Row(record)] ELSE rows
  /\ UNCHANGED <<kind, arrived, created, appended, sent, outbox>>

(* for_run and for_subject in memory; list_for_run, list_for_key and       *)
(* list_for_subject over SQL.                                              *)
ListedInMemory == arrived

TimesToList == IF Repository.by = "created" THEN Moments ELSE {NoMoment}

SortKey(id) == IF Repository.by = "number" THEN rows[id].number ELSE created[id]

ListedInSql == OrderedBy(Range(arrived), [id \in Range(arrived) |-> SortKey(id)])

-----------------------------------------------------------------------------
(* The outbox.  An entry has more fields than its table has columns: the   *)
(* release stands for those that _entry_from_row leaves empty.             *)
NoRelease == "none"

EventsIn == {appended[i].event : i \in DOMAIN appended}

RowOf(event) == CHOOSE row \in outbox : row.event = event

InOutbox(event) == \E row \in outbox : row.event = event

AppendEntry(entry) ==
  /\ answers' = <<IF entry.event \in EventsIn THEN "exists" ELSE "done",
                  IF InOutbox(entry.event) THEN "exists" ELSE "done">>
  /\ appended' = IF answers'[1] = "done" THEN Append(appended, entry) ELSE appended
  /\ outbox' = IF answers'[2] = "done"
                 THEN outbox \union {[event |-> entry.event, moment |-> entry.moment,
                                      published |-> FALSE, marks |-> 0]}
                 ELSE outbox
  /\ UNCHANGED <<kind, records, arrived, rows, created, sent>>

(* Over SQL a second mark counts once more and moves published_at.         *)
MarkPublished(event) ==
  /\ InOutbox(event) => RowOf(event).marks < MaxMarks
  /\ answers' = <<IF event \in EventsIn THEN "done" ELSE "not found",
                  IF InOutbox(event) THEN "done" ELSE "not found">>
  /\ sent' = IF answers'[1] = "done" THEN sent \union {event} ELSE sent
  /\ outbox' = {IF row.event = event
                  THEN [row EXCEPT !.published = TRUE, !.marks = @ + 1]
                  ELSE row : row \in outbox}
  /\ UNCHANGED <<kind, records, arrived, rows, created, appended>>

UnpublishedInMemory == Filter(appended, LAMBDA entry : entry.event \notin sent)

(* _entry_from_row                                                         *)
EntryFromRow(row) == [event |-> row.event, moment |-> row.moment, release |-> NoRelease]

UnpublishedInSql ==
  LET entries == {EntryFromRow(row) : row \in {r \in outbox : ~ r.published}} IN
  OrderedBy(entries, [entry \in entries |-> entry.moment])

DedupeInMemory(event) == event \in sent

DedupeInSql(event) == \E row \in outbox : row.event = event /\ row.published

-----------------------------------------------------------------------------
StoresInit ==
  /\ kind \in DOMAIN Repositories \union {"outbox"}
  /\ records  = [id \in Ids |-> NoRecordOf]
  /\ arrived  = <<>>
  /\ rows     = [id \in Ids |-> NoRow]
  /\ created  = [id \in Ids |-> NoMoment]
  /\ answers  = <<"none", "none">>
  /\ appended = <<>>
  /\ sent     = {}
  /\ outbox   = {}

StoresNext ==
  \/ /\ kind # "outbox"
     /\ \E id \in Ids, record \in StoredRecords :
          \/ \E moment \in TimesToList : Create(id, record, moment)
          \/ \E expected \in Numbers \union {Unasked}, token \in Fencings \union {Unasked} :
               Update(id, record, expected, token)
  \/ /\ kind = "outbox"
     /\ \E event \in Events :
          \/ \E moment \in Moments, release \in {"r", NoRelease} :
               AppendEntry([event |-> event, moment |-> moment, release |-> release])
          \/ MarkPublished(event)

StoresSpec == StoresInit /\ [][StoresNext]_storeVars

-----------------------------------------------------------------------------
StoresTypeOK ==
  /\ records \in [Ids -> StoredRecords \union {NoRecordOf}]
  /\ rows \in [Ids -> {Row(record) : record \in StoredRecords} \union {NoRow}]
  /\ created \in [Ids -> Moments \union {NoMoment}]
  /\ arrived \in Seq(Ids)
  /\ sent \subseteq Events
  /\ \A row \in outbox : row.event \in Events /\ row.marks \in 0 .. MaxMarks

SameRecords == \A id \in Ids : FromRow(rows[id]) = records[id]

SameAnswers ==
  answers[1] # answers[2] => answers = <<"revision conflict", "stale fencing">>

SamePublished == \A event \in Events : DedupeInSql(event) <=> DedupeInMemory(event)

(* What a list is in the order of rises with each record that was added.   *)
AddedInOrder ==
  \A i \in 2 .. Len(arrived) : SortKey(arrived[i - 1]) < SortKey(arrived[i])

(* A list over SQL misses no record and adds none; it is in the order of   *)
(* the one in memory if the caller's times, or the numbers of its turns,   *)
(* rise as the records are added.                                          *)
SameLists ==
  /\ Range(ListedInSql) = Range(ListedInMemory)
  /\ AddedInOrder => ListedInSql = ListedInMemory

(* Code that was tried on the in-memory repositories finds the same over   *)
(* SQL: after any sequence of calls both hold the same records, and both   *)
(* did what the last call asked or both refused it.  Only when a revision  *)
(* and a token are wrong at once do they name different reasons, and only  *)
(* records that were not added at rising times are listed differently.     *)
StoresAgree ==
  /\ SameRecords
  /\ SameAnswers
  /\ (kind \in DOMAIN Repositories /\ Repository.by # "none") => SameLists

(* The two outboxes hand over the same events and know the same ones as    *)
(* published, in the same order if they were appended at rising times; of  *)
(* an entry SQL loses the release and nothing else.                        *)
OutboxesAgree ==
  LET kept == [i \in DOMAIN UnpublishedInMemory |->
                 [UnpublishedInMemory[i] EXCEPT !.release = NoRelease]]
  IN
  /\ answers[1] = "exists" <=> answers[2] = "exists"
  /\ SamePublished
  /\ Range(UnpublishedInSql) = Range(kept)
  /\ (\A i \in 2 .. Len(appended) : appended[i - 1].moment < appended[i].moment)
       => UnpublishedInSql = kept

(* Both sets of repositories give their callers the same answers.          *)
StoresAgreeThroughout == StoresAgree /\ OutboxesAgree
=============================================================================
