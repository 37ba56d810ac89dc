------------------------ MODULE ActionCoordinatorProofs ------------------------
(***************************************************************************)
(* Theorems about ActionCoordinator for all callers, keys, tokens and      *)
(* bounds.  Types need no assumption; the promises about side effects need *)
(* that one caller at most works on a key, which is what Exclusive says.   *)
(***************************************************************************)
EXTENDS ActionCoordinator, TLAPS

-----------------------------------------------------------------------------
(* The inductive invariant.                                                *)

(* A record whose execution was begun and which no retry takes up again.   *)
Past(rec) ==
  \/ rec.phase \in {"executing", "reconciling"}
  \/ rec.phase = "terminal" /\ rec.disposition # "failed"

(* A record whose current attempt was not begun yet.                       *)
Early(rec) == rec.phase \notin {"executing", "reconciling", "terminal"}

WellEnded(rec) == rec.phase = "terminal" <=> rec.disposition # NoDisposition

Denied(rec) == rec.phase = "terminal" /\ rec.disposition = "denied"

(* Nobody shares a key.                                                    *)
Apart ==
  \A c, d \in Callers :
    (Holds(c) /\ Holds(d) /\ hand[c].key = hand[d].key) => c = d

(* The stored record of a key, its side effect and the decisions.  It      *)
(* never says executed or failed: such records are only returned.          *)
KeyOK(k) ==
  /\ effects[k] \in {0, 1}
  /\ effects[k] = 1 => Past(store[k])
  /\ k \in denied => effects[k] = 0 /\ Denied(store[k])
  /\ store[k] # NoRecord =>
       /\ WellEnded(store[k])
       /\ store[k].disposition \notin {"executed", "failed"}

(* The copy a caller holds, its tool call and the stored record.           *)
CopyOK(k, rec, tool) ==
  /\ WellEnded(rec)
  /\ effects[k] = 1 => Past(rec) /\ tool # "may_run"
  /\ tool # "idle" => Past(rec) /\ Past(store[k])
  /\ rec.phase \in {"executing", "reconciling"} => ~ Early(store[k])
  /\ tool = "succeeded" => effects[k] = 1
  /\ tool = "failed" => effects[k] = 0
  /\ rec.disposition = "executed" => effects[k] = 1
  /\ rec.disposition = "failed" => effects[k] = 0 /\ tool # "may_run"
  /\ k \in denied => Denied(rec) /\ tool # "may_run"
  /\ store[k] # NoRecord
  /\ store[k].revision <= rec.revision + 1
  /\ store[k].attempt = rec.attempt

(* Receipts belong to the attempts so far; before an attempt is begun none *)
(* knows how it ended, and while it may still succeed none says it failed. *)
ReceiptsOK(k) ==
  \A r \in receipts : r.key = k =>
    /\ store[k] # NoRecord
    /\ r.attempt <= store[k].attempt
    /\ Early(store[k]) /\ r.status # "unknown" => r.attempt < store[k].attempt
    /\ r.status = "succeeded" => effects[k] = 1

CopyReceiptsOK(k, rec, tool) ==
  \A r \in receipts : r.key = k =>
    /\ Early(rec) /\ r.status # "unknown" => r.attempt < rec.attempt
    /\ tool \in {"may_run", "succeeded"} =>
         ~ (r.attempt = rec.attempt /\ r.status = "failed")

HandOK(c) ==
  Holds(c) => CopyOK(hand[c].key, hand[c].rec, hand[c].tool)

HandReceiptsOK(c) ==
  Holds(c) => CopyReceiptsOK(hand[c].key, hand[c].rec, hand[c].tool)

Safe ==
  /\ Apart
  /\ \A k \in Keys : KeyOK(k) /\ ReceiptsOK(k)
  /\ \A c \in Callers : HandOK(c) /\ HandReceiptsOK(c)
  /\ ReceiptsAgree

IInv == TypeOK /\ Safe

-----------------------------------------------------------------------------
(* Types.                                                                  *)

LEMMA HandTyped ==
  ASSUME TypeOK, NEW c \in Callers, Holds(c)
  PROVE  /\ hand[c] \in Hands
         /\ hand[c].key \in Keys
         /\ hand[c].rec \in Record
         /\ hand[c].tool \in ToolStates
         /\ hand[c] = [key |-> hand[c].key, rec |-> hand[c].rec,
                       tool |-> hand[c].tool]
<1>1. hand[c] \in Hands
  BY DEF TypeOK, Holds
<1> QED
  BY <1>1 DEF Hands

LEMMA StoreTyped ==
  ASSUME TypeOK, NEW k \in Keys, store[k] # NoRecord
  PROVE  store[k] \in Record
BY DEF TypeOK

LEMMA NewActionTyped == NewAction \in Record
BY DEF NewAction, Record, Phases, NoDisposition, NoToken

LEMMA MovedTyped ==
  ASSUME NEW rec \in Record, NEW phase \in Phases
  PROVE  /\ Moved(rec, phase) \in Record
         /\ Moved(rec, phase).phase = phase
         /\ Moved(rec, phase).disposition = rec.disposition
         /\ Moved(rec, phase).attempt = rec.attempt
         /\ Moved(rec, phase).revision = rec.revision + 1
<1>1. rec.revision + 1 \in Nat \ {0}
  BY DEF Record
<1>2. Moved(rec, phase) \in Record
  BY <1>1 DEF Moved, Record
<1> QED
  BY <1>2 DEF Moved, Record

LEMMA EndedTyped ==
  ASSUME NEW rec \in Record, NEW disposition \in Dispositions
  PROVE  /\ Ended(rec, disposition) \in Record
         /\ Ended(rec, disposition).phase = "terminal"
         /\ Ended(rec, disposition).disposition = disposition
         /\ Ended(rec, disposition).attempt = rec.attempt
         /\ Ended(rec, disposition).revision = rec.revision + 1
<1>1. rec.revision + 1 \in Nat \ {0} /\ "terminal" \in Phases
  BY DEF Record, Phases
<1>2. Ended(rec, disposition) \in Record
  BY <1>1 DEF Ended, Record
<1> QED
  BY <1>2 DEF Ended, Record

LEMMA TokenTyped ==
  ASSUME NEW rec \in Record, NEW token \in Tokens \union {NoToken}
  PROVE  /\ [rec EXCEPT !.token = token] \in Record
         /\ [rec EXCEPT !.token = token].phase = rec.phase
         /\ [rec EXCEPT !.token = token].disposition = rec.disposition
         /\ [rec EXCEPT !.token = token].attempt = rec.attempt
         /\ [rec EXCEPT !.token = token].revision = rec.revision
BY ActionAssumption DEF Record, NoToken

LEMMA RetriedTyped ==
  ASSUME NEW rec \in Record
  PROVE  /\ Retried(rec) \in Record
         /\ Retried(rec).phase = "reserved"
         /\ Retried(rec).disposition = NoDisposition
         /\ Retried(rec).attempt = rec.attempt + 1
         /\ Retried(rec).revision = rec.revision + 1
<1>1. /\ rec.revision + 1 \in Nat \ {0}
      /\ rec.attempt + 1 \in Nat \ {0}
      /\ "reserved" \in Phases
  BY DEF Record, Phases
<1>2. Retried(rec) \in Record
  BY <1>1 DEF Retried, Record
<1> QED
  BY <1>2 DEF Retried, Record

(* What a decision makes of a record: denied, or not begun yet.            *)
LEMMA AuthorizedInRecord ==
  ASSUME NEW rec \in Record, NEW outcome \in Outcomes
  PROVE  Authorized(rec, outcome) \in Record
<1>1. /\ "authorizing" \in Phases /\ "waiting_approval" \in Phases
      /\ "reserved" \in Phases /\ "denied" \in Dispositions
  BY DEF Phases, Dispositions
<1>2. Moved(rec, "authorizing") \in Record
  BY <1>1, MovedTyped
<1> QED
  BY <1>1, <1>2, MovedTyped, EndedTyped DEF Authorized, Outcomes

LEMMA AuthorizedTyped ==
  ASSUME NEW rec \in Record, NEW outcome \in Outcomes,
         rec.disposition = NoDisposition
  PROVE  /\ Authorized(rec, outcome) \in Record
         /\ WellEnded(Authorized(rec, outcome))
         /\ Authorized(rec, outcome).attempt = rec.attempt
         /\ Authorized(rec, outcome).revision >= rec.revision + 1
         /\ IF outcome = "deny" THEN Denied(Authorized(rec, outcome))
                                ELSE Early(Authorized(rec, outcome))
         /\ Authorized(rec, outcome).disposition \notin {"executed", "failed"}
<1> DEFINE moved == Moved(rec, "authorizing")
<1>1. /\ moved \in Record
      /\ moved.disposition = NoDisposition
      /\ moved.attempt = rec.attempt
      /\ moved.revision = rec.revision + 1
  BY MovedTyped DEF Phases
<1>2. CASE outcome = "deny"
  <2>1. Authorized(rec, outcome) = Ended(moved, "denied")
    BY <1>2 DEF Authorized
  <2> HIDE DEF moved
  <2>2. "denied" \in Dispositions
    BY DEF Dispositions
  <2>3. /\ Authorized(rec, outcome) \in Record
        /\ Authorized(rec, outcome).phase = "terminal"
        /\ Authorized(rec, outcome).disposition = "denied"
        /\ Authorized(rec, outcome).attempt = rec.attempt
        /\ Authorized(rec, outcome).revision = rec.revision + 2
    BY <1>1, <2>1, <2>2, EndedTyped DEF Record
  <2> QED
    BY <1>2, <2>3 DEF NoDisposition, WellEnded, Denied, Record
<1>3. ASSUME NEW phase \in {"waiting_approval", "reserved"},
             Authorized(rec, outcome) = Moved(moved, phase),
             outcome # "deny"
      PROVE  /\ Authorized(rec, outcome) \in Record
             /\ WellEnded(Authorized(rec, outcome))
             /\ Authorized(rec, outcome).attempt = rec.attempt
             /\ Authorized(rec, outcome).revision >= rec.revision + 1
             /\ Early(Authorized(rec, outcome))
             /\ Authorized(rec, outcome).disposition = NoDisposition
  <2> HIDE DEF moved
  <2>1. phase \in Phases
    BY DEF Phases
  <2> QED
    BY <1>1, <1>3, <2>1, MovedTyped DEF WellEnded, Early, Record
<1>4. CASE outcome = "require_approval"
  <2>1. Authorized(rec, outcome) = Moved(moved, "waiting_approval")
    BY <1>4 DEF Authorized
  <2> QED
    BY <1>3, <1>4, <2>1 DEF NoDisposition
<1>5. CASE outcome = "allow"
  <2>1. Authorized(rec, outcome) = Moved(moved, "reserved")
    BY <1>5 DEF Authorized
  <2> QED
    BY <1>3, <1>5, <2>1 DEF NoDisposition
<1> QED
  BY <1>2, <1>4, <1>5 DEF Outcomes

LEMMA StoreUpdate ==
  ASSUME TypeOK, NEW k \in Keys, NEW rec \in Record,
         store' = [store EXCEPT ![k] = rec]
  PROVE  /\ store' \in [Keys -> Record \union {NoRecord}]
         /\ store'[k] = rec
         /\ store'[k] # NoRecord
         /\ \A j \in Keys \ {k} : store'[j] = store[j]
<1>1. NoRecord \notin Record
  BY DEF NoRecord, Record, Phases
<1> QED
  BY <1>1 DEF TypeOK

LEMMA HoldStep ==
  ASSUME TypeOK, NEW c \in Callers, NEW k \in Keys, NEW rec \in Record,
         NEW tool \in ToolStates, Hold(c, k, rec, tool)
  PROVE  /\ hand' \in [Callers -> Hands \union {Free}]
         /\ hand'[c].key = k
         /\ hand'[c].rec = rec
         /\ hand'[c].tool = tool
         /\ \A d \in Callers \ {c} : hand'[d] = hand[d]
<1> DEFINE h == [key |-> k, rec |-> rec, tool |-> tool]
<1>1. h \in Hands
  BY DEF Hands
<1>2. h.key = k /\ h.rec = rec /\ h.tool = tool
  OBVIOUS
<1>3. hand' = [hand EXCEPT ![c] = h]
  BY DEF Hold
<1> HIDE DEF h
<1>4. /\ hand' \in [Callers -> Hands \union {Free}]
      /\ hand'[c] = h
      /\ \A d \in Callers \ {c} : hand'[d] = hand[d]
  BY <1>1, <1>3 DEF TypeOK
<1> QED
  BY <1>2, <1>4

LEMMA StoreStep ==
  ASSUME TypeOK, NEW c \in Callers, Holds(c), NEW rec \in Record, Store(c, rec)
  PROVE  /\ hand' \in [Callers -> Hands \union {Free}]
         /\ store' \in [Keys -> Record \union {NoRecord}]
         /\ store'[hand[c].key] = rec
         /\ store'[hand[c].key] # NoRecord
         /\ hand'[c].key = hand[c].key
         /\ hand'[c].rec = rec
         /\ hand'[c].tool = hand[c].tool
         /\ \A d \in Callers \ {c} : hand'[d] = hand[d]
         /\ \A j \in Keys \ {hand[c].key} : store'[j] = store[j]
<1>1. hand[c].key \in Keys /\ hand[c].tool \in ToolStates
  BY HandTyped
<1>2. /\ store' = [store EXCEPT ![hand[c].key] = rec]
      /\ Hold(c, hand[c].key, rec, hand[c].tool)
  BY DEF Store
<1>3. /\ store' \in [Keys -> Record \union {NoRecord}]
      /\ store'[hand[c].key] = rec
      /\ store'[hand[c].key] # NoRecord
      /\ \A j \in Keys \ {hand[c].key} : store'[j] = store[j]
  BY <1>1, <1>2, StoreUpdate
<1> QED
  BY <1>1, <1>2, <1>3, HoldStep

LEMMA BegunTyped ==
  ASSUME NEW rec \in Record, NEW token \in Tokens \union {NoToken}
  PROVE  /\ Begun(rec, token) \in Record
         /\ Begun(rec, token).phase = "executing"
         /\ Begun(rec, token).disposition = rec.disposition
         /\ Begun(rec, token).attempt = rec.attempt
         /\ Begun(rec, token).revision = rec.revision + 1
<1> DEFINE moved == Moved(rec, "executing")
<1>1. /\ moved \in Record
      /\ moved.phase = "executing"
      /\ moved.disposition = rec.disposition
      /\ moved.attempt = rec.attempt
      /\ moved.revision = rec.revision + 1
  BY MovedTyped DEF Phases
<1>2. Begun(rec, token) = [moved EXCEPT !.token = token]
  BY DEF Begun
<1> HIDE DEF moved
<1>3. /\ [moved EXCEPT !.token = token] \in Record
      /\ [moved EXCEPT !.token = token].phase = moved.phase
      /\ [moved EXCEPT !.token = token].disposition = moved.disposition
      /\ [moved EXCEPT !.token = token].attempt = moved.attempt
      /\ [moved EXCEPT !.token = token].revision = moved.revision
  BY <1>1, TokenTyped
<1> QED
  BY <1>1, <1>2, <1>3

LEMMA ExecutingStep ==
  ASSUME TypeOK, NEW c \in Callers, Holds(c),
         NEW token \in Tokens \union {NoToken}, Executing(c, token)
  PROVE  \E rec \in Record :
           /\ store' = [store EXCEPT ![hand[c].key] = rec]
           /\ Hold(c, hand[c].key, rec, "may_run")
           /\ rec.phase = "executing"
           /\ rec.disposition = hand[c].rec.disposition
           /\ rec.attempt = hand[c].rec.attempt
           /\ rec.revision = hand[c].rec.revision + 1
<1>1. hand[c].rec \in Record
  BY HandTyped
<1> QED
  BY <1>1, BegunTyped DEF Executing

(* A receipt moves the copy, and the status decides how.                   *)
LEMMA AfterReceiptTyped ==
  ASSUME NEW rec \in Record, NEW status \in Statuses
  PROVE  /\ AfterReceipt(rec, status) \in Record
         /\ AfterReceipt(rec, status).attempt = rec.attempt
         /\ AfterReceipt(rec, status).revision = rec.revision + 1
         /\ status = "unknown" =>
              /\ AfterReceipt(rec, status).phase = "reconciling"
              /\ AfterReceipt(rec, status).disposition = rec.disposition
         /\ status # "unknown" =>
              /\ AfterReceipt(rec, status).phase = "terminal"
              /\ AfterReceipt(rec, status).disposition =
                   IF status = "succeeded" THEN "executed" ELSE "failed"
<1>1. CASE status = "unknown"
  <2>1. AfterReceipt(rec, status) = Moved(rec, "reconciling")
    BY <1>1 DEF AfterReceipt
  <2> QED
    BY <1>1, <2>1, MovedTyped DEF Phases
<1>2. CASE status = "succeeded"
  <2>1. AfterReceipt(rec, status) = Ended(rec, "executed")
    BY <1>2 DEF AfterReceipt
  <2> QED
    BY <1>2, <2>1, EndedTyped DEF Dispositions
<1>3. CASE status = "failed"
  <2>1. AfterReceipt(rec, status) = Ended(rec, "failed")
    BY <1>3 DEF AfterReceipt
  <2> QED
    BY <1>3, <2>1, EndedTyped DEF Dispositions
<1> QED
  BY <1>1, <1>2, <1>3 DEF Statuses

LEMMA ReportedTyped ==
  ASSUME NEW c \in Callers
  PROVE  Reported(c) \in Statuses
BY DEF Reported, Statuses


-----------------------------------------------------------------------------
(* What each action does, to types and to the record it moves.             *)

(* The actions that store what their caller then holds.                    *)
LEMMA ValidateTyped ==
  ASSUME TypeOK, NEW c \in Callers, NEW valid \in BOOLEAN, Validate(c, valid)
  PROVE  \E rec \in Record :
           /\ Store(c, rec)
           /\ rec.attempt = hand[c].rec.attempt
           /\ rec.revision = hand[c].rec.revision + 1
           /\ \/ /\ hand[c].rec.phase = "proposed"
                 /\ rec.phase = "validating"
                 /\ rec.disposition = hand[c].rec.disposition
              \/ /\ hand[c].rec.phase # "terminal"
                 /\ rec.phase = "terminal"
                 /\ rec.disposition = "invalid"
<1>1. hand[c].rec \in Record
  BY HandTyped DEF Validate, MayMove
<1>2. CASE valid
  <2>1. Store(c, Moved(hand[c].rec, "validating"))
    BY <1>2 DEF Validate
  <2>2. hand[c].rec.phase = "proposed"
    BY <1>2 DEF Validate, MayMove, Moves
  <2>3. "validating" \in Phases
    BY DEF Phases
  <2> QED
    BY <1>1, <2>1, <2>2, <2>3, MovedTyped
<1>3. CASE ~ valid
  <2>1. Store(c, Ended(hand[c].rec, "invalid"))
    BY <1>3 DEF Validate
  <2>2. hand[c].rec.phase # "terminal"
    BY <1>3 DEF Validate, MayMove, Moves
  <2>3. "invalid" \in Dispositions
    BY DEF Dispositions
  <2> QED
    BY <1>1, <2>1, <2>2, <2>3, EndedTyped
<1> QED
  BY <1>2, <1>3


LEMMA AuthorizeTyped ==
  ASSUME TypeOK, NEW c \in Callers, NEW outcome \in Outcomes,
         Authorize(c, outcome)
  PROVE  /\ Authorized(hand[c].rec, outcome) \in Record
         /\ Store(c, Authorized(hand[c].rec, outcome))
<1>1. hand[c].rec \in Record
  BY HandTyped DEF Authorize, MayMove
<1> QED
  BY <1>1, AuthorizedInRecord DEF Authorize

LEMMA ReserveTyped ==
  ASSUME TypeOK, NEW c \in Callers, NEW token \in Tokens \union {NoToken},
         Reserve(c, token)
  PROVE  \E rec \in Record :
           /\ Store(c, rec)
           /\ rec.attempt = hand[c].rec.attempt
           /\ rec.revision = hand[c].rec.revision + 1
           /\ hand[c].rec.phase = "authorizing"
           /\ rec.phase = "reserved"
           /\ rec.disposition = hand[c].rec.disposition
<1> DEFINE moved == Moved(hand[c].rec, "reserved")
<1>1. hand[c].rec \in Record
  BY HandTyped DEF Reserve, MayMove
<1>2. /\ moved \in Record
      /\ moved.phase = "reserved"
      /\ moved.disposition = hand[c].rec.disposition
      /\ moved.attempt = hand[c].rec.attempt
      /\ moved.revision = hand[c].rec.revision + 1
  BY <1>1, MovedTyped DEF Phases
<1>3. hand[c].rec.phase = "authorizing"
  BY DEF Reserve, MayMove, Moves
<1>4. Store(c, [moved EXCEPT !.token = token])
  BY DEF Reserve
<1> DEFINE rec == [moved EXCEPT !.token = token]
<1> HIDE DEF moved
<1>5. /\ rec \in Record
      /\ rec.phase = moved.phase
      /\ rec.disposition = moved.disposition
      /\ rec.attempt = moved.attempt
      /\ rec.revision = moved.revision
  BY <1>2, TokenTyped
<1> HIDE DEF rec
<1>6. Store(c, rec)
  BY <1>4 DEF rec
<1> QED
  BY <1>2, <1>3, <1>5, <1>6

LEMMA TypeStep == TypeOK /\ [Next]_vars => TypeOK'
<1> SUFFICES ASSUME TypeOK, [Next]_vars PROVE TypeOK'
  OBVIOUS
<1> USE DEF TypeOK
<1>1. ASSUME NEW c \in Callers, NEW rec \in Record, Holds(c), Store(c, rec),
             UNCHANGED <<receipts, deadlines, effects, now>>,
             denied' \subseteq Keys
      PROVE  TypeOK'
  BY <1>1, StoreStep
<1>2. ASSUME NEW c \in Callers, NEW k \in Keys
      PROVE  CreateAction(c, k) => TypeOK'
  <2> SUFFICES ASSUME CreateAction(c, k) PROVE TypeOK'
    OBVIOUS
  <2>1. "idle" \in ToolStates
    BY DEF ToolStates
  <2>2. CASE store[k] = NoRecord
    BY <2>1, <2>2, NewActionTyped, HoldStep, StoreUpdate DEF CreateAction
  <2>3. CASE store[k] # NoRecord
    BY <2>1, <2>3, StoreTyped, HoldStep DEF CreateAction
  <2> QED
    BY <2>2, <2>3
<1>3. ASSUME NEW c \in Callers, NEW k \in Keys, NEW outcome \in Outcomes
      PROVE  Submit(c, k, outcome) => TypeOK'
  <2> SUFFICES ASSUME Submit(c, k, outcome) PROVE TypeOK'
    OBVIOUS
  <2> DEFINE rec == IF store[k] = NoRecord THEN NewAction ELSE store[k]
             new == Authorized(Moved(rec, "validating"), outcome)
  <2>1. rec \in Record /\ "validating" \in Phases
    BY NewActionTyped, StoreTyped DEF Phases
  <2>2. Moved(rec, "validating") \in Record
    BY <2>1, MovedTyped
  <2>3. new \in Record
    BY <2>2, AuthorizedInRecord
  <2>4. store' = [store EXCEPT ![k] = new]
    BY DEF Submit
  <2> HIDE DEF new
  <2> QED
    BY <2>3, <2>4, StoreUpdate DEF Submit
<1>4. ASSUME NEW c \in Callers
      PROVE  LetGo(c) => TypeOK'
  BY DEF LetGo
<1>5. ASSUME NEW c \in Callers, NEW valid \in BOOLEAN
      PROVE  Validate(c, valid) => TypeOK'
  BY <1>1, ValidateTyped DEF Validate, MayMove
<1>6. ASSUME NEW c \in Callers, NEW outcome \in Outcomes
      PROVE  Authorize(c, outcome) => TypeOK'
  <2> SUFFICES ASSUME Authorize(c, outcome) PROVE TypeOK'
    OBVIOUS
  <2>1. hand[c].key \in Keys
    BY HandTyped DEF Authorize, MayMove
  <2> QED
    BY <1>1, <2>1, AuthorizeTyped DEF Authorize, MayMove
<1>7. ASSUME NEW c \in Callers
      PROVE  AuthorizeUnreferenced(c) => TypeOK'
  <2> SUFFICES ASSUME AuthorizeUnreferenced(c) PROVE TypeOK'
    OBVIOUS
  <2>1. hand[c].key \in Keys /\ hand[c].rec \in Record
    BY HandTyped DEF AuthorizeUnreferenced, MayMove
  <2>2. Moved(hand[c].rec, "authorizing") \in Record
    BY <2>1, MovedTyped DEF Phases
  <2> QED
    BY <2>1, <2>2, StoreUpdate DEF AuthorizeUnreferenced
<1>8. ASSUME NEW c \in Callers, NEW token \in Tokens \union {NoToken}
      PROVE  Reserve(c, token) => TypeOK'
  BY <1>1, ReserveTyped DEF Reserve, MayMove
<1>9. ASSUME NEW c \in Callers, NEW token \in Tokens \union {NoToken}
      PROVE  BeginExecution(c, token) \/ RenewLease(c, token) => TypeOK'
  <2> SUFFICES ASSUME BeginExecution(c, token) \/ RenewLease(c, token)
               PROVE  TypeOK'
    OBVIOUS
  <2>1. /\ Holds(c) /\ Executing(c, token)
        /\ UNCHANGED <<receipts, deadlines, effects, denied, now>>
    BY DEF BeginExecution, RenewLease, MayMove
  <2>2. hand[c].key \in Keys /\ "may_run" \in ToolStates
    BY <2>1, HandTyped DEF ToolStates
  <2> QED
    BY <2>1, <2>2, ExecutingStep, HoldStep, StoreUpdate
<1>10. ASSUME NEW c \in Callers, NEW moment \in 0 .. MaxTime
       PROVE  SetDeadline(c, moment) => TypeOK'
  <2> SUFFICES ASSUME SetDeadline(c, moment) PROVE TypeOK'
    OBVIOUS
  <2>1. moment \in 0 .. NoDeadline
    BY ActionAssumption DEF NoDeadline
  <2> QED
    BY <2>1 DEF SetDeadline
<1>11. ASSUME NEW c \in Callers, NEW status \in Statuses, NEW happened \in BOOLEAN
       PROVE  RunTool(c, status, happened) => TypeOK'
  <2> SUFFICES ASSUME RunTool(c, status, happened) PROVE TypeOK'
    OBVIOUS
  <2>1. /\ hand[c].key \in Keys /\ hand[c].rec \in Record
        /\ status \in ToolStates
    BY HandTyped DEF RunTool, ToolStates
  <2>2. effects' \in [Keys -> Nat]
    BY <2>1 DEF RunTool
  <2> QED
    BY <2>1, <2>2, HoldStep DEF RunTool
<1>12. ASSUME NEW c \in Callers
       PROVE  RecordReceipt(c) => TypeOK'
  <2> SUFFICES ASSUME RecordReceipt(c) PROVE TypeOK'
    OBVIOUS
  <2>1. /\ hand[c].key \in Keys /\ hand[c].rec \in Record
        /\ "idle" \in ToolStates /\ Reported(c) \in Statuses
    BY HandTyped, ReportedTyped DEF RecordReceipt, ToolStates
  <2>2. AfterReceipt(hand[c].rec, Reported(c)) \in Record
    BY <2>1, AfterReceiptTyped
  <2>3. Receipt(c) \in Receipts
    BY <2>1 DEF Receipt, Receipts, Record
  <2> QED
    BY <2>1, <2>2, <2>3, HoldStep DEF RecordReceipt
<1>17. ASSUME NEW c \in Callers
       PROVE  RefuseReceipt(c) => TypeOK'
  <2> SUFFICES ASSUME RefuseReceipt(c) PROVE TypeOK'
    OBVIOUS
  <2>1. /\ hand[c].key \in Keys /\ hand[c].rec \in Record
        /\ Reported(c) \in Statuses
    BY HandTyped, ReportedTyped DEF RefuseReceipt
  <2>2. Receipt(c) \in Receipts
    BY <2>1 DEF Receipt, Receipts, Record
  <2> QED
    BY <2>2 DEF RefuseReceipt
<1>13. ASSUME NEW c \in Callers
       PROVE  Reconcile(c) => TypeOK'
  <2> SUFFICES ASSUME Reconcile(c) PROVE TypeOK'
    OBVIOUS
  <2> DEFINE truth == IF effects[hand[c].key] > 0 THEN "executed" ELSE "failed"
  <2>1. /\ hand[c].key \in Keys /\ hand[c].rec \in Record
        /\ "idle" \in ToolStates /\ truth \in Dispositions
    BY HandTyped DEF Reconcile, MayMove, ToolStates, Dispositions
  <2>2. Ended(hand[c].rec, truth) \in Record
    BY <2>1, EndedTyped
  <2> QED
    BY <2>1, <2>2, HoldStep DEF Reconcile
<1>14. ASSUME NEW c \in Callers
       PROVE  Retry(c) => TypeOK'
  <2> SUFFICES ASSUME Retry(c) PROVE TypeOK'
    OBVIOUS
  <2>1. Retried(hand[c].rec) \in Record
    BY HandTyped, RetriedTyped DEF Retry
  <2> QED
    BY <1>1, <2>1 DEF Retry
<1>15. Tick => TypeOK'
  BY ActionAssumption DEF Tick
<1>16. UNCHANGED vars => TypeOK'
  BY DEF vars
<1> QED
  BY <1>2, <1>3, <1>4, <1>5, <1>6, <1>7, <1>8, <1>9, <1>10, <1>11, <1>12,
     <1>13, <1>14, <1>15, <1>16, <1>17 DEF Next

-----------------------------------------------------------------------------
(* Side effects.                                                           *)

(* A step of caller c on key k, which no other caller holds.               *)
Confined(c, k) ==
  /\ \A d \in Callers \ {c} :
       hand'[d] = hand[d] /\ (Holds(d) => hand[d].key # k)
  /\ \A j \in Keys \ {k} :
       /\ store'[j] = store[j]
       /\ effects'[j] = effects[j]
       /\ j \in denied' <=> j \in denied
  /\ \A r \in receipts' : r \in receipts \/ r.key = k
  /\ hand'[c] # Free => hand'[c].key = k

AgreeOn(k) ==
  \A r1, r2 \in receipts :
    (r1.key = k /\ r2.key = k /\ r1.attempt = r2.attempt)
      => ~ (r1.status = "succeeded" /\ r2.status = "failed")

(* So what holds of k and c after the step is all there is to show.        *)
LEMMA ConfinedStep ==
  ASSUME TypeOK, Safe, NEW c \in Callers, NEW k \in Keys, Confined(c, k),
         KeyOK(k)', ReceiptsOK(k)', HandOK(c)', HandReceiptsOK(c)', AgreeOn(k)'
  PROVE  Safe'
<1>1. Apart'
  BY DEF Safe, Apart, Confined, Holds
<1>2. ASSUME NEW j \in Keys, j # k
      PROVE  KeyOK(j)' /\ ReceiptsOK(j)'
  BY <1>2 DEF Safe, KeyOK, ReceiptsOK, Confined
<1>3. ASSUME NEW d \in Callers, d # c
      PROVE  HandOK(d)' /\ HandReceiptsOK(d)'
  <2>1. hand'[d] = hand[d]
    BY <1>3 DEF Confined
  <2>2. CASE ~ Holds(d)
    BY <2>1, <2>2 DEF HandOK, HandReceiptsOK, Holds
  <2>3. CASE Holds(d)
    <3>1. hand[d].key \in Keys /\ hand[d].key # k
      BY <1>3, <2>3, HandTyped DEF Confined
    <3>2. CopyOK(hand[d].key, hand[d].rec, hand[d].tool)
      BY <2>3 DEF Safe, HandOK
    <3>3. CopyReceiptsOK(hand[d].key, hand[d].rec, hand[d].tool)
      BY <2>3 DEF Safe, HandReceiptsOK
    <3>4. CopyOK(hand[d].key, hand[d].rec, hand[d].tool)'
      BY <2>1, <3>1, <3>2 DEF CopyOK, Confined
    <3>5. CopyReceiptsOK(hand[d].key, hand[d].rec, hand[d].tool)'
      BY <2>1, <3>1, <3>3 DEF CopyReceiptsOK, Confined
    <3> QED
      BY <3>4, <3>5 DEF HandOK, HandReceiptsOK
  <2> QED
    BY <2>2, <2>3
<1>4. ReceiptsAgree'
  BY DEF Safe, ReceiptsAgree, AgreeOn, Confined
<1> QED
  BY <1>1, <1>2, <1>3, <1>4 DEF Safe

(* What the invariant says of a key somebody works on.                     *)
LEMMA HeldFacts ==
  ASSUME IInv, NEW c \in Callers, Holds(c)
  PROVE  /\ hand[c].key \in Keys
         /\ hand[c].rec \in Record
         /\ hand[c].tool \in ToolStates
         /\ KeyOK(hand[c].key)
         /\ ReceiptsOK(hand[c].key)
         /\ CopyOK(hand[c].key, hand[c].rec, hand[c].tool)
         /\ CopyReceiptsOK(hand[c].key, hand[c].rec, hand[c].tool)
         /\ AgreeOn(hand[c].key)
         /\ \A d \in Callers \ {c} : Holds(d) => hand[d].key # hand[c].key
<1>1. /\ hand[c].key \in Keys
      /\ hand[c].rec \in Record
      /\ hand[c].tool \in ToolStates
  BY HandTyped DEF IInv
<1> QED
  BY <1>1 DEF IInv, Safe, HandOK, HandReceiptsOK, Apart, ReceiptsAgree, AgreeOn

(* A caller stores a new version of the record it holds.                   *)
LEMMA StoredSafely ==
  ASSUME IInv, TypeOK', NEW c \in Callers, NEW rec \in Record,
         NEW k \in Keys, k = hand[c].key,
         Holds(c), Store(c, rec), UNCHANGED <<receipts, effects>>,
         WellEnded(rec),
         rec.revision >= hand[c].rec.revision,
         rec.disposition \notin {"executed", "failed"},
         \/ denied' = denied /\ k \notin denied
         \/ /\ denied' = denied \union {k}
            /\ Denied(rec) /\ Early(hand[c].rec),
         \/ /\ rec.attempt = hand[c].rec.attempt
            /\ Early(hand[c].rec)
         \/ /\ rec.attempt = hand[c].rec.attempt
            /\ Past(hand[c].rec)
            /\ Past(rec)
         \/ /\ rec.attempt = hand[c].rec.attempt + 1
            /\ hand[c].rec.phase = "terminal"
            /\ hand[c].rec.disposition = "failed"
  PROVE  Safe'
<1>1. /\ hand[c].rec \in Record
      /\ KeyOK(k)
      /\ ReceiptsOK(k)
      /\ CopyOK(k, hand[c].rec, hand[c].tool)
      /\ CopyReceiptsOK(k, hand[c].rec, hand[c].tool)
      /\ AgreeOn(k)
      /\ \A d \in Callers \ {c} : Holds(d) => hand[d].key # k
  BY HeldFacts
<1>2. /\ store'[k] = rec
      /\ store'[k] # NoRecord
      /\ hand'[c].key = k
      /\ hand'[c].rec = rec
      /\ hand'[c].tool = hand[c].tool
      /\ \A d \in Callers \ {c} : hand'[d] = hand[d]
      /\ \A j \in Keys \ {k} : store'[j] = store[j]
  BY StoreStep DEF IInv
<1>3. /\ receipts' = receipts
      /\ effects' = effects
      /\ \A r \in receipts : r.attempt \in Nat
  BY DEF IInv, TypeOK, Receipts
<1>4. rec.attempt \in Nat /\ rec.revision \in Nat /\ hand[c].rec.attempt \in Nat
      /\ hand[c].rec.revision \in Nat
  BY <1>1 DEF Record
<1>5. /\ effects[k] = 1 => Past(rec) /\ hand[c].tool # "may_run"
      /\ hand[c].tool # "idle" => Past(rec)
  BY <1>1 DEF CopyOK, Past, Early
<1>6. KeyOK(k)'
  BY <1>1, <1>2, <1>5 DEF KeyOK, CopyOK, Past, Early, Denied
<1>7. ReceiptsOK(k)'
  <2> SUFFICES ASSUME NEW r \in receipts, r.key = k
               PROVE  /\ r.attempt <= rec.attempt
                      /\ Early(rec) /\ r.status # "unknown" => r.attempt < rec.attempt
                      /\ r.status = "succeeded" => effects[k] = 1
    BY <1>2, <1>3 DEF ReceiptsOK
  <2>1. /\ r.attempt <= hand[c].rec.attempt
        /\ r.status = "succeeded" => effects[k] = 1
    BY <1>1 DEF ReceiptsOK, CopyOK
  <2>2. Early(hand[c].rec) /\ r.status # "unknown" => r.attempt < hand[c].rec.attempt
    BY <1>1 DEF CopyReceiptsOK
  <2>3. Past(rec) => ~ Early(rec)
    BY DEF Past, Early
  <2> QED
    BY <1>3, <1>4, <2>1, <2>2, <2>3
<1>8. CopyOK(k, rec, hand[c].tool)'
  BY <1>1, <1>2, <1>3, <1>4, <1>5, <1>6 DEF CopyOK, KeyOK, Past, Early, Denied
<1>9. CopyReceiptsOK(k, rec, hand[c].tool)'
  <2>1. CASE rec.attempt = hand[c].rec.attempt
    BY <1>1, <1>2, <1>3, <1>4, <1>7, <2>1 DEF ReceiptsOK, CopyReceiptsOK
  <2>2. CASE rec.attempt = hand[c].rec.attempt + 1
    BY <1>1, <1>2, <1>3, <1>4, <1>7, <2>2 DEF ReceiptsOK, CopyReceiptsOK, CopyOK
  <2> QED
    BY <2>1, <2>2
<1>10. HandOK(c)' /\ HandReceiptsOK(c)'
  BY <1>2, <1>8, <1>9 DEF HandOK, HandReceiptsOK
<1>11. AgreeOn(k)'
  BY <1>1, <1>3 DEF AgreeOn
<1>12. Confined(c, k)
  BY <1>1, <1>2, <1>3 DEF Confined
<1> QED
  BY <1>1, <1>6, <1>7, <1>10, <1>11, <1>12, ConfinedStep DEF IInv

LEMMA ValidateSafe ==
  ASSUME IInv, TypeOK', NEW c \in Callers, NEW valid \in BOOLEAN,
         Validate(c, valid)
  PROVE  Safe'
<1>1. Holds(c) /\ UNCHANGED <<receipts, effects>> /\ denied' = denied
  BY DEF Validate, MayMove
<1>2. PICK k \in Keys : k = hand[c].key
  BY <1>1, HeldFacts
<1>3. hand[c].rec \in Record /\ CopyOK(k, hand[c].rec, hand[c].tool)
  BY <1>1, <1>2, HeldFacts
<1>4. PICK rec \in Record :
        /\ Store(c, rec)
        /\ rec.attempt = hand[c].rec.attempt
        /\ rec.revision = hand[c].rec.revision + 1
        /\ \/ /\ hand[c].rec.phase = "proposed"
              /\ rec.phase = "validating"
              /\ rec.disposition = hand[c].rec.disposition
           \/ /\ hand[c].rec.phase # "terminal"
              /\ rec.phase = "terminal"
              /\ rec.disposition = "invalid"
  BY ValidateTyped DEF IInv
<1>5. rec.revision >= hand[c].rec.revision
  BY <1>3, <1>4 DEF Record
<1>6. /\ WellEnded(rec)
      /\ rec.disposition \notin {"executed", "failed"}
      /\ k \notin denied
      /\ Early(hand[c].rec) \/ (Past(hand[c].rec) /\ Past(rec))
  BY <1>3, <1>4
     DEF CopyOK, WellEnded, Early, Past, Denied, NoDisposition, Record, Phases
<1> QED
  BY <1>1, <1>2, <1>4, <1>5, <1>6, StoredSafely

LEMMA ReserveSafe ==
  ASSUME IInv, TypeOK', NEW c \in Callers,
         NEW token \in Tokens \union {NoToken}, Reserve(c, token)
  PROVE  Safe'
<1>1. Holds(c) /\ UNCHANGED <<receipts, effects>> /\ denied' = denied
  BY DEF Reserve, MayMove
<1>2. PICK k \in Keys : k = hand[c].key
  BY <1>1, HeldFacts
<1>3. hand[c].rec \in Record /\ CopyOK(k, hand[c].rec, hand[c].tool)
  BY <1>1, <1>2, HeldFacts
<1>4. PICK rec \in Record :
        /\ Store(c, rec)
        /\ rec.attempt = hand[c].rec.attempt
        /\ rec.revision = hand[c].rec.revision + 1
        /\ hand[c].rec.phase = "authorizing"
        /\ rec.phase = "reserved"
        /\ rec.disposition = hand[c].rec.disposition
  BY ReserveTyped DEF IInv
<1>5. rec.revision >= hand[c].rec.revision
  BY <1>3, <1>4 DEF Record
<1>6. /\ WellEnded(rec)
      /\ rec.disposition \notin {"executed", "failed"}
      /\ k \notin denied
      /\ Early(hand[c].rec)
  BY <1>3, <1>4 DEF CopyOK, WellEnded, Early, Denied, NoDisposition
<1> QED
  BY <1>1, <1>2, <1>4, <1>5, <1>6, StoredSafely

LEMMA AuthorizeSafe ==
  ASSUME IInv, TypeOK', NEW c \in Callers, NEW outcome \in Outcomes,
         Authorize(c, outcome)
  PROVE  Safe'
<1>1. /\ Holds(c)
      /\ UNCHANGED <<receipts, effects>>
      /\ hand[c].rec.phase \in {"validating", "waiting_approval"}
  BY DEF Authorize, MayMove, Moves
<1>2. PICK k \in Keys : k = hand[c].key
  BY <1>1, HeldFacts
<1>3. hand[c].rec \in Record /\ CopyOK(k, hand[c].rec, hand[c].tool)
  BY <1>1, <1>2, HeldFacts
<1>4. Early(hand[c].rec) /\ hand[c].rec.disposition = NoDisposition /\ k \notin denied
  BY <1>1, <1>3 DEF CopyOK, WellEnded, Early, Denied
<1>5. PICK rec \in Record : rec = Authorized(hand[c].rec, outcome) /\ Store(c, rec)
  BY AuthorizeTyped DEF IInv
<1>6. /\ WellEnded(rec)
      /\ rec.attempt = hand[c].rec.attempt
      /\ rec.revision >= hand[c].rec.revision + 1
      /\ outcome = "deny" => Denied(rec)
      /\ rec.disposition \notin {"executed", "failed"}
  BY <1>3, <1>4, <1>5, AuthorizedTyped
<1>7. rec.revision >= hand[c].rec.revision
  BY <1>3, <1>5, <1>6 DEF Record
<1>8. \/ denied' = denied
      \/ outcome = "deny" /\ denied' = denied \union {k}
  BY <1>2 DEF Authorize
<1> QED
  BY <1>1, <1>2, <1>4, <1>5, <1>6, <1>7, <1>8, StoredSafely

LEMMA RetrySafe ==
  ASSUME IInv, TypeOK', NEW c \in Callers, Retry(c)
  PROVE  Safe'
<1>1. /\ Holds(c)
      /\ UNCHANGED <<receipts, effects>>
      /\ denied' = denied
      /\ hand[c].rec.phase = "terminal"
      /\ hand[c].rec.disposition = "failed"
      /\ Store(c, Retried(hand[c].rec))
  BY DEF Retry
<1>2. PICK k \in Keys : k = hand[c].key
  BY <1>1, HeldFacts
<1>3. hand[c].rec \in Record /\ CopyOK(k, hand[c].rec, hand[c].tool)
  BY <1>1, <1>2, HeldFacts
<1>4. PICK rec \in Record : rec = Retried(hand[c].rec)
  BY <1>3, RetriedTyped
<1>5. /\ rec.phase = "reserved"
      /\ rec.disposition = NoDisposition
      /\ rec.attempt = hand[c].rec.attempt + 1
      /\ rec.revision = hand[c].rec.revision + 1
  BY <1>3, <1>4, RetriedTyped
<1>6. /\ rec.revision >= hand[c].rec.revision
      /\ WellEnded(rec)
      /\ rec.disposition \notin {"executed", "failed"}
      /\ k \notin denied
  BY <1>1, <1>3, <1>5 DEF Record, CopyOK, WellEnded, Denied, NoDisposition
<1> QED
  BY <1>1, <1>2, <1>4, <1>5, <1>6, StoredSafely

LEMMA BeginSafe ==
  ASSUME IInv, TypeOK', NEW c \in Callers, NEW token \in Tokens \union {NoToken},
         BeginExecution(c, token) \/ RenewLease(c, token)
  PROVE  Safe'
<1>1. /\ Holds(c)
      /\ Executing(c, token)
      /\ receipts' = receipts /\ effects' = effects /\ denied' = denied
      /\ hand[c].rec.phase = "reserved"
  BY DEF BeginExecution, RenewLease, MayMove, Moves
<1>2. PICK k \in Keys : k = hand[c].key
  BY <1>1, HeldFacts
<1>3. /\ hand[c].rec \in Record
      /\ KeyOK(k)
      /\ ReceiptsOK(k)
      /\ CopyOK(k, hand[c].rec, hand[c].tool)
      /\ CopyReceiptsOK(k, hand[c].rec, hand[c].tool)
      /\ AgreeOn(k)
      /\ \A d \in Callers \ {c} : Holds(d) => hand[d].key # k
  BY <1>1, <1>2, HeldFacts
<1>4. PICK rec \in Record :
        /\ store' = [store EXCEPT ![k] = rec]
        /\ Hold(c, k, rec, "may_run")
        /\ rec.phase = "executing"
        /\ rec.disposition = hand[c].rec.disposition
        /\ rec.attempt = hand[c].rec.attempt
        /\ rec.revision = hand[c].rec.revision + 1
  BY <1>1, <1>2, ExecutingStep DEF IInv
<1>5. /\ store'[k] = rec
      /\ store'[k] # NoRecord
      /\ \A j \in Keys \ {k} : store'[j] = store[j]
  BY <1>4, StoreUpdate DEF IInv
<1>6. /\ hand'[c].key = k
      /\ hand'[c].rec = rec
      /\ hand'[c].tool = "may_run"
      /\ \A d \in Callers \ {c} : hand'[d] = hand[d]
  BY <1>4, HoldStep DEF IInv, ToolStates
<1>7. /\ Early(hand[c].rec)
      /\ Past(rec)
      /\ ~ Early(rec)
      /\ WellEnded(rec)
      /\ rec.disposition = NoDisposition
      /\ k \notin denied
      /\ effects[k] = 0
  BY <1>1, <1>3, <1>4 DEF CopyOK, KeyOK, Past, Early, WellEnded, Denied
<1>8. \A r \in receipts : r.attempt \in Nat
  BY DEF IInv, TypeOK, Receipts
<1>9. rec.attempt \in Nat /\ rec.revision \in Nat
  BY DEF Record
<1>10. KeyOK(k)'
  BY <1>1, <1>5, <1>7 DEF KeyOK, NoDisposition
<1>11. ReceiptsOK(k)'
  BY <1>1, <1>3, <1>4, <1>5, <1>7, <1>8, <1>9 DEF ReceiptsOK, CopyOK
<1>12. CopyOK(k, rec, "may_run")'
  BY <1>1, <1>5, <1>7, <1>9 DEF CopyOK, NoDisposition
<1>13. CopyReceiptsOK(k, rec, "may_run")'
  BY <1>1, <1>3, <1>4, <1>7, <1>8, <1>9 DEF CopyReceiptsOK
<1>14. HandOK(c)' /\ HandReceiptsOK(c)'
  BY <1>6, <1>12, <1>13 DEF HandOK, HandReceiptsOK
<1>15. AgreeOn(k)'
  BY <1>1, <1>3 DEF AgreeOn
<1>16. Confined(c, k)
  BY <1>1, <1>3, <1>5, <1>6 DEF Confined
<1> QED
  BY <1>10, <1>11, <1>14, <1>15, <1>16, ConfinedStep DEF IInv

(* A caller takes up the stored record, which is as good as its copy.      *)
LEMMA CreateSafe ==
  ASSUME Exclusive, IInv, TypeOK', NEW c \in Callers, NEW k \in Keys,
         CreateAction(c, k)
  PROVE  Safe'
<1>1. /\ receipts' = receipts /\ effects' = effects /\ denied' = denied
      /\ \A d \in Callers : Holds(d) => hand[d].key # k
  BY DEF CreateAction, MayTake
<1>2. KeyOK(k) /\ ReceiptsOK(k) /\ AgreeOn(k)
  BY DEF IInv, Safe, ReceiptsAgree, AgreeOn
<1>3. NewAction # NoRecord
  BY DEF NewAction, NoRecord, NoToken
<1>4. PICK rec \in Record :
        /\ Hold(c, k, rec, "idle")
        /\ store'[k] = rec
        /\ rec # NoRecord
        /\ \A j \in Keys \ {k} : store'[j] = store[j]
        /\ \/ store[k] = rec
           \/ store[k] = NoRecord /\ rec = NewAction
  <2>1. CASE store[k] = NoRecord
    BY <1>3, <2>1, NewActionTyped, StoreUpdate DEF CreateAction, IInv
  <2>2. CASE store[k] # NoRecord
    BY <2>2, StoreTyped DEF CreateAction, IInv
  <2> QED
    BY <2>1, <2>2
<1>5. /\ hand'[c].key = k
      /\ hand'[c].rec = rec
      /\ hand'[c].tool = "idle"
      /\ \A d \in Callers \ {c} : hand'[d] = hand[d]
  BY <1>4, HoldStep DEF IInv, ToolStates
<1>6. rec.revision \in Nat /\ rec.attempt \in Nat
  BY DEF Record
<1>7. KeyOK(k)' /\ ReceiptsOK(k)'
  <2>1. CASE store[k] = rec
    BY <1>1, <1>2, <1>4, <2>1 DEF KeyOK, ReceiptsOK
  <2>2. CASE store[k] = NoRecord /\ rec = NewAction
    <3>1. effects[k] = 0 /\ k \notin denied
      BY <1>2, <2>2 DEF KeyOK, Past, Denied, NoRecord
    <3>2. \A r \in receipts : r.key # k
      BY <1>2, <2>2 DEF ReceiptsOK
    <3> QED
      BY <1>1, <1>4, <2>2, <3>1, <3>2
         DEF KeyOK, ReceiptsOK, WellEnded, NewAction, NoDisposition
  <2> QED
    BY <1>4, <2>1, <2>2
<1>8. CopyOK(k, rec, "idle")'
  BY <1>4, <1>6, <1>7 DEF KeyOK, CopyOK, Early
<1>9. CopyReceiptsOK(k, rec, "idle")'
  BY <1>4, <1>7 DEF ReceiptsOK, CopyReceiptsOK
<1>10. HandOK(c)' /\ HandReceiptsOK(c)'
  BY <1>5, <1>8, <1>9 DEF HandOK, HandReceiptsOK
<1>11. AgreeOn(k)' /\ Confined(c, k)
  BY <1>1, <1>2, <1>4, <1>5 DEF AgreeOn, Confined
<1> QED
  BY <1>7, <1>10, <1>11, ConfinedStep DEF IInv

LEMMA SubmitSafe ==
  ASSUME Exclusive, IInv, TypeOK', NEW c \in Callers, NEW k \in Keys,
         NEW outcome \in Outcomes, Submit(c, k, outcome)
  PROVE  Safe'
<1> DEFINE rec == IF store[k] = NoRecord THEN NewAction ELSE store[k]
           valid == Moved(rec, "validating")
<1>1. /\ receipts' = receipts /\ effects' = effects /\ hand' = hand
      /\ denied' = denied \union (IF outcome = "deny" THEN {k} ELSE {})
      /\ \A d \in Callers : Holds(d) => hand[d].key # k
      /\ ~ Holds(c)
      /\ rec.phase = "proposed"
      /\ store' = [store EXCEPT ![k] = Authorized(valid, outcome)]
  BY DEF Submit, MayTake
<1>2. KeyOK(k) /\ ReceiptsOK(k) /\ AgreeOn(k)
  BY DEF IInv, Safe, ReceiptsAgree, AgreeOn
<1>3. rec \in Record
  BY NewActionTyped, StoreTyped DEF IInv
<1>4. rec.disposition = NoDisposition
  BY <1>1, <1>2 DEF KeyOK, WellEnded, NewAction
<1>5. /\ valid \in Record
      /\ valid.disposition = NoDisposition
      /\ valid.attempt = rec.attempt
  BY <1>3, <1>4, MovedTyped DEF Phases
<1>6. /\ effects[k] = 0
      /\ k \notin denied
      /\ \A r \in receipts : r.key = k =>
           /\ store[k] # NoRecord /\ r.attempt <= rec.attempt
           /\ r.status # "unknown" => r.attempt < rec.attempt
  BY <1>1, <1>2 DEF KeyOK, ReceiptsOK, Past, Denied, Early, NoRecord
<1> HIDE DEF valid, rec
<1>7. PICK new \in Record :
        /\ new = Authorized(valid, outcome)
        /\ WellEnded(new)
        /\ new.attempt = rec.attempt
        /\ IF outcome = "deny" THEN Denied(new) ELSE Early(new)
        /\ new.disposition \notin {"executed", "failed"}
  BY <1>5, AuthorizedTyped
<1>8. /\ store'[k] = new
      /\ store'[k] # NoRecord
      /\ \A j \in Keys \ {k} : store'[j] = store[j]
  BY <1>1, <1>7, StoreUpdate DEF IInv
<1>9. KeyOK(k)'
  BY <1>1, <1>6, <1>7, <1>8 DEF KeyOK, Past
<1>10. ReceiptsOK(k)'
  <2>1. new.attempt \in Nat /\ \A r \in receipts : r.attempt \in Nat
    BY DEF IInv, TypeOK, Receipts, Record
  <2> QED
    BY <1>1, <1>2, <1>6, <1>7, <1>8, <2>1 DEF ReceiptsOK
<1>11. HandOK(c)' /\ HandReceiptsOK(c)'
  BY <1>1 DEF HandOK, HandReceiptsOK, Holds
<1>12. AgreeOn(k)' /\ Confined(c, k)
  BY <1>1, <1>2, <1>8 DEF AgreeOn, Confined, Holds
<1> QED
  BY <1>9, <1>10, <1>11, <1>12, ConfinedStep DEF IInv

LEMMA LetGoSafe ==
  ASSUME IInv, TypeOK', NEW c \in Callers, LetGo(c)
  PROVE  Safe'
<1>1. Holds(c) /\ UNCHANGED <<store, receipts, effects, denied>>
  BY DEF LetGo
<1>2. PICK k \in Keys : k = hand[c].key
  BY <1>1, HeldFacts
<1>3. /\ KeyOK(k) /\ ReceiptsOK(k) /\ AgreeOn(k)
      /\ \A d \in Callers \ {c} : Holds(d) => hand[d].key # k
  BY <1>1, <1>2, HeldFacts
<1>4. hand'[c] = Free /\ \A d \in Callers \ {c} : hand'[d] = hand[d]
  BY DEF LetGo, IInv, TypeOK
<1>5. KeyOK(k)' /\ ReceiptsOK(k)' /\ AgreeOn(k)'
  BY <1>1, <1>3 DEF KeyOK, ReceiptsOK, AgreeOn
<1>6. HandOK(c)' /\ HandReceiptsOK(c)' /\ Confined(c, k)
  BY <1>1, <1>3, <1>4 DEF HandOK, HandReceiptsOK, Confined, Holds
<1> QED
  BY <1>5, <1>6, ConfinedStep DEF IInv

LEMMA UnreferencedSafe ==
  ASSUME IInv, TypeOK', NEW c \in Callers, AuthorizeUnreferenced(c)
  PROVE  Safe'
<1>1. /\ Holds(c)
      /\ receipts' = receipts /\ effects' = effects /\ denied' = denied
      /\ hand' = hand
      /\ hand[c].rec.phase \in {"validating", "waiting_approval"}
  BY DEF AuthorizeUnreferenced, MayMove, Moves
<1>2. PICK k \in Keys : k = hand[c].key
  BY <1>1, HeldFacts
<1>3. /\ hand[c].rec \in Record
      /\ KeyOK(k)
      /\ ReceiptsOK(k)
      /\ CopyOK(k, hand[c].rec, hand[c].tool)
      /\ CopyReceiptsOK(k, hand[c].rec, hand[c].tool)
      /\ AgreeOn(k)
      /\ \A d \in Callers \ {c} : Holds(d) => hand[d].key # k
  BY <1>1, <1>2, HeldFacts
<1>4. PICK rec \in Record :
        /\ store' = [store EXCEPT ![k] = rec]
        /\ rec.phase = "authorizing"
        /\ rec.disposition = hand[c].rec.disposition
        /\ rec.attempt = hand[c].rec.attempt
        /\ rec.revision = hand[c].rec.revision + 1
  <2> DEFINE moved == Moved(hand[c].rec, "authorizing")
  <2>1. /\ moved \in Record
        /\ moved.phase = "authorizing"
        /\ moved.disposition = hand[c].rec.disposition
        /\ moved.attempt = hand[c].rec.attempt
        /\ moved.revision = hand[c].rec.revision + 1
    BY <1>3, MovedTyped DEF Phases
  <2>2. store' = [store EXCEPT ![k] = moved]
    BY <1>2 DEF AuthorizeUnreferenced
  <2> HIDE DEF moved
  <2> QED
    BY <2>1, <2>2
<1>5. /\ store'[k] = rec
      /\ store'[k] # NoRecord
      /\ \A j \in Keys \ {k} : store'[j] = store[j]
  BY <1>4, StoreUpdate DEF IInv
<1>6. /\ Early(hand[c].rec) /\ Early(rec) /\ ~ Past(hand[c].rec)
      /\ rec.disposition = NoDisposition
      /\ effects[k] = 0
      /\ k \notin denied
  BY <1>1, <1>3, <1>4 DEF KeyOK, CopyOK, Past, Early, WellEnded, Denied
<1>7. rec.revision \in Nat /\ hand[c].rec.revision \in Nat
  BY <1>3 DEF Record
<1>8. KeyOK(k)'
  BY <1>1, <1>4, <1>5, <1>6 DEF KeyOK, WellEnded, NoDisposition
<1>9. ReceiptsOK(k)'
  <2>1. rec.attempt \in Nat /\ \A r \in receipts : r.attempt \in Nat
    BY DEF IInv, TypeOK, Receipts, Record
  <2> QED
    BY <1>1, <1>3, <1>4, <1>5, <1>6, <2>1 DEF ReceiptsOK, CopyReceiptsOK, CopyOK
<1>10. CopyOK(k, hand[c].rec, hand[c].tool)'
  BY <1>1, <1>3, <1>4, <1>5, <1>6, <1>7 DEF CopyOK
<1>11. CopyReceiptsOK(k, hand[c].rec, hand[c].tool)'
  BY <1>1, <1>3 DEF CopyReceiptsOK
<1>12. HandOK(c)' /\ HandReceiptsOK(c)'
  BY <1>1, <1>2, <1>10, <1>11 DEF HandOK, HandReceiptsOK
<1>13. AgreeOn(k)' /\ Confined(c, k)
  BY <1>1, <1>2, <1>3, <1>5 DEF AgreeOn, Confined
<1> QED
  BY <1>8, <1>9, <1>12, <1>13, ConfinedStep DEF IInv

LEMMA RunToolSafe ==
  ASSUME IInv, TypeOK', NEW c \in Callers, NEW status \in Statuses,
         NEW happened \in BOOLEAN, RunTool(c, status, happened)
  PROVE  Safe'
<1>1. /\ Holds(c)
      /\ receipts' = receipts /\ store' = store /\ denied' = denied
      /\ hand[c].tool = "may_run"
      /\ status = "succeeded" => happened
      /\ status = "failed" => ~ happened
  BY DEF RunTool
<1>2. PICK k \in Keys : k = hand[c].key
  BY <1>1, HeldFacts
<1>3. /\ hand[c].rec \in Record
      /\ KeyOK(k)
      /\ ReceiptsOK(k)
      /\ CopyOK(k, hand[c].rec, hand[c].tool)
      /\ CopyReceiptsOK(k, hand[c].rec, hand[c].tool)
      /\ AgreeOn(k)
      /\ \A d \in Callers \ {c} : Holds(d) => hand[d].key # k
  BY <1>1, <1>2, HeldFacts
<1>4. /\ effects[k] = 0
      /\ Past(hand[c].rec)
      /\ Past(store[k])
      /\ k \notin denied
  BY <1>1, <1>3 DEF KeyOK, CopyOK
<1>5. /\ effects'[k] = IF happened THEN 1 ELSE 0
      /\ \A j \in Keys \ {k} : effects'[j] = effects[j]
  BY <1>2, <1>4 DEF RunTool, IInv, TypeOK
<1>6. PICK rec \in Record : rec = hand[c].rec
  BY <1>3
<1>7. /\ hand'[c].key = k
      /\ hand'[c].rec = rec
      /\ hand'[c].tool = status
      /\ \A d \in Callers \ {c} : hand'[d] = hand[d]
  <2>1. Hold(c, k, rec, status) /\ status \in ToolStates
    BY <1>2, <1>6 DEF RunTool, ToolStates
  <2> QED
    BY <2>1, HoldStep DEF IInv
<1>8. /\ rec.disposition # "executed"
      /\ rec.disposition # "failed"
      /\ status # "may_run"
  BY <1>1, <1>3, <1>4, <1>6 DEF CopyOK, Statuses
<1>9. KeyOK(k)'
  BY <1>1, <1>3, <1>4, <1>5 DEF KeyOK
<1>10. ReceiptsOK(k)'
  BY <1>1, <1>3, <1>4, <1>5 DEF ReceiptsOK
<1>11. CopyOK(k, rec, status)'
  BY <1>1, <1>3, <1>4, <1>5, <1>6, <1>8 DEF CopyOK
<1>12. CopyReceiptsOK(k, rec, status)'
  BY <1>1, <1>3, <1>6 DEF CopyReceiptsOK
<1>13. HandOK(c)' /\ HandReceiptsOK(c)'
  BY <1>7, <1>11, <1>12 DEF HandOK, HandReceiptsOK
<1>14. AgreeOn(k)' /\ Confined(c, k)
  BY <1>1, <1>3, <1>5, <1>7 DEF AgreeOn, Confined
<1> QED
  BY <1>9, <1>10, <1>13, <1>14, ConfinedStep DEF IInv

(* The copy moves past its execution, the stored record stays behind.      *)
LEMMA ReceiptSafe ==
  ASSUME IInv, TypeOK', NEW c \in Callers, RecordReceipt(c)
  PROVE  Safe'
<1>1. /\ Holds(c)
      /\ store' = store /\ effects' = effects /\ denied' = denied
      /\ hand[c].rec.phase # "terminal"
      /\ Reported(c) = "unknown" => hand[c].rec.phase = "executing"
  BY DEF RecordReceipt, ReportedPhase, MayMove, Moves
<1>2. PICK k \in Keys : k = hand[c].key
  BY <1>1, HeldFacts
<1>3. /\ hand[c].rec \in Record
      /\ KeyOK(k)
      /\ ReceiptsOK(k)
      /\ CopyOK(k, hand[c].rec, hand[c].tool)
      /\ CopyReceiptsOK(k, hand[c].rec, hand[c].tool)
      /\ AgreeOn(k)
      /\ \A d \in Callers \ {c} : Holds(d) => hand[d].key # k
  BY <1>1, <1>2, HeldFacts
<1>4. PICK status \in Statuses : status = Reported(c)
  BY ReportedTyped
<1> DEFINE receipt == [key |-> k, attempt |-> hand[c].rec.attempt, status |-> status]
<1>5. receipts' = receipts \union {receipt}
  BY <1>2, <1>4 DEF RecordReceipt, Receipt
<1>6. PICK rec \in Record :
        /\ rec = AfterReceipt(hand[c].rec, status)
        /\ rec.attempt = hand[c].rec.attempt
        /\ rec.revision = hand[c].rec.revision + 1
        /\ status = "unknown" =>
             rec.phase = "reconciling" /\ rec.disposition = hand[c].rec.disposition
        /\ status # "unknown" =>
             /\ rec.phase = "terminal"
             /\ rec.disposition = IF status = "succeeded" THEN "executed" ELSE "failed"
  BY <1>3, AfterReceiptTyped
<1>7. /\ hand'[c].key = k
      /\ hand'[c].rec = rec
      /\ hand'[c].tool = "idle"
      /\ \A d \in Callers \ {c} : hand'[d] = hand[d]
  <2>1. Hold(c, k, rec, "idle") /\ "idle" \in ToolStates
    BY <1>2, <1>4, <1>6 DEF RecordReceipt, ToolStates
  <2> QED
    BY <2>1, HoldStep DEF IInv
<1>8. status \in {"succeeded", "failed"} => hand[c].tool = status
  BY <1>4 DEF Reported
<1>9. /\ status = "succeeded" => effects[k] = 1
      /\ status = "failed" => effects[k] = 0
      /\ k \notin denied
      /\ hand[c].rec.disposition = NoDisposition
  BY <1>1, <1>3, <1>8 DEF CopyOK, Denied, WellEnded
<1>10. /\ ~ Early(rec)
       /\ WellEnded(rec)
       /\ effects[k] = 1 => Past(rec)
       /\ rec.disposition = "executed" => effects[k] = 1
       /\ rec.disposition = "failed" => effects[k] = 0
  BY <1>6, <1>9 DEF Early, WellEnded, Past, NoDisposition, Statuses
<1>11. /\ \A r \in receipts : r.attempt \in Nat
       /\ rec.attempt \in Nat /\ rec.revision \in Nat
       /\ hand[c].rec.revision \in Nat
  BY <1>3 DEF IInv, TypeOK, Receipts, Record
<1>12. KeyOK(k)'
  BY <1>1, <1>3 DEF KeyOK
<1>13. store[k].attempt = rec.attempt /\ store[k] # NoRecord
  BY <1>3, <1>6 DEF CopyOK
<1>14. /\ receipt.key = k
       /\ receipt.attempt = rec.attempt
       /\ receipt.status = status
  BY <1>6
<1> HIDE DEF receipt
<1>15. ~ Early(store[k])
  <2>1. CASE status = "unknown"
    BY <1>1, <1>3, <1>4, <2>1 DEF CopyOK
  <2>2. CASE status # "unknown"
    BY <1>3, <1>8, <2>2 DEF CopyOK, Past, Early, Statuses
  <2> QED
    BY <2>1, <2>2
<1>16. store[k].revision \in Nat
  BY <1>2, <1>13, StoreTyped DEF IInv, Record
<1>17. ReceiptsOK(k)'
  <2> SUFFICES ASSUME NEW r \in receipts', r.key = k
               PROVE  /\ r.attempt <= rec.attempt
                      /\ r.status = "succeeded" => effects[k] = 1
    BY <1>1, <1>13, <1>15 DEF ReceiptsOK, Early
  <2>2. CASE r \in receipts
    BY <1>3, <1>13, <2>2 DEF ReceiptsOK
  <2>3. CASE r = receipt
    BY <1>9, <1>11, <1>14, <2>3
  <2> QED
    BY <1>5, <2>2, <2>3
<1>18. CopyOK(k, rec, "idle")'
  BY <1>1, <1>3, <1>6, <1>9, <1>10, <1>11, <1>15, <1>16 DEF CopyOK, Early
<1>19. CopyReceiptsOK(k, rec, "idle")'
  BY <1>10 DEF CopyReceiptsOK, Early
<1>20. HandOK(c)' /\ HandReceiptsOK(c)'
  BY <1>7, <1>18, <1>19 DEF HandOK, HandReceiptsOK
<1>21. AgreeOn(k)'
  <2>1. status = "succeeded" =>
          \A r \in receipts : r.key = k /\ r.attempt = rec.attempt =>
            r.status # "failed"
    BY <1>3, <1>6, <1>8 DEF CopyReceiptsOK
  <2>2. status = "failed" =>
          \A r \in receipts : r.key = k => r.status # "succeeded"
    BY <1>3, <1>9 DEF ReceiptsOK
  <2> QED
    BY <1>3, <1>5, <1>14, <2>1, <2>2 DEF AgreeOn
<1>22. Confined(c, k)
  BY <1>1, <1>3, <1>5, <1>7, <1>14 DEF Confined
<1> QED
  BY <1>12, <1>17, <1>20, <1>21, <1>22, ConfinedStep DEF IInv

(* A refused receipt adds to the receipts what the tool has said.          *)
LEMMA RefusedSafe ==
  ASSUME IInv, TypeOK', NEW c \in Callers, RefuseReceipt(c)
  PROVE  Safe'
<1>1. /\ Holds(c)
      /\ store' = store /\ effects' = effects /\ denied' = denied /\ hand' = hand
  BY DEF RefuseReceipt
<1>2. PICK k \in Keys : k = hand[c].key
  BY <1>1, HeldFacts
<1>3. /\ hand[c].rec \in Record
      /\ KeyOK(k)
      /\ ReceiptsOK(k)
      /\ CopyOK(k, hand[c].rec, hand[c].tool)
      /\ CopyReceiptsOK(k, hand[c].rec, hand[c].tool)
      /\ AgreeOn(k)
      /\ \A d \in Callers \ {c} : Holds(d) => hand[d].key # k
  BY <1>1, <1>2, HeldFacts
<1>4. PICK status \in Statuses : status = Reported(c)
  BY ReportedTyped
<1> DEFINE receipt == [key |-> k, attempt |-> hand[c].rec.attempt, status |-> status]
<1>5. receipts' = receipts \union {receipt}
  BY <1>2, <1>4 DEF RefuseReceipt, Receipt
<1>6. PICK rec \in Record : rec = hand[c].rec
  BY <1>3
<1>7. /\ receipt.key = k
      /\ receipt.attempt = rec.attempt
      /\ receipt.status = status
  BY <1>6
<1> HIDE DEF receipt
<1>8. status # "unknown" => hand[c].tool = status
  BY <1>4 DEF Reported, Statuses
<1>9. /\ status = "succeeded" => effects[k] = 1
      /\ status = "failed" => effects[k] = 0
      /\ status # "unknown" => Past(rec) /\ Past(store[k])
      /\ store[k] # NoRecord /\ store[k].attempt = rec.attempt
  BY <1>3, <1>6, <1>8 DEF CopyOK, Statuses
<1>10. \A r \in receipts : r.attempt \in Nat
  BY DEF IInv, TypeOK, Receipts
<1>11. /\ rec.attempt \in Nat
       /\ ~ (Past(rec) /\ Early(rec)) /\ ~ (Past(store[k]) /\ Early(store[k]))
  BY DEF Record, Past, Early
<1>12. KeyOK(k)'
  BY <1>1, <1>3 DEF KeyOK
<1>13. ReceiptsOK(k)'
  <2> SUFFICES ASSUME NEW r \in receipts', r.key = k
               PROVE  /\ store[k] # NoRecord
                      /\ r.attempt <= store[k].attempt
                      /\ Early(store[k]) /\ r.status # "unknown"
                           => r.attempt < store[k].attempt
                      /\ r.status = "succeeded" => effects[k] = 1
    BY <1>1 DEF ReceiptsOK, Early
  <2>1. CASE r \in receipts
    BY <1>3, <2>1 DEF ReceiptsOK
  <2>2. CASE r = receipt
    BY <1>7, <1>9, <1>11, <2>2
  <2> QED
    BY <1>5, <2>1, <2>2
<1>14. CopyOK(k, rec, hand[c].tool)'
  BY <1>1, <1>3, <1>6 DEF CopyOK
<1>15. CopyReceiptsOK(k, rec, hand[c].tool)'
  <2> SUFFICES ASSUME NEW r \in receipts', r.key = k
               PROVE  /\ Early(rec) /\ r.status # "unknown" => r.attempt < rec.attempt
                      /\ hand[c].tool \in {"may_run", "succeeded"} =>
                           ~ (r.attempt = rec.attempt /\ r.status = "failed")
    BY <1>1 DEF CopyReceiptsOK
  <2>1. CASE r \in receipts
    BY <1>3, <1>6, <2>1 DEF CopyReceiptsOK
  <2>2. CASE r = receipt
    BY <1>7, <1>8, <1>9, <1>11, <2>2 DEF Statuses
  <2> QED
    BY <1>5, <2>1, <2>2
<1>16. HandOK(c)' /\ HandReceiptsOK(c)'
  BY <1>1, <1>2, <1>6, <1>14, <1>15 DEF HandOK, HandReceiptsOK
<1>17. AgreeOn(k)'
  <2>1. status = "succeeded" =>
          \A r \in receipts : r.key = k /\ r.attempt = rec.attempt =>
            r.status # "failed"
    BY <1>3, <1>6, <1>8 DEF CopyReceiptsOK
  <2>2. status = "failed" =>
          \A r \in receipts : r.key = k => r.status # "succeeded"
    BY <1>3, <1>9 DEF ReceiptsOK
  <2> QED
    BY <1>3, <1>5, <1>7, <2>1, <2>2 DEF AgreeOn
<1>18. Confined(c, k)
  BY <1>1, <1>2, <1>3, <1>5, <1>7 DEF Confined, Holds
<1> QED
  BY <1>12, <1>13, <1>16, <1>17, <1>18, ConfinedStep DEF IInv

LEMMA ReconcileSafe ==
  ASSUME IInv, TypeOK', NEW c \in Callers, Reconcile(c)
  PROVE  Safe'
<1>1. /\ Holds(c)
      /\ store' = store /\ receipts' = receipts
      /\ effects' = effects /\ denied' = denied
      /\ hand[c].rec.phase # "terminal"
  BY DEF Reconcile, MayMove, Moves
<1>2. PICK k \in Keys : k = hand[c].key
  BY <1>1, HeldFacts
<1>3. /\ hand[c].rec \in Record
      /\ KeyOK(k)
      /\ ReceiptsOK(k)
      /\ CopyOK(k, hand[c].rec, hand[c].tool)
      /\ CopyReceiptsOK(k, hand[c].rec, hand[c].tool)
      /\ AgreeOn(k)
      /\ \A d \in Callers \ {c} : Holds(d) => hand[d].key # k
  BY <1>1, <1>2, HeldFacts
<1>4. PICK truth \in {"executed", "failed"} :
        /\ truth = "executed" <=> effects[k] = 1
        /\ Hold(c, k, Ended(hand[c].rec, truth), "idle")
  BY <1>2, <1>3 DEF Reconcile, KeyOK
<1>5. PICK rec \in Record :
        /\ rec = Ended(hand[c].rec, truth)
        /\ rec.phase = "terminal"
        /\ rec.disposition = truth
        /\ rec.attempt = hand[c].rec.attempt
        /\ rec.revision = hand[c].rec.revision + 1
  BY <1>3, EndedTyped DEF Dispositions
<1>6. /\ hand'[c].key = k
      /\ hand'[c].rec = rec
      /\ hand'[c].tool = "idle"
      /\ \A d \in Callers \ {c} : hand'[d] = hand[d]
  BY <1>4, <1>5, HoldStep DEF IInv, ToolStates
<1>7. k \notin denied
  BY <1>1, <1>3 DEF CopyOK, Denied
<1>8. /\ WellEnded(rec)
      /\ effects[k] = 1 => Past(rec)
      /\ rec.disposition = "failed" => effects[k] = 0
  BY <1>3, <1>4, <1>5 DEF WellEnded, Past, KeyOK, NoDisposition
<1>9. /\ rec.revision \in Nat /\ hand[c].rec.revision \in Nat
      /\ store[k].revision \in Nat
  BY <1>3, StoreTyped DEF IInv, CopyOK, Record
<1>10. KeyOK(k)' /\ ReceiptsOK(k)'
  BY <1>1, <1>3 DEF KeyOK, ReceiptsOK
<1>11. CopyOK(k, rec, "idle")'
  BY <1>1, <1>3, <1>4, <1>5, <1>7, <1>8, <1>9 DEF CopyOK
<1>12. CopyReceiptsOK(k, rec, "idle")'
  BY <1>5 DEF CopyReceiptsOK, Early
<1>13. HandOK(c)' /\ HandReceiptsOK(c)'
  BY <1>6, <1>11, <1>12 DEF HandOK, HandReceiptsOK
<1>14. AgreeOn(k)' /\ Confined(c, k)
  BY <1>1, <1>3, <1>6 DEF AgreeOn, Confined
<1> QED
  BY <1>10, <1>13, <1>14, ConfinedStep DEF IInv

(* Steps that touch nothing the invariant speaks of.                       *)
LEMMA IdleSafe ==
  ASSUME IInv, UNCHANGED <<store, receipts, hand, effects, denied>>
  PROVE  Safe'
BY DEF IInv, Safe, Apart, KeyOK, ReceiptsOK, HandOK, HandReceiptsOK, CopyOK,
       CopyReceiptsOK, ReceiptsAgree, Holds

LEMMA InitIInv == Init => IInv
<1> SUFFICES ASSUME Init PROVE IInv
  OBVIOUS
<1>1. TypeOK
  BY ActionAssumption DEF Init, TypeOK, NoDeadline
<1>2. \A c \in Callers : ~ Holds(c)
  BY DEF Init, Holds
<1>3. \A k \in Keys : KeyOK(k) /\ ReceiptsOK(k)
  BY DEF Init, KeyOK, ReceiptsOK
<1> QED
  BY <1>1, <1>2, <1>3
     DEF IInv, Safe, Apart, HandOK, HandReceiptsOK, ReceiptsAgree, Init

LEMMA NextIInv == Exclusive /\ IInv /\ [Next]_vars => IInv'
<1> SUFFICES ASSUME Exclusive, IInv, [Next]_vars PROVE IInv'
  OBVIOUS
<1>1. TypeOK'
  BY TypeStep DEF IInv
<1>2. ASSUME NEW c \in Callers, NEW k \in Keys,
             \/ CreateAction(c, k)
             \/ \E outcome \in Outcomes : Submit(c, k, outcome)
      PROVE  Safe'
  BY <1>1, <1>2, CreateSafe, SubmitSafe
<1>3. ASSUME NEW c \in Callers,
             \/ LetGo(c)
             \/ \E valid \in BOOLEAN : Validate(c, valid)
             \/ \E outcome \in Outcomes : Authorize(c, outcome)
             \/ AuthorizeUnreferenced(c)
             \/ Retry(c)
      PROVE  Safe'
  BY <1>1, <1>3, LetGoSafe, ValidateSafe, AuthorizeSafe, UnreferencedSafe,
     RetrySafe
<1>4. ASSUME NEW c \in Callers, NEW token \in Tokens \union {NoToken},
             Reserve(c, token) \/ BeginExecution(c, token) \/ RenewLease(c, token)
      PROVE  Safe'
  BY <1>1, <1>4, ReserveSafe, BeginSafe
<1>5. ASSUME NEW c \in Callers,
             \/ \E status \in Statuses, happened \in BOOLEAN :
                  RunTool(c, status, happened)
             \/ RecordReceipt(c)
             \/ RefuseReceipt(c)
             \/ Reconcile(c)
      PROVE  Safe'
  BY <1>1, <1>5, RunToolSafe, ReceiptSafe, RefusedSafe, ReconcileSafe
<1>6. ASSUME \/ Tick
             \/ \E c \in Callers, moment \in 0 .. MaxTime : SetDeadline(c, moment)
             \/ UNCHANGED vars
      PROVE  Safe'
  BY <1>6, IdleSafe DEF Tick, SetDeadline, vars
<1>7. Safe'
  BY <1>2, <1>3, <1>4, <1>5, <1>6 DEF Next
<1> QED
  BY <1>1, <1>7 DEF IInv

(* A write of the holder is never behind the version it writes over.       *)
LEMMA WritesGrow ==
  ASSUME IInv, NEW c \in Callers, Holds(c), NEW rec \in Record,
         rec.revision >= hand[c].rec.revision + 1,
         store' = [store EXCEPT ![hand[c].key] = rec]
  PROVE  \A k \in Keys : store'[k].revision >= store[k].revision
<1>1. \A k \in Keys : store[k].revision \in Nat
  BY StoreTyped DEF IInv, Record, NoRecord
<1>2. /\ hand[c].key \in Keys
      /\ hand[c].rec.revision \in Nat
      /\ store[hand[c].key].revision <= hand[c].rec.revision + 1
  BY HeldFacts DEF CopyOK, Record
<1>3. rec.revision \in Nat
  BY DEF Record
<1> QED
  BY <1>1, <1>2, <1>3 DEF IInv, TypeOK

LEMMA StoreGrows ==
  ASSUME IInv, NEW c \in Callers, Holds(c), NEW rec \in Record,
         rec.revision >= hand[c].rec.revision + 1, Store(c, rec)
  PROVE  \A k \in Keys : store'[k].revision >= store[k].revision
BY WritesGrow DEF Store

LEMMA RevisionStep ==
  ASSUME Exclusive, IInv, [Next]_vars
  PROVE  \A k \in Keys : store'[k].revision >= store[k].revision
<1>0. \A k \in Keys : store[k].revision \in Nat
  BY StoreTyped DEF IInv, Record, NoRecord
<1> DEFINE Grows == \A k \in Keys : store'[k].revision >= store[k].revision
<1>1. ASSUME NEW c \in Callers, NEW k \in Keys, CreateAction(c, k)
      PROVE  Grows
  <2>1. NewAction.revision = 1 /\ NoRecord.revision = 0
    BY DEF NewAction, NoRecord
  <2> QED
    BY <1>0, <1>1, <2>1 DEF CreateAction, IInv, TypeOK
<1>2. ASSUME NEW c \in Callers, NEW k \in Keys, NEW outcome \in Outcomes,
             Submit(c, k, outcome)
      PROVE  Grows
  <2> DEFINE rec == IF store[k] = NoRecord THEN NewAction ELSE store[k]
             valid == Moved(rec, "validating")
             new == Authorized(valid, outcome)
  <2>1. rec \in Record /\ rec.revision >= store[k].revision
    BY <1>0, NewActionTyped, StoreTyped DEF IInv, NewAction, NoRecord
  <2>2. rec.phase = "proposed" /\ store' = [store EXCEPT ![k] = new]
    BY <1>2 DEF Submit
  <2>3. rec.disposition = NoDisposition
    BY <2>2 DEF IInv, Safe, KeyOK, WellEnded, NewAction
  <2> HIDE DEF rec
  <2>4. /\ valid \in Record
        /\ valid.disposition = NoDisposition
        /\ valid.revision = rec.revision + 1
    BY <2>1, <2>3, MovedTyped DEF Phases
  <2> HIDE DEF valid
  <2>5. new \in Record /\ new.revision >= valid.revision + 1
    BY <2>4, AuthorizedTyped
  <2> HIDE DEF new
  <2>6. new.revision \in Nat /\ rec.revision \in Nat /\ store[k].revision \in Nat
    BY <1>0, <2>1, <2>5 DEF Record
  <2>7. new.revision >= store[k].revision
    BY <2>1, <2>4, <2>5, <2>6
  <2> QED
    BY <1>0, <2>2, <2>7 DEF IInv, TypeOK
<1>3. ASSUME NEW c \in Callers, NEW valid \in BOOLEAN, Validate(c, valid)
      PROVE  Grows
  <2>1. Holds(c) /\ hand[c].rec \in Record
    BY <1>3, HeldFacts DEF Validate, MayMove
  <2>2. PICK rec \in Record :
          Store(c, rec) /\ rec.revision = hand[c].rec.revision + 1
    BY <1>3, ValidateTyped DEF IInv
  <2>3. rec.revision >= hand[c].rec.revision + 1
    BY <2>1, <2>2 DEF Record
  <2> QED
    BY <2>1, <2>2, <2>3, StoreGrows
<1>4. ASSUME NEW c \in Callers, NEW outcome \in Outcomes, Authorize(c, outcome)
      PROVE  Grows
  <2>1. /\ Holds(c)
        /\ hand[c].rec.phase \in {"validating", "waiting_approval"}
    BY <1>4 DEF Authorize, MayMove, Moves
  <2>2. hand[c].rec \in Record /\ hand[c].rec.disposition = NoDisposition
    BY <2>1, HeldFacts DEF CopyOK, WellEnded
  <2>3. PICK rec \in Record : rec = Authorized(hand[c].rec, outcome) /\ Store(c, rec)
    BY <1>4, AuthorizeTyped DEF IInv
  <2>4. rec.revision >= hand[c].rec.revision + 1
    BY <2>2, <2>3, AuthorizedTyped
  <2> QED
    BY <2>1, <2>3, <2>4, StoreGrows
<1>5. ASSUME NEW c \in Callers, AuthorizeUnreferenced(c)
      PROVE  Grows
  <2>1. Holds(c) /\ hand[c].rec \in Record
    BY <1>5, HeldFacts DEF AuthorizeUnreferenced, MayMove
  <2> DEFINE moved == Moved(hand[c].rec, "authorizing")
  <2>a. moved \in Record /\ moved.revision = hand[c].rec.revision + 1
    BY <2>1, MovedTyped DEF Phases
  <2>b. store' = [store EXCEPT ![hand[c].key] = moved]
    BY <1>5 DEF AuthorizeUnreferenced
  <2> HIDE DEF moved
  <2>2. PICK rec \in Record :
          /\ store' = [store EXCEPT ![hand[c].key] = rec]
          /\ rec.revision = hand[c].rec.revision + 1
    BY <2>a, <2>b
  <2>3. rec.revision >= hand[c].rec.revision + 1
    BY <2>1, <2>2 DEF Record
  <2> QED
    BY <2>1, <2>2, <2>3, WritesGrow
<1>6. ASSUME NEW c \in Callers, NEW token \in Tokens \union {NoToken},
             Reserve(c, token)
      PROVE  Grows
  <2>1. Holds(c) /\ hand[c].rec \in Record
    BY <1>6, HeldFacts DEF Reserve, MayMove
  <2>2. PICK rec \in Record :
          Store(c, rec) /\ rec.revision = hand[c].rec.revision + 1
    BY <1>6, ReserveTyped DEF IInv
  <2>3. rec.revision >= hand[c].rec.revision + 1
    BY <2>1, <2>2 DEF Record
  <2> QED
    BY <2>1, <2>2, <2>3, StoreGrows
<1>7. ASSUME NEW c \in Callers, NEW token \in Tokens \union {NoToken},
             BeginExecution(c, token) \/ RenewLease(c, token)
      PROVE  Grows
  <2>1. Holds(c) /\ Executing(c, token) /\ hand[c].rec \in Record
    BY <1>7, HeldFacts DEF BeginExecution, RenewLease, MayMove
  <2>2. PICK rec \in Record :
          /\ store' = [store EXCEPT ![hand[c].key] = rec]
          /\ rec.revision = hand[c].rec.revision + 1
    BY <2>1, ExecutingStep DEF IInv
  <2>3. rec.revision >= hand[c].rec.revision + 1
    BY <2>1, <2>2 DEF Record
  <2> QED
    BY <2>1, <2>2, <2>3, WritesGrow
<1>8. ASSUME NEW c \in Callers, Retry(c)
      PROVE  Grows
  <2>1. Holds(c) /\ hand[c].rec \in Record /\ Store(c, Retried(hand[c].rec))
    BY <1>8, HeldFacts DEF Retry
  <2>2. PICK rec \in Record :
          Store(c, rec) /\ rec.revision = hand[c].rec.revision + 1
    BY <2>1, RetriedTyped
  <2>3. rec.revision >= hand[c].rec.revision + 1
    BY <2>1, <2>2 DEF Record
  <2> QED
    BY <2>1, <2>2, <2>3, StoreGrows
<1>9. ASSUME store' = store
      PROVE  Grows
  BY <1>0, <1>9
<1> QED
  BY <1>1, <1>2, <1>3, <1>4, <1>5, <1>6, <1>7, <1>8, <1>9
     DEF Next, vars, Tick, LetGo, SetDeadline, RunTool, RecordReceipt, RefuseReceipt, Reconcile

-----------------------------------------------------------------------------
(* Every reachable state is typed, whoever shares a key with whom.         *)
THEOREM TypeCorrect == Spec => []TypeOK
<1>1. Init => TypeOK
  BY InitIInv DEF IInv
<1> QED
  BY <1>1, TypeStep, PTL DEF Spec

(* If one caller at most works on a key, its side effect takes place at    *)
(* most once, over every attempt, death and lost record (ACT-002).         *)
THEOREM OneEffectIfExclusive == ASSUME Exclusive PROVE Spec => []OneEffectPerKey
<1>1. IInv => OneEffectPerKey
  BY DEF IInv, Safe, KeyOK, OneEffectPerKey
<1> QED
  BY <1>1, InitIInv, NextIInv, PTL DEF Spec

(* Then a denied action is never reserved or executed, the disposition in  *)
(* a caller's hand tells what really happened, and no two receipts of one  *)
(* attempt contradict each other.                                          *)
THEOREM ActionsTellTheTruthIfExclusive ==
  ASSUME Exclusive PROVE Spec => []ActionsTellTheTruth
<1>1. IInv => DeniedNeverRuns
  BY DEF IInv, Safe, TypeOK, KeyOK, Denied, DeniedNeverRuns
<1>2. IInv => OutcomeIsTrue
  BY HeldFacts DEF IInv, CopyOK, OutcomeIsTrue
<1>3. IInv => ReceiptsAgree
  BY DEF IInv, Safe
<1>4. IInv => ActionsTellTheTruth
  BY <1>1, <1>2, <1>3 DEF ActionsTellTheTruth
<1> QED
  BY <1>4, InitIInv, NextIInv, PTL DEF Spec

(* The stored revision of an action never falls (action.py:136).           *)
THEOREM RevisionsNeverFallIfExclusive ==
  ASSUME Exclusive PROVE Spec => RevisionsNeverFall
<1>1. IInv /\ [Next]_vars => [\A k \in Keys :
        store'[k].revision >= store[k].revision]_vars
  BY RevisionStep
<1> QED
  BY <1>1, InitIInv, NextIInv, PTL DEF Spec, RevisionsNeverFall
=============================================================================
