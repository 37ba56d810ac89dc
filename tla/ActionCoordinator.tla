--------------------------- MODULE ActionCoordinator ---------------------------
(***************************************************************************)
(* tool/action.py and tool/gateway.py: one action per action key, moved    *)
(* from proposal to outcome by callers that hold copies of its record.     *)
(*                                                                         *)
(* Every method is synchronous and so one step; between two steps of a     *)
(* caller (it awaits the tool, for one) other callers take theirs.  A      *)
(* method starts from the record its caller passes, checks that record and *)
(* writes over the stored one without comparing the two.  A check that     *)
(* fails raises; unless an action says otherwise nothing has changed then. *)
(* The tool itself is external: it is what an executor runs between        *)
(* begin_execution and record_receipt.                                     *)
(***************************************************************************)
EXTENDS Naturals, FiniteSets

CONSTANTS
  Callers,     \* tasks that call the coordinator
  Keys,        \* action keys, one per logical side effect
  Tokens,      \* fencing tokens callers present
  Exclusive,   \* TRUE: at any time one caller at most works on a key
  MaxAttempts, \* bound: no retry after this attempt
  MaxRevision, \* bound: no method is called on a record of this revision
  MaxTime      \* bound of the clock

ASSUME ActionAssumption ==
  /\ Tokens \subseteq Nat \ {0}
  /\ Exclusive \in BOOLEAN
  /\ MaxAttempts \in Nat
  /\ MaxRevision \in Nat
  /\ MaxTime \in Nat

VARIABLES
  store,     \* _records, by the key each action has (_by_key)
  receipts,  \* _receipts: what was recorded for which attempt
  deadlines, \* _deadlines
  hand,      \* the record each caller holds, and what its tool call said
  effects,   \* how often the side effect of each key really took place
  denied,    \* keys for which a decision was "deny"
  now        \* the clock

vars == <<store, receipts, deadlines, hand, effects, denied, now>>

-----------------------------------------------------------------------------
Phases == {"proposed", "validating", "authorizing", "waiting_approval",
           "reserved", "executing", "reconciling", "terminal"}

Dispositions == {"executed", "denied", "invalid", "failed"}

NoDisposition == "none"

NoToken == 0

Record == [phase       : Phases,
           disposition : Dispositions \union {NoDisposition},
           attempt     : Nat \ {0},
           revision    : Nat \ {0},
           token       : Nat]

NoRecord == [phase |-> "none", revision |-> 0]

Moves == {<<"proposed", "validating">>, <<"validating", "authorizing">>,
          <<"authorizing", "waiting_approval">>, <<"authorizing", "reserved">>,
          <<"waiting_approval", "authorizing">>, <<"reserved", "executing">>,
          <<"executing", "reconciling">>}
         \union {<<p, "terminal">> : p \in Phases \ {"terminal"}}

(* An action without a deadline: its time never runs out.                  *)
NoDeadline == MaxTime + 1

Statuses == {"succeeded", "failed", "unknown"}

(* A caller's tool call: not its to make, to be made, or what it returned. *)
ToolStates == Statuses \union {"idle", "may_run"}

Free == [key |-> "none"]

Hands == [key : Keys, rec : Record, tool : ToolStates]

Receipts == [key : Keys, attempt : Nat \ {0}, status : Statuses]

TypeOK ==
  /\ store \in [Keys -> Record \union {NoRecord}]
  /\ receipts \subseteq Receipts
  /\ deadlines \in [Keys -> 0 .. NoDeadline]
  /\ hand \in [Callers -> Hands \union {Free}]
  /\ effects \in [Keys -> Nat]
  /\ denied \subseteq Keys
  /\ now \in 0 .. MaxTime

Init ==
  /\ store     = [k \in Keys |-> NoRecord]
  /\ receipts  = {}
  /\ deadlines = [k \in Keys |-> NoDeadline]
  /\ hand      = [c \in Callers |-> Free]
  /\ effects   = [k \in Keys |-> 0]
  /\ denied    = {}
  /\ now       = 0

-----------------------------------------------------------------------------
(* Records.                                                                *)

NewAction == [phase |-> "proposed", disposition |-> NoDisposition,
             attempt |-> 1, revision |-> 1, token |-> NoToken]

Moved(rec, phase) == [rec EXCEPT !.phase = phase, !.revision = @ + 1]

Ended(rec, disposition) ==
  [rec EXCEPT !.phase = "terminal", !.disposition = disposition,
              !.revision = @ + 1]

(* Authorised: the transition to authorizing is stored before the outcome  *)
(* is looked at, so the record moves twice.                                *)
Authorized(rec, outcome) ==
  LET authorizing == Moved(rec, "authorizing") IN
  CASE outcome = "deny"             -> Ended(authorizing, "denied")
    [] outcome = "require_approval" -> Moved(authorizing, "waiting_approval")
    [] outcome = "allow"            -> Moved(authorizing, "reserved")

Outcomes == {"allow", "deny", "require_approval"}

(* The token a caller presents is compared with that of its own copy.      *)
FencingOK(rec, token) ==
  token = NoToken \/ rec.token = NoToken \/ token >= rec.token

InTime(k) == now <= deadlines[k]

-----------------------------------------------------------------------------
(* Callers and their copies.                                               *)

Holds(c) == hand[c] # Free

(* Free to take up an action: under Exclusive nobody else works on it.     *)
MayTake(c, k) ==
  /\ ~ Holds(c)
  /\ Exclusive => \A d \in Callers : Holds(d) => hand[d].key # k

Hold(c, k, rec, tool) ==
  hand' = [hand EXCEPT ![c] = [key |-> k, rec |-> rec, tool |-> tool]]

(* create_action is idempotent: it returns the action its key already has, *)
(* as get does.                                                            *)
CreateAction(c, k) ==
  /\ MayTake(c, k)
  /\ IF store[k] = NoRecord
       THEN /\ store' = [store EXCEPT ![k] = NewAction]
            /\ Hold(c, k, NewAction, "idle")
       ELSE /\ Hold(c, k, store[k], "idle")
            /\ UNCHANGED store
  /\ UNCHANGED <<receipts, deadlines, effects, denied, now>>

(* A caller is done with an action or dies; its copy is gone.              *)
LetGo(c) ==
  /\ Holds(c)
  /\ hand' = [hand EXCEPT ![c] = Free]
  /\ UNCHANGED <<store, receipts, deadlines, effects, denied, now>>

MayMove(c, phase) ==
  /\ Holds(c)
  /\ <<hand[c].rec.phase, phase>> \in Moves
  /\ hand[c].rec.revision < MaxRevision

Store(c, rec) ==
  /\ store' = [store EXCEPT ![hand[c].key] = rec]
  /\ Hold(c, hand[c].key, rec, hand[c].tool)

-----------------------------------------------------------------------------
(* From proposal to reservation.                                           *)

Validate(c, valid) ==
  /\ MayMove(c, IF valid THEN "validating" ELSE "terminal")
  /\ Store(c, IF valid THEN Moved(hand[c].rec, "validating")
                       ELSE Ended(hand[c].rec, "invalid"))
  /\ UNCHANGED <<receipts, deadlines, effects, denied, now>>

Authorize(c, outcome) ==
  /\ MayMove(c, "authorizing")
  /\ Store(c, Authorized(hand[c].rec, outcome))
  /\ denied' = denied \union (IF outcome = "deny" THEN {hand[c].key} ELSE {})
  /\ UNCHANGED <<receipts, deadlines, effects, now>>

(* require_approval without a reference raises after the transition to     *)
(* authorizing is stored; the caller is left with the copy it passed.      *)
AuthorizeUnreferenced(c) ==
  /\ MayMove(c, "authorizing")
  /\ store' = [store EXCEPT ![hand[c].key] = Moved(hand[c].rec, "authorizing")]
  /\ UNCHANGED <<receipts, deadlines, hand, effects, denied, now>>

Reserve(c, token) ==
  /\ MayMove(c, "reserved")
  /\ Store(c, [Moved(hand[c].rec, "reserved") EXCEPT !.token = token])
  /\ UNCHANGED <<receipts, deadlines, effects, denied, now>>

(* ToolGateway.submit: create_action, validate, the policy decision and    *)
(* authorize in one call.  An action that is past its proposal makes       *)
(* validate raise.  The caller gets a reference, not the record.           *)
Submit(c, k, outcome) ==
  LET rec == IF store[k] = NoRecord THEN NewAction ELSE store[k] IN
  /\ MayTake(c, k)
  /\ rec.phase = "proposed"
  /\ store' = [store EXCEPT
                 ![k] = Authorized(Moved(rec, "validating"), outcome)]
  /\ denied' = denied \union (IF outcome = "deny" THEN {k} ELSE {})
  /\ UNCHANGED <<receipts, deadlines, hand, effects, now>>

-----------------------------------------------------------------------------
(* Execution.                                                              *)

Begun(rec, token) == [Moved(rec, "executing") EXCEPT !.token = token]

Executing(c, token) ==
  LET rec == Begun(hand[c].rec, token) IN
  /\ store' = [store EXCEPT ![hand[c].key] = rec]
  /\ Hold(c, hand[c].key, rec, "may_run")

BeginExecution(c, token) ==
  /\ MayMove(c, "executing")
  /\ FencingOK(hand[c].rec, token)
  /\ InTime(hand[c].key)
  /\ Executing(c, token)
  /\ UNCHANGED <<receipts, deadlines, effects, denied, now>>

(* renew_lease asks for a transition to executing: the matrix has none     *)
(* from executing, so it is a second way to start a reserved action.       *)
RenewLease(c, token) ==
  /\ MayMove(c, "executing")
  /\ token # NoToken
  /\ FencingOK(hand[c].rec, token)
  /\ InTime(hand[c].key)
  /\ Executing(c, token)
  /\ UNCHANGED <<receipts, deadlines, effects, denied, now>>

SetDeadline(c, moment) ==
  /\ Holds(c)
  /\ deadlines' = [deadlines EXCEPT ![hand[c].key] = moment]
  /\ UNCHANGED <<store, receipts, hand, effects, denied, now>>

(* The executor runs the tool once for the execution it began.  What the   *)
(* tool reports is true, or it reports that it does not know.              *)
RunTool(c, status, happened) ==
  /\ Holds(c)
  /\ hand[c].tool = "may_run"
  /\ status = "succeeded" => happened
  /\ status = "failed"    => ~ happened
  /\ Hold(c, hand[c].key, hand[c].rec, status)
  /\ effects' = [effects EXCEPT ![hand[c].key] = IF happened THEN @ + 1 ELSE @]
  /\ UNCHANGED <<store, receipts, deadlines, denied, now>>

(* A caller that did not see the tool return can only report "unknown".    *)
Reported(c) == IF hand[c].tool \in Statuses THEN hand[c].tool ELSE "unknown"

(* Mutant: what is not known to have succeeded counts as failed.           *)
AfterReceiptPessimist(rec, status) ==
  IF status = "succeeded" THEN Ended(rec, "executed") ELSE Ended(rec, "failed")

(* The receipt is stored, the record that refers to it is only returned.   *)
AfterReceipt(rec, status) ==
  CASE status = "unknown"   -> Moved(rec, "reconciling")
    [] status = "succeeded" -> Ended(rec, "executed")
    [] status = "failed"    -> Ended(rec, "failed")

Receipt(c) == [key     |-> hand[c].key,
               attempt |-> hand[c].rec.attempt,
               status  |-> Reported(c)]

ReportedPhase(c) == IF Reported(c) = "unknown" THEN "reconciling" ELSE "terminal"

RecordReceipt(c) ==
  /\ Holds(c)
  /\ MayMove(c, ReportedPhase(c))
  /\ receipts' = receipts \union {Receipt(c)}
  /\ Hold(c, hand[c].key, AfterReceipt(hand[c].rec, Reported(c)), "idle")
  /\ UNCHANGED <<store, deadlines, effects, denied, now>>

(* A receipt that comes late or twice is stored before the transition is   *)
(* looked at and refused; the caller is left with the copy it passed.      *)
RefuseReceipt(c) ==
  /\ Holds(c)
  /\ <<hand[c].rec.phase, ReportedPhase(c)>> \notin Moves
  /\ receipts' = receipts \union {Receipt(c)}
  /\ UNCHANGED <<store, deadlines, hand, effects, denied, now>>

(* Reconciliation finds out the truth; its record is only returned, too.   *)
Reconcile(c) ==
  /\ MayMove(c, "terminal")
  /\ LET truth == IF effects[hand[c].key] > 0 THEN "executed" ELSE "failed"
     IN  Hold(c, hand[c].key, Ended(hand[c].rec, truth), "idle")
  /\ UNCHANGED <<store, receipts, deadlines, effects, denied, now>>

Retried(rec) ==
  [rec EXCEPT !.phase = "reserved", !.disposition = NoDisposition,
              !.attempt = @ + 1, !.revision = @ + 1]

(* Mutant: what was executed may be retried like what failed.              *)
RetryAny(c) ==
  /\ Holds(c)
  /\ hand[c].rec.phase = "terminal"
  /\ hand[c].rec.disposition \in {"failed", "executed"}
  /\ hand[c].rec.attempt < MaxAttempts
  /\ hand[c].rec.revision < MaxRevision
  /\ InTime(hand[c].key)
  /\ Store(c, Retried(hand[c].rec))
  /\ UNCHANGED <<receipts, deadlines, effects, denied, now>>

Retry(c) ==
  /\ Holds(c)
  /\ hand[c].rec.phase = "terminal"
  /\ hand[c].rec.disposition = "failed"
  /\ hand[c].rec.attempt < MaxAttempts
  /\ hand[c].rec.revision < MaxRevision
  /\ InTime(hand[c].key)
  /\ Store(c, Retried(hand[c].rec))
  /\ UNCHANGED <<receipts, deadlines, effects, denied, now>>

Tick ==
  /\ now < MaxTime
  /\ now' = now + 1
  /\ UNCHANGED <<store, receipts, deadlines, hand, effects, denied>>

-----------------------------------------------------------------------------
Next ==
  \/ Tick
  \/ \E c \in Callers :
       \/ \E k \in Keys : CreateAction(c, k)
       \/ \E k \in Keys, outcome \in Outcomes : Submit(c, k, outcome)
       \/ LetGo(c)
       \/ \E valid \in BOOLEAN : Validate(c, valid)
       \/ \E outcome \in Outcomes : Authorize(c, outcome)
       \/ AuthorizeUnreferenced(c)
       \/ \E token \in Tokens \union {NoToken} :
            Reserve(c, token) \/ BeginExecution(c, token) \/ RenewLease(c, token)
       \/ \E moment \in 0 .. MaxTime : SetDeadline(c, moment)
       \/ \E status \in Statuses, happened \in BOOLEAN :
            RunTool(c, status, happened)
       \/ RecordReceipt(c)
       \/ RefuseReceipt(c)
       \/ Reconcile(c)
       \/ Retry(c)

Spec == Init /\ [][Next]_vars

-----------------------------------------------------------------------------
(* The side effect of a key takes place at most once, over all attempts,   *)
(* callers that die and receipts whose record was lost (ACT-002, ACT-013). *)
OneEffectPerKey == \A k \in Keys : effects[k] <= 1

(* Once a decision denied an action, it is never executed.                 *)
DeniedNeverRuns ==
  \A k \in denied :
    /\ effects[k] = 0
    /\ store[k].phase \notin {"reserved", "executing"}

(* A record that ended as executed or failed tells what really happened to *)
(* the side effect, so a retry from it is safe (ACT-014).                  *)
OutcomeIsTrue ==
  \A c \in Callers :
    Holds(c) =>
      /\ hand[c].rec.disposition = "executed" => effects[hand[c].key] > 0
      /\ hand[c].rec.disposition = "failed"   => effects[hand[c].key] = 0

(* No two receipts of one attempt contradict each other, those included    *)
(* that were stored by a call that was refused.                            *)
ReceiptsAgree ==
  \A r1, r2 \in receipts :
    (r1.key = r2.key /\ r1.attempt = r2.attempt)
      => ~ (r1.status = "succeeded" /\ r2.status = "failed")

(* What the records and receipts of an action say is what was decided and  *)
(* what happened to it, whoever died on the way and answered late.         *)
ActionsTellTheTruth == DeniedNeverRuns /\ OutcomeIsTrue /\ ReceiptsAgree

(* The stored revision of an action never falls: no method writes over a   *)
(* version that is newer than the one it started from (action.py:136).     *)
RevisionsNeverFall ==
  [][\A k \in Keys : store'[k].revision >= store[k].revision]_vars
=============================================================================
