--------------------------- MODULE RunStateMachine ---------------------------
(***************************************************************************)
(* The vocabulary of the Run aggregate: phases, dispositions, the closed   *)
(* transition matrix (runtime/state_machine.py) and the shape rules that   *)
(* every RunRecord passes on construction (runtime/objects.py).            *)
(*                                                                         *)
(* The data of a record is cut down to what the rules tell apart.          *)
(* wait_reason, wait_condition_refs and wait_origin are always written and *)
(* cleared together, so one field, "wait", stands for the three: None, or  *)
(* the origin ("unspecified" when register_wait got wait_origin=None).     *)
(***************************************************************************)
EXTENDS Naturals

None == "none"

Phases == {"queued", "admitting", "running", "waiting",
           "retrying", "paused", "terminal"}

Dispositions == {"completed", "rejected", "incomplete", "failed", "cancelled"}

WaitOrigins == {"unspecified", "admission_deferred", "admitted_execution"}

(* The phases in which acquire_lease and register_wait are accepted.       *)
ExecutingPhases == {"admitting", "running", "retrying"}

Transitions ==
  [queued    |-> {"admitting", "terminal"},
   admitting |-> {"running", "waiting", "terminal"},
   running   |-> {"waiting", "retrying", "paused", "terminal"},
   waiting   |-> {"admitting", "running", "retrying", "paused", "terminal"},
   retrying  |-> {"running", "waiting", "paused", "terminal"},
   paused    |-> {"admitting", "running", "terminal"},
   terminal  |-> {}]

CanTransition(from, to) == from \in Phases /\ to \in Transitions[from]

(***************************************************************************)
(* Records.  Lease ids are drawn from a counter, so 0 means "no lease"; an *)
(* absent lease has fencing token 0, which is what acquire_lease starts    *)
(* counting from.  Revision 0 means "no such row".                         *)
(***************************************************************************)
NoLease == [id |-> 0, token |-> 0, expires |-> 0]

RunLease == [id : Nat \ {0}, token : Nat \ {0}, expires : Nat]

RunRecord == [phase       : Phases,
              disposition : Dispositions \union {None},
              wait        : WaitOrigins \union {None},
              attempt     : Nat \ {0},
              revision    : Nat \ {0},
              lease       : RunLease \union {NoLease}]

NoRun == [phase |-> None, disposition |-> None, wait |-> None,
          attempt |-> 0, revision |-> 0, lease |-> NoLease]

(* RunRecord.__post_init__: replace() runs it on every new version of the  *)
(* record, so a version that breaks a rule raises and the transaction ends *)
(* in a rollback.                                                          *)
WellFormed(run) ==
  /\ run.disposition # None <=> run.phase = "terminal"
  /\ run.wait # None        <=> run.phase = "waiting"
  /\ run.phase \in {"queued", "waiting", "paused"} => run.lease = NoLease
=============================================================================
