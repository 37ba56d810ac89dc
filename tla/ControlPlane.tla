----------------------------- MODULE ControlPlane -----------------------------
(***************************************************************************)
(* api/app.py: replicas of the control plane serve runs.  Each remembers   *)
(* in its process the envelopes of the tasks that were posted to it; rows  *)
(* and admission results are in the database they share.                   *)
(*                                                                         *)
(* A request is a chain of coordinator transactions, taken as one step     *)
(* each (RunCoordinator has them in two), except the last of an admission, *)
(* whose read and write are apart.  A request that is refused at once      *)
(* changes nothing and is no step; an admission that has begun may break   *)
(* off at every point after that, with the replica alive.  Of the checks   *)
(* of an admission the compatibility of release and task stands for all.   *)
(* Waits, retries and resumes are no requests of this API: RunCoordinator  *)
(* has them.                                                               *)
(***************************************************************************)
EXTENDS Naturals

CONSTANTS
  Replicas,      \* processes that serve the API
  ApiRuns,       \* run ids
  ApiTasks,      \* task ids, which the clients choose
  Goals,         \* what a posted envelope may ask for
  Compatible,    \* the goals that the bound release is compatible with
  SameAgain,     \* TRUE: a task posted again has the goal it had before
  MaxApiRevision \* bound: no request starts at this revision

ASSUME ControlAssumption ==
  /\ Compatible \subseteq Goals
  /\ SameAgain \in BOOLEAN
  /\ MaxApiRevision \in Nat

VARIABLES
  posts,     \* the run rows
  asked,     \* the goal each task was created with
  envelopes, \* task_envelopes of each replica
  handling,  \* the admission each replica is serving
  judged,    \* the admission results stored
  lost       \* runs of which an admission broke off after it had begun

controlVars == <<posts, asked, envelopes, handling, judged, lost>>

NoPost     == [phase |-> "none", task |-> "none", revision |-> 0]
NoGoal     == "none"
NoHandling == [step |-> "idle", run |-> "none", revision |-> 0, goal |-> NoGoal, base |-> 0]

ASSUME GoalAssumption == NoGoal \notin Goals

ApiPhases == {"queued", "admitting", "running", "paused", "terminal"}

ControlInit ==
  /\ posts = [r \in ApiRuns |-> NoPost]
  /\ asked = [t \in ApiTasks |-> NoGoal]
  /\ envelopes = [p \in Replicas |-> [t \in ApiTasks |-> NoGoal]]
  /\ handling = [p \in Replicas |-> NoHandling]
  /\ judged = {}
  /\ lost = {}

Enters(r, phase) ==
  posts' = [posts EXCEPT ![r].phase = phase, ![r].revision = @ + 1]

-----------------------------------------------------------------------------
(* POST /v1/runs: the envelope is remembered, then the run is created;     *)
(* create_run raises if the task has its TaskState row already.            *)

(* Mutant: envelopes are remembered by the tenant.                         *)
RememberedByTenant(p, t, goal) ==
  [envelopes EXCEPT ![p] = [task \in ApiTasks |-> goal]]

Remembered(p, t, goal) == [envelopes EXCEPT ![p][t] = goal]

CreateRun(p, r, t, goal) ==
  /\ posts[r] = NoPost
  /\ asked[t] = NoGoal
  /\ envelopes' = Remembered(p, t, goal)
  /\ posts' = [posts EXCEPT ![r] = [phase |-> "queued", task |-> t, revision |-> 1]]
  /\ asked' = [asked EXCEPT ![t] = goal]
  /\ UNCHANGED <<handling, judged, lost>>

CreateRunAgain(p, t, goal) ==
  /\ asked[t] # NoGoal
  /\ SameAgain => goal = asked[t]
  /\ envelopes[p][t] # goal
  /\ envelopes' = Remembered(p, t, goal)
  /\ UNCHANGED <<posts, asked, handling, judged, lost>>

-----------------------------------------------------------------------------
(* POST /v1/runs/{run_id}/admission: begin_admission, the task's envelope  *)
(* (KeyError in a replica that does not have it), evaluate, and            *)
(* apply_admission, which reads the row, checks it and writes.             *)
AdmitRun(p, r) ==
  LET goal == envelopes[p][posts[r].task] IN
  /\ handling[p] = NoHandling
  /\ posts[r].phase \in {"queued", "paused"}
  /\ posts[r].revision < MaxApiRevision
  /\ Enters(r, "admitting")
  /\ IF goal = NoGoal
       THEN /\ lost' = lost \union {r}
            /\ UNCHANGED handling
       ELSE /\ handling' = [handling EXCEPT ![p] =
                 [step |-> "begun", run |-> r, revision |-> posts[r].revision + 1,
                  goal |-> goal, base |-> 0]]
            /\ UNCHANGED lost
  /\ UNCHANGED <<asked, envelopes, judged>>

Answered(p) == handling' = [handling EXCEPT ![p] = NoHandling]

(* A run that was ended meanwhile answers StateMachineError.               *)
ApplyAdmission(p) ==
  LET run == posts[handling[p].run] IN
  /\ handling[p].step = "begun"
  /\ IF run.phase = "admitting"
       THEN handling' = [handling EXCEPT ![p].step = "read", ![p].base = run.revision]
       ELSE Answered(p)
  /\ UNCHANGED <<posts, asked, envelopes, judged, lost>>

Applies(p) ==
  /\ Answered(p)
  /\ Enters(handling[p].run,
            IF handling[p].goal \in Compatible THEN "running" ELSE "terminal")

ApplyAdmissionCommit(p) ==
  LET admission == handling[p] IN
  /\ admission.step = "read"
  /\ posts[admission.run].revision = admission.base
  /\ Applies(p)
  /\ judged' = judged \union
       {[run |-> admission.run, revision |-> admission.revision, goal |-> admission.goal]}
  /\ UNCHANGED <<asked, envelopes, lost>>

(* _commit_terminal of a rejection reads the row once more.                *)
Reread(p) ==
  LET run == posts[handling[p].run] IN
  /\ handling[p].step = "read"
  /\ handling[p].goal \notin Compatible
  /\ run.phase # "terminal"
  /\ run.revision # handling[p].base
  /\ handling' = [handling EXCEPT ![p].base = run.revision]
  /\ UNCHANGED <<posts, asked, envelopes, judged, lost>>

(* The request raises after begin_admission has committed, and nothing     *)
(* takes that back: the principal it names may be no principal (_principal *)
(* and evaluate), the result may have expired before it is applied, the    *)
(* row may have been written meanwhile (RevisionConflict), and each        *)
(* statement in the database may fail.                                     *)
BreakOff(p) ==
  /\ handling[p] # NoHandling
  /\ Answered(p)
  /\ lost' = lost \union {handling[p].run}
  /\ UNCHANGED <<posts, asked, envelopes, judged>>

-----------------------------------------------------------------------------
(* POST /v1/runs/{run_id}/commands: cancel, commit_terminal and pause.     *)
EndRun(r, disposition) ==
  /\ posts[r].phase \in ApiPhases \ {"terminal"}
  /\ disposition = "completed" => posts[r].phase = "running"
  /\ posts[r].revision < MaxApiRevision
  /\ Enters(r, "terminal")
  /\ UNCHANGED <<asked, envelopes, handling, judged, lost>>

Pause(r) ==
  /\ posts[r].phase = "running"
  /\ posts[r].revision < MaxApiRevision
  /\ Enters(r, "paused")
  /\ UNCHANGED <<asked, envelopes, handling, judged, lost>>

(* An executor takes the lease of the run (acquire_lease).                 *)
TakeLease(r) ==
  /\ posts[r].phase \in {"admitting", "running"}
  /\ posts[r].revision < MaxApiRevision
  /\ Enters(r, posts[r].phase)
  /\ UNCHANGED <<asked, envelopes, handling, judged, lost>>

(* A replica dies and is started again: its envelopes are gone.            *)
RestartReplica(p) ==
  /\ envelopes[p] # [t \in ApiTasks |-> NoGoal]
  /\ envelopes' = [envelopes EXCEPT ![p] = [t \in ApiTasks |-> NoGoal]]
  /\ handling' = [handling EXCEPT ![p] = NoHandling]
  /\ lost' = IF handling[p] = NoHandling THEN lost ELSE lost \union {handling[p].run}
  /\ UNCHANGED <<posts, asked, judged>>

ControlNext ==
  \/ \E p \in Replicas, t \in ApiTasks, goal \in Goals :
       \/ \E r \in ApiRuns : CreateRun(p, r, t, goal)
       \/ CreateRunAgain(p, t, goal)
  \/ \E p \in Replicas, r \in ApiRuns : AdmitRun(p, r)
  \/ \E p \in Replicas :
       \/ ApplyAdmission(p) \/ ApplyAdmissionCommit(p) \/ Reread(p)
       \/ BreakOff(p) \/ RestartReplica(p)
  \/ \E r \in ApiRuns :
       \/ \E disposition \in {"completed", "cancelled"} : EndRun(r, disposition)
       \/ Pause(r) \/ TakeLease(r)

ControlSpec == ControlInit /\ [][ControlNext]_controlVars

-----------------------------------------------------------------------------
ControlTypeOK ==
  /\ \A r \in ApiRuns : posts[r].phase \in ApiPhases \union {"none"}
  /\ asked \in [ApiTasks -> Goals \union {NoGoal}]
  /\ envelopes \in [Replicas -> [ApiTasks -> Goals \union {NoGoal}]]
  /\ \A p \in Replicas : handling[p].step \in {"idle", "begun", "read"}
  /\ lost \subseteq ApiRuns

(* An admission judges the task as it was created (app.py:5 calls the      *)
(* registry of envelopes immutable): whichever replicas, restarts and      *)
(* repeated posts it goes through, the result that is stored was evaluated *)
(* with the envelope of the request that created the task.                 *)
JudgedAsCreated ==
  \A result \in judged : result.goal = asked[posts[result.run].task]

(* A run runs, or is paused, only if what its task was created with is     *)
(* what its release is compatible with, whichever replica judged what it   *)
(* remembered of the task, and whoever else wrote the row meanwhile.       *)
RunsAsAsked ==
  \A r \in ApiRuns :
    posts[r].phase \in {"running", "paused"} => asked[posts[r].task] \in Compatible

(* A run whose admission broke off (apply_admission never ran to its end)  *)
(* is not found running: what another replica, another client or an        *)
(* executor does with it can end it, but not admit it.                     *)
BrokenOffNeverRuns ==
  \A r \in lost : posts[r].phase \in {"admitting", "terminal"}

(* A run in admitting has an admission of it being served, or one that     *)
(* broke off: no order of requests leaves it there otherwise.              *)
ServedOrBrokenOff ==
  \A r \in ApiRuns :
    posts[r].phase = "admitting" =>
      r \in lost \/ \E p \in Replicas : handling[p].run = r

(* An admission (admit_run) is of the task that was created, lets run what *)
(* it should let run, and breaks off as a whole.                           *)
AdmissionsAreSound ==
  JudgedAsCreated /\ RunsAsAsked /\ BrokenOffNeverRuns /\ ServedOrBrokenOff
=============================================================================
