----------------------------- MODULE ServicesProofs -----------------------------
(***************************************************************************)
(* The services that keep their state apart: what each of them promises    *)
(* under whatever calls its public methods are open to.  Every invariant   *)
(* is the promise with the types it needs and with the links between two   *)
(* of the variables that the promise rests on.                             *)
(***************************************************************************)
EXTENDS MCServices, ActionCoordinatorProofs, MemoryServiceProofs, SequenceFacts

-----------------------------------------------------------------------------
(* ControlPlane.  What becomes of a run whose admission broke off, and     *)
(* what an admission judges.  A task posted again is taken to ask for what it      *)
(* asked for before only where a theorem says so.                          *)
Rows == [phase : ApiPhases \union {"none"}, task : ApiTasks \union {"none"},
         revision : Nat]

Handlings == [step : {"idle", "begun", "read"}, run : ApiRuns \union {"none"},
              revision : Nat, goal : Goals \union {NoGoal}, base : Nat]

Results == [run : ApiRuns, revision : Nat, goal : Goals \union {NoGoal}]

(* ControlTypeOK with the sets that rows and admissions are taken from; a  *)
(* row is of some task and an admission being served of some run.          *)
ControlTypeInv ==
  /\ posts \in [ApiRuns -> Rows]
  /\ \A r \in ApiRuns : posts[r].phase # "none" => posts[r].task \in ApiTasks
  /\ asked \in [ApiTasks -> Goals \union {NoGoal}]
  /\ envelopes \in [Replicas -> [ApiTasks -> Goals \union {NoGoal}]]
  /\ handling \in [Replicas -> Handlings]
  /\ \A p \in Replicas :
       IF handling[p].step = "idle" THEN handling[p] = NoHandling
                                    ELSE handling[p].run \in ApiRuns
  /\ judged \subseteq Results
  /\ lost \subseteq ApiRuns

LEMMA RowTyped ==
  ASSUME NEW row \in Rows, NEW phase \in ApiPhases
  PROVE  [row EXCEPT !.phase = phase, !.revision = @ + 1] \in Rows
<1> DEFINE first == [row EXCEPT !.phase = phase]
<1>1. first \in Rows /\ first.revision \in Nat
  BY DEF Rows
<1>2. [first EXCEPT !.revision = @ + 1] \in Rows
  <2> HIDE DEF first
  <2> QED  BY <1>1 DEF Rows
<1> QED  BY <1>2

LEMMA RowFields ==
  ASSUME NEW row \in Rows, NEW phase \in ApiPhases
  PROVE  LET next == [row EXCEPT !.phase = phase, !.revision = @ + 1] IN
         next.phase = phase /\ next.task = row.task
         /\ row.revision \in Nat /\ next.revision = row.revision + 1
BY DEF Rows

LEMMA ConstantRowsTyped ==
  /\ NoPost \in Rows /\ NoHandling \in Handlings
  /\ \A t \in ApiTasks : [phase |-> "queued", task |-> t, revision |-> 1] \in Rows
BY DEF NoPost, NoHandling, Rows, Handlings, ApiPhases

LEMMA HandlingTyped ==
  ASSUME NEW admission \in Handlings
  PROVE  /\ \A n \in Nat : [admission EXCEPT !.base = n] \in Handlings
         /\ \A n \in Nat : [admission EXCEPT !.step = "read", !.base = n] \in Handlings
BY DEF Handlings

(* What entering a phase does to the rows.                                 *)
LEMMA EntersRow ==
  ASSUME ControlTypeInv, NEW r \in ApiRuns, NEW phase \in ApiPhases, Enters(r, phase)
  PROVE  /\ posts' \in [ApiRuns -> Rows] /\ phase # "none"
         /\ posts'[r].phase = phase /\ posts'[r].task = posts[r].task
         /\ posts[r].revision \in Nat /\ posts'[r].revision = posts[r].revision + 1
         /\ \A other \in ApiRuns \ {r} : posts'[other] = posts[other]
<1>1. posts[r] \in Rows
  BY DEF ControlTypeInv
<1>2. posts' = [posts EXCEPT ![r] = [posts[r] EXCEPT !.phase = phase, !.revision = @ + 1]]
  BY <1>1 DEF Enters, ControlTypeInv, Rows
<1>3. phase # "none"
  BY DEF ApiPhases
<1> QED  BY <1>1, <1>2, <1>3, RowTyped, RowFields DEF ControlTypeInv

(* A step that writes the row of one run leaves the rows typed.            *)
LEMMA RowsStayTyped ==
  ASSUME ControlTypeInv, NEW r \in ApiRuns, NEW phase \in ApiPhases,
         Enters(r, phase), posts[r].phase # "none"
  PROVE  /\ posts' \in [ApiRuns -> Rows]
         /\ \A other \in ApiRuns : posts'[other].phase # "none" => posts'[other].task \in ApiTasks
BY EntersRow DEF ControlTypeInv

LEMMA AdmitTyped ==
  ASSUME ControlTypeInv, NEW p \in Replicas, NEW r \in ApiRuns, AdmitRun(p, r)
  PROVE  ControlTypeInv'
<1> DEFINE goal == envelopes[p][posts[r].task]
<1>1. /\ posts' \in [ApiRuns -> Rows]
      /\ \A other \in ApiRuns : posts'[other].phase # "none" => posts'[other].task \in ApiTasks
      /\ UNCHANGED <<asked, envelopes, judged>>
  <2>1. posts[r].phase # "none" /\ "admitting" \in ApiPhases /\ Enters(r, "admitting")
    BY DEF AdmitRun, ApiPhases
  <2> QED  BY <2>1, RowsStayTyped DEF AdmitRun
<1>2. CASE goal = NoGoal
  BY <1>1, <1>2 DEF AdmitRun, ControlTypeInv
<1>3. CASE goal # NoGoal
  <2> DEFINE begun == [step |-> "begun", run |-> r, revision |-> posts[r].revision + 1,
                       goal |-> goal, base |-> 0]
  <2>1. posts[r] \in Rows /\ posts[r].phase \in {"queued", "paused"}
    BY DEF ControlTypeInv, AdmitRun
  <2>2. handling' = [handling EXCEPT ![p] = begun] /\ lost' = lost
    BY <1>3 DEF AdmitRun
  <2>3. posts[r].revision \in Nat
    BY <2>1 DEF Rows
  <2>4. goal \in Goals \union {NoGoal}
    <3>1. posts[r].task \in ApiTasks
      BY <2>1 DEF ControlTypeInv
    <3> QED  BY <3>1 DEF ControlTypeInv
  <2>5. begun \in Handlings /\ begun.run = r /\ begun.step = "begun"
    BY <2>3, <2>4 DEF Handlings
  <2> HIDE DEF begun
  <2> QED  BY <1>1, <2>2, <2>5 DEF ControlTypeInv
<1> QED  BY <1>2, <1>3

LEMMA AnsweredTyped ==
  ASSUME ControlTypeInv, NEW p \in Replicas, Answered(p)
  PROVE  /\ handling' \in [Replicas -> Handlings]
         /\ handling'[p].step = "idle" /\ handling'[p] = NoHandling
         /\ \A other \in Replicas \ {p} : handling'[other] = handling[other]
<1>1. NoHandling.step = "idle"
  BY DEF NoHandling
<1> QED  BY <1>1, ConstantRowsTyped DEF ControlTypeInv, Answered

(* The steps of an admission that only move it on.                         *)
LEMMA MovesTyped ==
  ASSUME ControlTypeInv, NEW p \in Replicas, ApplyAdmission(p) \/ Reread(p)
  PROVE  /\ ControlTypeInv'
         /\ UNCHANGED <<posts, asked, envelopes, judged, lost>>
         /\ \/ /\ handling'[p].step # "idle" /\ handling[p].step # "idle"
               /\ handling'[p].run = handling[p].run
               /\ handling'[p].goal = handling[p].goal
               /\ handling'[p].step = "read"
               /\ handling'[p].base = posts[handling[p].run].revision
               /\ \/ posts[handling[p].run].phase = "admitting"
                  \/ handling[p].step = "read" /\ posts[handling[p].run].phase # "terminal"
            \/ /\ handling'[p].step = "idle" /\ handling[p].step # "idle"
               /\ posts[handling[p].run].phase # "admitting"
         /\ \A other \in Replicas \ {p} : handling'[other] = handling[other]
<1> DEFINE run == posts[handling[p].run]
<1>1. /\ handling[p] \in Handlings /\ handling[p].step # "idle"
      /\ handling[p].run \in ApiRuns /\ run.revision \in Nat
      /\ UNCHANGED <<posts, asked, envelopes, judged, lost>>
  BY DEF ControlTypeInv, ApplyAdmission, Reread, Rows
<1>2. CASE Answered(p) /\ run.phase # "admitting"
  BY <1>1, <1>2, AnsweredTyped DEF ControlTypeInv
<1>3. CASE handling' = [handling EXCEPT ![p].step = "read", ![p].base = run.revision]
           /\ run.phase = "admitting"
  <2> DEFINE next == [handling[p] EXCEPT !.step = "read", !.base = run.revision]
  <2>1. next \in Handlings /\ next.step = "read" /\ next.base = run.revision
        /\ next.run = handling[p].run /\ next.goal = handling[p].goal
    BY <1>1, HandlingTyped DEF Handlings
  <2>2. handling' = [handling EXCEPT ![p] = next]
    BY <1>3 DEF ControlTypeInv
  <2> HIDE DEF next
  <2> QED  BY <1>1, <1>3, <2>1, <2>2 DEF ControlTypeInv
<1>4. CASE Reread(p)
  <2> DEFINE next == [handling[p] EXCEPT !.base = run.revision]
  <2>1. next \in Handlings /\ next.step = handling[p].step /\ next.base = run.revision
        /\ next.run = handling[p].run /\ next.goal = handling[p].goal
    BY <1>1, HandlingTyped DEF Handlings
  <2>2. handling' = [handling EXCEPT ![p] = next]
    BY <1>4 DEF ControlTypeInv, Reread
  <2>3. handling[p].step = "read" /\ run.phase # "terminal"
    BY <1>4 DEF Reread
  <2> HIDE DEF next
  <2> QED  BY <1>1, <2>1, <2>2, <2>3 DEF ControlTypeInv
<1> QED  BY <1>2, <1>3, <1>4 DEF ApplyAdmission

LEMMA CommitTyped ==
  ASSUME ControlTypeInv, NEW p \in Replicas, ApplyAdmissionCommit(p),
         posts[handling[p].run].phase # "none"
  PROVE  /\ ControlTypeInv' /\ Answered(p) /\ handling[p].run \in ApiRuns
         /\ \E phase \in {"running", "terminal"} : Enters(handling[p].run, phase)
<1> PICK phase \in {"running", "terminal"} : Enters(handling[p].run, phase)
  BY DEF ApplyAdmissionCommit, Applies
<1>1. /\ handling[p] \in Handlings /\ handling[p].run \in ApiRuns
      /\ Answered(p) /\ phase \in ApiPhases
      /\ UNCHANGED <<asked, envelopes, lost>>
  BY DEF ControlTypeInv, ApplyAdmissionCommit, Applies, ApiPhases
<1>2. /\ posts' \in [ApiRuns -> Rows]
      /\ \A other \in ApiRuns : posts'[other].phase # "none" => posts'[other].task \in ApiTasks
  BY <1>1, RowsStayTyped
<1>3. judged' \subseteq Results
  <2>1. [run |-> handling[p].run, revision |-> handling[p].revision,
         goal |-> handling[p].goal] \in Results
    BY <1>1 DEF Handlings, Results
  <2> QED  BY <2>1 DEF ApplyAdmissionCommit, ControlTypeInv
<1> QED  BY <1>1, <1>2, <1>3, AnsweredTyped DEF ControlTypeInv

LEMMA RestartTyped ==
  ASSUME ControlTypeInv, NEW p \in Replicas, RestartReplica(p)
  PROVE  ControlTypeInv'
<1>1. handling' \in [Replicas -> Handlings] /\ NoHandling.step = "idle"
      /\ handling' = [handling EXCEPT ![p] = NoHandling]
  BY ConstantRowsTyped DEF ControlTypeInv, RestartReplica, NoHandling
<1>2. envelopes' \in [Replicas -> [ApiTasks -> Goals \union {NoGoal}]]
  BY DEF ControlTypeInv, RestartReplica
<1>3. lost' \subseteq ApiRuns
  <2>1. CASE handling[p] = NoHandling
    BY <2>1 DEF ControlTypeInv, RestartReplica
  <2>2. CASE handling[p] # NoHandling
    BY <2>2 DEF ControlTypeInv, RestartReplica
  <2> QED  BY <2>1, <2>2
<1> QED  BY <1>1, <1>2, <1>3 DEF ControlTypeInv, RestartReplica

LEMMA CreateTyped ==
  ASSUME ControlTypeInv, NEW p \in Replicas, NEW r \in ApiRuns, NEW t \in ApiTasks,
         NEW goal \in Goals, CreateRun(p, r, t, goal)
  PROVE  /\ ControlTypeInv'
         /\ posts[r].phase = "none" /\ posts'[r].phase = "queued" /\ posts'[r].task = t
         /\ \A other \in ApiRuns \ {r} : posts'[other] = posts[other]
<1> DEFINE row == [phase |-> "queued", task |-> t, revision |-> 1]
<1>1. row \in Rows /\ row.phase = "queued" /\ row.task = t /\ NoPost.phase = "none"
  BY ConstantRowsTyped DEF NoPost
<1>2. posts' = [posts EXCEPT ![r] = row] /\ posts[r] = NoPost
  BY DEF CreateRun
<1> HIDE DEF row
<1> QED  BY <1>1, <1>2 DEF ControlTypeInv, CreateRun, Remembered

-----------------------------------------------------------------------------
(* An admission that is being served is of a run that is in admitting      *)
(* since, or has ended; one whose row was read knows whether it still      *)
(* stands.  It is the only one of its run, and none of it broke off.       *)
AdmissionsOfRows ==
  \A p \in Replicas : handling[p].step # "idle" =>
    LET row == posts[handling[p].run] IN
    /\ row.phase \in {"admitting", "terminal"}
    /\ handling[p].step = "read" =>
         /\ handling[p].base <= row.revision
         /\ row.phase = "terminal" => handling[p].base < row.revision
    /\ handling[p].run \notin lost
    /\ \A q \in Replicas :
         handling[q].step # "idle" /\ handling[q].run = handling[p].run => q = p

(* ServedOrBrokenOff of the admissions that are being served.              *)
AdmittingIsServed ==
  \A r \in ApiRuns :
    posts[r].phase = "admitting" =>
      r \in lost \/ \E p \in Replicas : handling[p].step # "idle" /\ handling[p].run = r

ControlInv ==
  ControlTypeInv /\ AdmissionsOfRows /\ AdmittingIsServed /\ BrokenOffNeverRuns

(* Rows stay of the task they were created for, and tasks as they were     *)
(* asked.                                                                  *)
TasksKept ==
  /\ \A r \in ApiRuns : posts[r].phase # "none" =>
       posts'[r].phase # "none" /\ posts'[r].task = posts[r].task
  /\ \A t \in ApiTasks : asked[t] # NoGoal => asked'[t] = asked[t]

LEMMA EntersKeepsTasks ==
  ASSUME ControlTypeInv, NEW r \in ApiRuns, NEW phase \in ApiPhases, Enters(r, phase),
         UNCHANGED asked
  PROVE  TasksKept
BY EntersRow DEF TasksKept

(* An action of a run that another actor takes.                            *)
RunStep(r) ==
  \/ \E disposition \in {"completed", "cancelled"} : EndRun(r, disposition)
  \/ Pause(r)
  \/ TakeLease(r)

LEMMA RunStepEffect ==
  ASSUME ControlTypeInv, NEW r \in ApiRuns, RunStep(r)
  PROVE  /\ posts[r].phase \notin {"none", "terminal"}
         /\ \E phase \in ApiPhases :
              /\ Enters(r, phase)
              /\ phase = "admitting" => posts[r].phase = "admitting"
              /\ posts[r].phase = "admitting" => phase \in {"admitting", "terminal"}
              /\ phase \in {"running", "paused"} => posts[r].phase = "running"
         /\ UNCHANGED <<asked, envelopes, handling, judged, lost>>
BY DEF RunStep, EndRun, Pause, TakeLease, ApiPhases

(* An admission that goes on as it is needs no more than that its run does *)
(* not fall back from its end, or behind the revision that was read.       *)
LEMMA StillOfRows ==
  ASSUME ControlTypeInv, AdmissionsOfRows, NEW r \in ApiRuns, NEW phase \in ApiPhases,
         Enters(r, phase),
         \/ posts[r].phase \notin {"admitting", "terminal"}
         \/ posts[r].phase = "admitting" /\ phase \in {"admitting", "terminal"},
         handling' = handling, lost' = lost
  PROVE  AdmissionsOfRows'
<1> SUFFICES ASSUME NEW p \in Replicas, handling[p].step # "idle"
             PROVE  LET row == posts'[handling[p].run] IN
                    /\ row.phase \in {"admitting", "terminal"}
                    /\ handling[p].step = "read" =>
                         /\ handling[p].base <= row.revision
                         /\ row.phase = "terminal" => handling[p].base < row.revision
  BY DEF AdmissionsOfRows
<1> DEFINE mine == handling[p].run
<1>1. mine \in ApiRuns /\ handling[p].base \in Nat /\ posts[mine].revision \in Nat
  BY DEF ControlTypeInv, Handlings, Rows
<1>2. /\ posts[mine].phase \in {"admitting", "terminal"}
      /\ handling[p].step = "read" =>
           /\ handling[p].base <= posts[mine].revision
           /\ posts[mine].phase = "terminal" => handling[p].base < posts[mine].revision
  BY DEF AdmissionsOfRows
<1>3. CASE mine = r
  <2>1. posts'[mine].phase = phase /\ posts'[mine].revision = posts[mine].revision + 1
    BY <1>3, EntersRow
  <2>2. phase \in {"admitting", "terminal"}
    BY <1>2, <1>3
  <2> HIDE DEF mine
  <2> QED  BY <1>1, <1>2, <2>1, <2>2 DEF mine
<1>4. CASE mine # r
  <2>1. posts'[mine] = posts[mine]
    BY <1>1, <1>4, EntersRow
  <2> QED  BY <1>2, <2>1
<1> QED  BY <1>3, <1>4

(* What has to be seen of a step that keeps AdmittingIsServed: of a run    *)
(* that is left in admitting, and not lost, its row was in admitting, and  *)
(* the admission of it that was being served still is.                     *)
LEMMA StillServed ==
  ASSUME AdmittingIsServed, lost \subseteq lost',
         \A r \in ApiRuns : posts'[r].phase = "admitting" =>
           \/ r \in lost'
           \/ \E p \in Replicas : handling'[p].step # "idle" /\ handling'[p].run = r
           \/ /\ posts[r].phase = "admitting"
              /\ \A p \in Replicas :
                   handling[p].step # "idle" /\ handling[p].run = r =>
                     handling'[p].step # "idle" /\ handling'[p].run = r
  PROVE  AdmittingIsServed'
<1> SUFFICES ASSUME NEW r \in ApiRuns, posts'[r].phase = "admitting", r \notin lost'
             PROVE  \E p \in Replicas : handling'[p].step # "idle" /\ handling'[p].run = r
  BY DEF AdmittingIsServed
<1>1. CASE /\ posts[r].phase = "admitting"
           /\ \A p \in Replicas :
                handling[p].step # "idle" /\ handling[p].run = r =>
                  handling'[p].step # "idle" /\ handling'[p].run = r
  <2>1. PICK p \in Replicas : handling[p].step # "idle" /\ handling[p].run = r
    BY <1>1 DEF AdmittingIsServed
  <2> QED  BY <1>1, <2>1
<1> QED  BY <1>1

LEMMA ControlInitInv == ControlInit => ControlInv
<1>1. NoPost.phase = "none" /\ NoHandling.step = "idle"
  BY DEF NoPost, NoHandling
<1> QED
  BY <1>1, ConstantRowsTyped
  DEF ControlInit, ControlInv, ControlTypeInv, AdmissionsOfRows, AdmittingIsServed,
      BrokenOffNeverRuns

LEMMA ControlStep ==
  ASSUME ControlInv, [ControlNext]_controlVars
  PROVE  ControlInv' /\ TasksKept
<1> USE DEF ControlInv
<1>1. ASSUME NEW p \in Replicas, NEW t \in ApiTasks, NEW goal \in Goals,
             NEW r \in ApiRuns, CreateRun(p, r, t, goal)
      PROVE  ControlInv' /\ TasksKept
  <2>1. /\ ControlTypeInv'
        /\ posts[r].phase = "none" /\ posts'[r].phase = "queued" /\ posts'[r].task = t
        /\ \A other \in ApiRuns \ {r} : posts'[other] = posts[other]
        /\ handling' = handling /\ lost' = lost
        /\ asked' = [asked EXCEPT ![t] = goal] /\ asked[t] = NoGoal
    BY <1>1, CreateTyped DEF CreateRun
  <2>2. AdmissionsOfRows'
    <3>1. \A q \in Replicas : handling[q].step # "idle" =>
            posts'[handling[q].run] = posts[handling[q].run]
      BY <2>1 DEF AdmissionsOfRows, ControlTypeInv
    <3> QED  BY <2>1, <3>1 DEF AdmissionsOfRows
  <2>3. AdmittingIsServed'
    BY <2>1 DEF AdmittingIsServed, ControlTypeInv
  <2>4. TasksKept
    BY <2>1 DEF TasksKept, ControlTypeInv
  <2>5. BrokenOffNeverRuns'
    BY <2>1 DEF BrokenOffNeverRuns, ControlTypeInv
  <2> QED  BY <2>1, <2>2, <2>3, <2>4, <2>5
<1>2. ASSUME NEW p \in Replicas, NEW t \in ApiTasks, NEW goal \in Goals,
             CreateRunAgain(p, t, goal)
      PROVE  ControlInv' /\ TasksKept
  <2>1. UNCHANGED <<posts, asked, handling, judged, lost>> /\ ControlTypeInv'
    BY <1>2 DEF CreateRunAgain, Remembered, ControlTypeInv
  <2> QED
    BY <2>1 DEF AdmissionsOfRows, AdmittingIsServed, BrokenOffNeverRuns, TasksKept
<1>3. ASSUME NEW p \in Replicas, NEW r \in ApiRuns, AdmitRun(p, r)
      PROVE  ControlInv' /\ TasksKept
  <2>1. ControlTypeInv'
    BY <1>3, AdmitTyped
  <2>2. /\ Enters(r, "admitting") /\ "admitting" \in ApiPhases
        /\ asked' = asked /\ handling[p].step = "idle"
        /\ posts[r].phase \in {"queued", "paused"}
    BY <1>3 DEF AdmitRun, ApiPhases, NoHandling
  <2>3. posts'[r].phase = "admitting"
        /\ \A other \in ApiRuns \ {r} : posts'[other] = posts[other]
    BY <2>2, EntersRow
  <2>4. \/ lost' = lost \union {r} /\ handling' = handling
        \/ /\ lost' = lost
           /\ handling'[p].step = "begun" /\ handling'[p].run = r
           /\ \A other \in Replicas \ {p} : handling'[other] = handling[other]
    BY <1>3 DEF AdmitRun, ControlTypeInv
  <2>5. AdmissionsOfRows'
    <3>1. r \notin lost /\ \A q \in Replicas : handling[q].step # "idle" => handling[q].run # r
      BY <2>2 DEF AdmissionsOfRows, BrokenOffNeverRuns
    <3>2. \A q \in Replicas : handling[q].step # "idle" =>
            /\ handling'[q] = handling[q] /\ handling[q].run \in ApiRuns \ {r}
            /\ posts'[handling[q].run] = posts[handling[q].run]
            /\ handling[q].run \in lost' <=> handling[q].run \in lost
      BY <2>2, <2>3, <2>4, <3>1 DEF ControlTypeInv
    <3>3. \A q \in Replicas : handling'[q].step # "idle" =>
            \/ handling[q].step # "idle"
            \/ q = p /\ handling'[q].step = "begun" /\ handling'[q].run = r /\ lost' = lost
      BY <2>2, <2>4
    <3> SUFFICES ASSUME NEW q \in Replicas, handling'[q].step # "idle"
                 PROVE  LET row == posts'[handling'[q].run] IN
                        /\ row.phase \in {"admitting", "terminal"}
                        /\ handling'[q].step = "read" =>
                             /\ handling'[q].base <= row.revision
                             /\ row.phase = "terminal" => handling'[q].base < row.revision
                        /\ handling'[q].run \notin lost'
                        /\ \A o \in Replicas :
                             handling'[o].step # "idle" /\ handling'[o].run = handling'[q].run
                               => o = q
      BY DEF AdmissionsOfRows
    <3>4. CASE handling[q].step # "idle"
      <4>1. \A o \in Replicas :
              handling'[o].step # "idle" /\ handling'[o].run = handling'[q].run => o = q
        BY <3>2, <3>3, <3>4 DEF AdmissionsOfRows
      <4> QED  BY <3>2, <3>4, <4>1 DEF AdmissionsOfRows
    <3>5. CASE handling[q].step = "idle"
      BY <2>3, <3>1, <3>2, <3>3, <3>5
    <3> QED  BY <3>4, <3>5
  <2>6. AdmittingIsServed'
    <3>1. \A other \in ApiRuns :
            /\ posts'[other].phase = "admitting" => other = r \/ posts[other].phase = "admitting"
            /\ \A q \in Replicas :
                 handling[q].step # "idle" => handling'[q] = handling[q]
      BY <2>2, <2>3, <2>4
    <3> QED  BY <2>4, <3>1, StillServed
  <2>7. BrokenOffNeverRuns'
    BY <2>3, <2>4 DEF BrokenOffNeverRuns, ControlTypeInv
  <2> QED  BY <2>1, <2>2, <2>5, <2>6, <2>7, EntersKeepsTasks
<1>4. ASSUME NEW p \in Replicas, ApplyAdmission(p) \/ Reread(p)
      PROVE  ControlInv' /\ TasksKept
  <2>1. ControlTypeInv' /\ UNCHANGED <<posts, asked, envelopes, judged, lost>>
    BY <1>4, MovesTyped
  <2>2. \A q \in Replicas :
          \/ /\ handling[q].step # "idle" <=> handling'[q].step # "idle"
             /\ handling'[q].run = handling[q].run
          \/ handling'[q].step = "idle" /\ posts[handling[q].run].phase # "admitting"
    BY <1>4, MovesTyped
  <2>3. AdmissionsOfRows'
    <3>1. \A q \in Replicas : handling'[q].step # "idle" =>
            /\ handling[q].step # "idle" /\ handling'[q].run = handling[q].run
            /\ \/ handling'[q] = handling[q]
               \/ /\ handling'[q].base = posts[handling[q].run].revision
                  /\ posts[handling[q].run].phase = "admitting"
      BY <1>4, MovesTyped DEF AdmissionsOfRows
    <3>2. \A q \in Replicas : handling[q].step # "idle" =>
            posts[handling[q].run].revision \in Nat
      BY DEF ControlTypeInv, Rows
    <3> QED  BY <2>1, <3>1, <3>2 DEF AdmissionsOfRows
  <2>4. AdmittingIsServed'
    BY <2>1, <2>2, StillServed
  <2> QED  BY <2>1, <2>3, <2>4 DEF TasksKept, BrokenOffNeverRuns
<1>5. ASSUME NEW p \in Replicas, ApplyAdmissionCommit(p)
      PROVE  ControlInv' /\ TasksKept
  <2> DEFINE r == handling[p].run
  <2>1. handling[p].step = "read" /\ posts[r].phase \in {"admitting", "terminal"}
    BY <1>5 DEF ApplyAdmissionCommit, AdmissionsOfRows
  <2>2. ControlTypeInv' /\ Answered(p) /\ r \in ApiRuns
        /\ \E phase \in {"running", "terminal"} : Enters(handling[p].run, phase)
    BY <1>5, <2>1, CommitTyped
  <2>3. PICK phase \in {"running", "terminal"} : Enters(r, phase)
    BY <2>2
  <2>4. phase \in ApiPhases /\ asked' = asked /\ lost' = lost
    BY <1>5 DEF ApplyAdmissionCommit, ApiPhases
  <2>5. posts'[r].phase = phase /\ phase # "none"
        /\ \A other \in ApiRuns \ {r} : posts'[other] = posts[other]
    BY <2>2, <2>3, <2>4, EntersRow
  <2>6. /\ handling'[p].step = "idle"
        /\ \A other \in Replicas \ {p} : handling'[other] = handling[other]
    BY <2>2, AnsweredTyped
  <2>7. r \notin lost /\ \A q \in Replicas :
          handling'[q].step # "idle" =>
            /\ handling'[q] = handling[q] /\ handling[q].run \in ApiRuns \ {r}
            /\ posts'[handling[q].run] = posts[handling[q].run]
    BY <2>1, <2>5, <2>6 DEF AdmissionsOfRows, ControlTypeInv
  <2>8. AdmissionsOfRows' /\ BrokenOffNeverRuns'
    BY <2>4, <2>5, <2>7 DEF AdmissionsOfRows, BrokenOffNeverRuns, ControlTypeInv
  <2>9. AdmittingIsServed'
    <3>1. posts'[r].phase # "admitting"
      BY <2>5
    <3> HIDE DEF r
    <3>2. \A other \in ApiRuns : posts'[other].phase = "admitting" =>
            /\ other # r /\ posts[other].phase = "admitting"
            /\ \A q \in Replicas :
                 handling[q].step # "idle" /\ handling[q].run = other =>
                   handling'[q].step # "idle" /\ handling'[q].run = other
      BY <2>6, <2>5, <3>1 DEF r
    <3> QED  BY <2>4, <3>2, StillServed
  <2> QED  BY <2>2, <2>3, <2>4, <2>8, <2>9, EntersKeepsTasks
<1>6. ASSUME NEW p \in Replicas, BreakOff(p)
      PROVE  ControlInv' /\ TasksKept
  <2>1. /\ Answered(p) /\ handling[p].run \in ApiRuns /\ handling[p].step # "idle"
        /\ lost' = lost \union {handling[p].run}
        /\ UNCHANGED <<posts, asked, envelopes, judged>>
    BY <1>6 DEF BreakOff, ControlTypeInv
  <2>2. ControlTypeInv'
    BY <2>1, AnsweredTyped DEF ControlTypeInv
  <2>3. AdmissionsOfRows' /\ BrokenOffNeverRuns'
    <3>1. \A q \in Replicas : handling'[q].step # "idle" =>
            handling'[q] = handling[q] /\ handling[q].run # handling[p].run
      BY <2>1, AnsweredTyped DEF AdmissionsOfRows
    <3> QED  BY <2>1, <3>1 DEF AdmissionsOfRows, BrokenOffNeverRuns
  <2>4. AdmittingIsServed'
    BY <2>1, AnsweredTyped DEF AdmittingIsServed, ControlTypeInv
  <2> QED  BY <2>1, <2>2, <2>3, <2>4 DEF TasksKept
<1>7. ASSUME NEW p \in Replicas, RestartReplica(p)
      PROVE  ControlInv' /\ TasksKept
  <2>1. ControlTypeInv'
    BY <1>7, RestartTyped
  <2>2. /\ handling' = [handling EXCEPT ![p] = NoHandling] /\ NoHandling.step = "idle"
        /\ lost' = IF handling[p] = NoHandling THEN lost ELSE lost \union {handling[p].run}
        /\ (handling[p] = NoHandling <=> handling[p].step = "idle")
        /\ UNCHANGED <<posts, asked>>
    BY <1>7 DEF RestartReplica, NoHandling, ControlTypeInv
  <2>3. AdmissionsOfRows'
    <3>1. \A q \in Replicas : handling'[q].step # "idle" =>
            /\ handling'[q] = handling[q]
            /\ handling[p].step # "idle" => handling[q].run # handling[p].run
      BY <2>2 DEF AdmissionsOfRows, ControlTypeInv
    <3>2. \A q \in Replicas : handling'[q].step # "idle" =>
            (handling[q].run \in lost' <=> handling[q].run \in lost)
      BY <2>2, <3>1
    <3> QED  BY <2>2, <3>1, <3>2 DEF AdmissionsOfRows
  <2>4. AdmittingIsServed'
    BY <2>2 DEF AdmittingIsServed, ControlTypeInv
  <2>5. BrokenOffNeverRuns'
    BY <2>2 DEF BrokenOffNeverRuns, AdmissionsOfRows
  <2> QED  BY <2>1, <2>2, <2>3, <2>4, <2>5 DEF TasksKept
<1>8. ASSUME NEW r \in ApiRuns, RunStep(r)
      PROVE  ControlInv' /\ TasksKept
  <2>1. PICK phase \in ApiPhases :
          /\ Enters(r, phase)
          /\ phase = "admitting" => posts[r].phase = "admitting"
          /\ posts[r].phase = "admitting" => phase \in {"admitting", "terminal"}
    BY <1>8, RunStepEffect
  <2>2. posts[r].phase \notin {"none", "terminal"}
        /\ UNCHANGED <<asked, envelopes, handling, judged, lost>>
    BY <1>8, RunStepEffect
  <2>3. posts'[r].phase = phase /\ phase # "none"
        /\ \A other \in ApiRuns \ {r} : posts'[other] = posts[other]
    BY <2>1, EntersRow
  <2>4. ControlTypeInv'
    BY <2>1, <2>2, RowsStayTyped DEF ControlTypeInv
  <2>5. AdmissionsOfRows'
    BY <2>1, <2>2, StillOfRows
  <2>6. AdmittingIsServed' /\ BrokenOffNeverRuns'
    BY <2>1, <2>2, <2>3 DEF AdmittingIsServed, BrokenOffNeverRuns, ControlTypeInv
  <2> QED  BY <2>1, <2>2, <2>4, <2>5, <2>6, EntersKeepsTasks
<1>9. CASE UNCHANGED controlVars
  BY <1>9 DEF controlVars, ControlTypeInv, AdmissionsOfRows, AdmittingIsServed,
              BrokenOffNeverRuns, TasksKept
<1> QED
  BY <1>1, <1>2, <1>3, <1>4, <1>5, <1>6, <1>7, <1>8, <1>9 DEF ControlNext, RunStep

(* The state of the control plane has its type.                            *)
THEOREM ControlTypeCorrect == ControlSpec => []ControlTypeOK
<1>1. ControlInv => ControlTypeOK
  BY DEF ControlInv, ControlTypeInv, ControlTypeOK, Rows, Handlings
<1>2. ControlInv /\ [ControlNext]_controlVars => ControlInv'
  BY ControlStep
<1> QED  BY <1>1, <1>2, ControlInitInv, PTL DEF ControlSpec

(* However many replicas serve a run, and wherever an admission of it      *)
(* breaks off (its replica dies, or its request raises after it began), a  *)
(* run whose admission broke off is never found running afterwards, and    *)
(* one that is left in admitting has an admission that is served or broke  *)
(* off.                                                                    *)
THEOREM BrokenOffStaysOut == ControlSpec => [](BrokenOffNeverRuns /\ ServedOrBrokenOff)
<1>1. ControlInv => BrokenOffNeverRuns /\ ServedOrBrokenOff
  BY DEF ControlInv, AdmittingIsServed, ServedOrBrokenOff
<1>2. ControlInv /\ [ControlNext]_controlVars => ControlInv'
  BY ControlStep
<1> QED  BY <1>1, <1>2, ControlInitInv, PTL DEF ControlSpec

-----------------------------------------------------------------------------
(* If a task that is posted again asks for what it asked for before, then  *)
(* whatever a replica knows of a task is what the task was created with,   *)
(* and so are the goals of the admissions it serves and of their results.  *)
AsAsked ==
  /\ \A r \in ApiRuns :
       posts[r].phase # "none" => asked[posts[r].task] # NoGoal
  /\ \A p \in Replicas, t \in ApiTasks :
       envelopes[p][t] # NoGoal => envelopes[p][t] = asked[t]
  /\ \A p \in Replicas :
       handling[p].step # "idle" => handling[p].goal = asked[posts[handling[p].run].task]
  /\ \A result \in judged :
       /\ posts[result.run].phase # "none"
       /\ result.goal = asked[posts[result.run].task]

LEMMA AsAskedInit == ControlInit => AsAsked
<1>1. NoPost.phase = "none" /\ NoHandling.step = "idle"
  BY DEF NoPost, NoHandling
<1> QED  BY <1>1 DEF ControlInit, AsAsked

(* What has to be seen of a step that keeps AsAsked: that new rows are of  *)
(* tasks that were asked for, envelopes as tasks were asked, admissions    *)
(* the ones served before or begun as asked, and new results theirs.       *)
LEMMA StillAsAsked ==
  ASSUME ControlTypeInv, AdmissionsOfRows, AsAsked, TasksKept,
         \A r \in ApiRuns : posts'[r].phase # "none" =>
           posts[r].phase # "none" \/ asked'[posts'[r].task] # NoGoal,
         \A p \in Replicas, t \in ApiTasks :
           \/ envelopes'[p][t] = envelopes[p][t]
           \/ envelopes'[p][t] \in {NoGoal, asked'[t]},
         \A p \in Replicas :
           \/ handling'[p].step = "idle"
           \/ /\ handling[p].step # "idle"
              /\ handling'[p].run = handling[p].run /\ handling'[p].goal = handling[p].goal
           \/ handling'[p].goal = asked'[posts'[handling'[p].run].task],
         \A result \in judged' :
           \/ result \in judged
           \/ \E p \in Replicas :
                /\ handling[p].step # "idle"
                /\ result.run = handling[p].run /\ result.goal = handling[p].goal
  PROVE  AsAsked'
<1>1. \A r \in ApiRuns : posts[r].phase # "none" =>
        /\ posts'[r].phase # "none" /\ posts'[r].task = posts[r].task
        /\ asked'[posts'[r].task] = asked[posts[r].task]
        /\ asked'[posts'[r].task] # NoGoal
  BY DEF ControlTypeInv, TasksKept, AsAsked
<1>2. \A p \in Replicas : handling[p].step # "idle" =>
        /\ handling[p].run \in ApiRuns /\ posts[handling[p].run].phase # "none"
        /\ handling[p].goal = asked[posts[handling[p].run].task]
  BY DEF ControlTypeInv, AdmissionsOfRows, AsAsked
<1>3. \A p \in Replicas : handling[p].step # "idle" =>
        /\ posts'[handling[p].run].phase # "none"
        /\ handling[p].goal = asked'[posts'[handling[p].run].task]
  BY <1>1, <1>2
<1>4. \A result \in judged :
        result.run \in ApiRuns /\ posts[result.run].phase # "none"
        /\ result.goal = asked[posts[result.run].task]
  BY DEF ControlTypeInv, Results, AsAsked
<1>5. \A r \in ApiRuns : posts'[r].phase # "none" => asked'[posts'[r].task] # NoGoal
  BY <1>1
<1>6. \A p \in Replicas, t \in ApiTasks :
        envelopes'[p][t] # NoGoal => envelopes'[p][t] = asked'[t]
  BY DEF TasksKept, AsAsked
<1>7. \A p \in Replicas :
        handling'[p].step # "idle" =>
          handling'[p].goal = asked'[posts'[handling'[p].run].task]
  BY <1>3
<1>8. \A result \in judged' :
        /\ posts'[result.run].phase # "none"
        /\ result.goal = asked'[posts'[result.run].task]
  <2> SUFFICES ASSUME NEW result \in judged'
               PROVE  /\ posts'[result.run].phase # "none"
                      /\ result.goal = asked'[posts'[result.run].task]
    OBVIOUS
  <2>1. CASE result \in judged
    BY <1>1, <1>4, <2>1
  <2>2. CASE result \notin judged
    <3>1. PICK p \in Replicas :
            /\ handling[p].step # "idle"
            /\ result.run = handling[p].run /\ result.goal = handling[p].goal
      BY <2>2
    <3> QED  BY <1>3, <3>1
  <2> QED  BY <2>1, <2>2
<1> QED  BY <1>5, <1>6, <1>7, <1>8 DEF AsAsked

LEMMA AsAskedStep ==
  ASSUME SameAgain, ControlInv, AsAsked, [ControlNext]_controlVars
  PROVE  AsAsked'
<1>0. ControlTypeInv /\ AdmissionsOfRows /\ TasksKept
  BY ControlStep DEF ControlInv
<1>1. ASSUME NEW p \in Replicas, NEW t \in ApiTasks, NEW goal \in Goals,
             NEW r \in ApiRuns, CreateRun(p, r, t, goal)
      PROVE  AsAsked'
  <2>1. /\ posts'[r].task = t /\ asked'[t] = goal /\ goal # NoGoal
        /\ \A other \in ApiRuns \ {r} : posts'[other] = posts[other]
        /\ UNCHANGED <<handling, judged>>
    BY <1>0, <1>1, CreateTyped, GoalAssumption DEF CreateRun, ControlTypeInv
  <2>2. \A q \in Replicas, task \in ApiTasks :
          envelopes'[q][task] = envelopes[q][task] \/ envelopes'[q][task] = asked'[task]
    BY <1>0, <1>1, <2>1 DEF CreateRun, Remembered, ControlTypeInv
  <2> QED  BY <1>0, <2>1, <2>2, StillAsAsked
<1>2. ASSUME NEW p \in Replicas, NEW t \in ApiTasks, NEW goal \in Goals,
             CreateRunAgain(p, t, goal)
      PROVE  AsAsked'
  <2>1. /\ goal = asked[t] /\ UNCHANGED <<posts, asked, handling, judged>>
        /\ envelopes' = [envelopes EXCEPT ![p][t] = goal]
    BY <1>2 DEF CreateRunAgain, Remembered
  <2>2. \A q \in Replicas, task \in ApiTasks :
          envelopes'[q][task] = envelopes[q][task] \/ envelopes'[q][task] = asked'[task]
    BY <1>0, <2>1 DEF ControlTypeInv
  <2> QED  BY <1>0, <2>1, <2>2, StillAsAsked
<1>3. ASSUME NEW p \in Replicas, NEW r \in ApiRuns, AdmitRun(p, r)
      PROVE  AsAsked'
  <2> DEFINE goal == envelopes[p][posts[r].task]
  <2>1. /\ posts[r].phase # "none" /\ posts[r].task \in ApiTasks
        /\ UNCHANGED <<asked, envelopes, judged>>
    BY <1>0, <1>3 DEF AdmitRun, ControlTypeInv
  <2>2. posts'[r].task = posts[r].task
        /\ \A other \in ApiRuns \ {r} : posts'[other] = posts[other]
    BY <1>0, <1>3, EntersRow DEF AdmitRun, ApiPhases
  <2>3. \A q \in Replicas :
          \/ handling'[q] = handling[q]
          \/ /\ handling'[q].run = r /\ handling'[q].goal = goal
             /\ q = p /\ goal # NoGoal
    BY <1>0, <1>3 DEF AdmitRun, ControlTypeInv
  <2>4. goal # NoGoal => goal = asked'[posts'[r].task]
    BY <2>1, <2>2 DEF AsAsked
  <2>5. \A other \in ApiRuns :
          posts'[other].phase # "none" => posts[other].phase # "none"
    BY <2>1, <2>2
  <2> HIDE DEF goal
  <2> QED  BY <1>0, <2>1, <2>3, <2>4, <2>5, StillAsAsked
<1>4. ASSUME NEW p \in Replicas, ApplyAdmission(p) \/ Reread(p)
      PROVE  AsAsked'
  <2>1. UNCHANGED <<posts, asked, envelopes, judged>>
        /\ \A q \in Replicas :
             \/ handling'[q] = handling[q]
             \/ handling'[q].step = "idle"
             \/ /\ handling[q].step # "idle"
                /\ handling'[q].run = handling[q].run /\ handling'[q].goal = handling[q].goal
    BY <1>0, <1>4, MovesTyped
  <2> QED  BY <1>0, <2>1, StillAsAsked
<1>5. ASSUME NEW p \in Replicas, ApplyAdmissionCommit(p)
      PROVE  AsAsked'
  <2>1. /\ handling[p].step = "read" /\ posts[handling[p].run].phase # "none"
        /\ UNCHANGED <<asked, envelopes>>
    BY <1>0, <1>5 DEF ApplyAdmissionCommit, AdmissionsOfRows
  <2>2. /\ Answered(p) /\ handling[p].run \in ApiRuns
        /\ \E phase \in {"running", "terminal"} : Enters(handling[p].run, phase)
    BY <1>0, <1>5, <2>1, CommitTyped
  <2>3. \A q \in Replicas : handling'[q] = handling[q] \/ handling'[q].step = "idle"
    BY <1>0, <2>2, AnsweredTyped
  <2>4. \A other \in ApiRuns \ {handling[p].run} : posts'[other] = posts[other]
    BY <1>0, <2>2, EntersRow DEF ApiPhases
  <2>5. \A other \in ApiRuns :
          posts'[other].phase # "none" => posts[other].phase # "none"
    BY <2>1, <2>4
  <2>6. \A result \in judged' :
          \/ result \in judged
          \/ result.run = handling[p].run /\ result.goal = handling[p].goal
    BY <1>5 DEF ApplyAdmissionCommit
  <2> QED  BY <1>0, <2>1, <2>3, <2>5, <2>6, StillAsAsked
<1>6. ASSUME NEW p \in Replicas, BreakOff(p)
      PROVE  AsAsked'
  <2>1. UNCHANGED <<posts, asked, envelopes, judged>>
        /\ \A q \in Replicas : handling'[q] = handling[q] \/ handling'[q].step = "idle"
    BY <1>0, <1>6, AnsweredTyped DEF BreakOff
  <2> QED  BY <1>0, <2>1, StillAsAsked
<1>7. ASSUME NEW p \in Replicas, RestartReplica(p)
      PROVE  AsAsked'
  <2>1. /\ UNCHANGED <<posts, asked, judged>>
        /\ handling' = [handling EXCEPT ![p] = NoHandling] /\ NoHandling.step = "idle"
        /\ envelopes' = [envelopes EXCEPT ![p] = [t \in ApiTasks |-> NoGoal]]
    BY <1>7 DEF RestartReplica, NoHandling
  <2>2. \A q \in Replicas : handling'[q] = handling[q] \/ handling'[q].step = "idle"
    BY <1>0, <2>1 DEF ControlTypeInv
  <2>3. \A q \in Replicas, t \in ApiTasks :
          envelopes'[q][t] = envelopes[q][t] \/ envelopes'[q][t] = NoGoal
    BY <1>0, <2>1 DEF ControlTypeInv
  <2> QED  BY <1>0, <2>1, <2>2, <2>3, StillAsAsked
<1>8. ASSUME NEW r \in ApiRuns, RunStep(r)
      PROVE  AsAsked'
  <2>1. posts[r].phase # "none" /\ UNCHANGED <<asked, envelopes, handling, judged>>
    BY <1>0, <1>8, RunStepEffect
  <2>2. \A other \in ApiRuns \ {r} : posts'[other] = posts[other]
    BY <1>0, <1>8, RunStepEffect, EntersRow
  <2>3. \A other \in ApiRuns :
          posts'[other].phase # "none" => posts[other].phase # "none"
    BY <2>1, <2>2
  <2> QED  BY <1>0, <2>1, <2>3, StillAsAsked
<1>9. CASE UNCHANGED controlVars
  BY <1>0, <1>9 DEF controlVars, AsAsked
<1> QED
  BY <1>1, <1>2, <1>3, <1>4, <1>5, <1>6, <1>7, <1>8, <1>9 DEF ControlNext, RunStep

(* RunsAsAsked is kept: only the commit of an admission makes a run run,   *)
(* if the goal it was evaluated with is compatible, and that goal is what  *)
(* its task was created with.                                              *)
LEMMA RunsAsAskedStep ==
  ASSUME ControlInv, AsAsked, RunsAsAsked, [ControlNext]_controlVars
  PROVE  RunsAsAsked'
<1>0. ControlTypeInv /\ AdmissionsOfRows /\ TasksKept
  BY ControlStep DEF ControlInv
<1>1. ASSUME \A r \in ApiRuns : posts'[r].phase \in {"running", "paused"} =>
               posts[r].phase \in {"running", "paused"}
      PROVE  RunsAsAsked'
  <2> SUFFICES ASSUME NEW r \in ApiRuns, posts'[r].phase \in {"running", "paused"}
               PROVE  asked'[posts'[r].task] \in Compatible
    BY DEF RunsAsAsked
  <2>1. /\ posts[r].phase \in {"running", "paused"} /\ posts[r].phase # "none"
        /\ posts[r].task \in ApiTasks
    BY <1>0, <1>1 DEF ControlTypeInv
  <2>2. posts'[r].task = posts[r].task /\ asked'[posts[r].task] = asked[posts[r].task]
    BY <1>0, <2>1 DEF TasksKept, AsAsked
  <2> QED  BY <2>1, <2>2 DEF RunsAsAsked
<1>2. ASSUME UNCHANGED posts
      PROVE  RunsAsAsked'
  BY <1>1, <1>2
<1>3. ASSUME NEW p \in Replicas, NEW t \in ApiTasks, NEW goal \in Goals,
             NEW r \in ApiRuns, CreateRun(p, r, t, goal)
      PROVE  RunsAsAsked'
  BY <1>0, <1>1, <1>3, CreateTyped
<1>4. ASSUME NEW p \in Replicas, NEW r \in ApiRuns, AdmitRun(p, r)
      PROVE  RunsAsAsked'
  <2>1. Enters(r, "admitting") /\ "admitting" \in ApiPhases
    BY <1>4 DEF AdmitRun, ApiPhases
  <2>2. posts'[r].phase = "admitting"
        /\ \A other \in ApiRuns \ {r} : posts'[other] = posts[other]
    BY <1>0, <2>1, EntersRow
  <2> QED  BY <1>1, <2>2
<1>5. ASSUME NEW p \in Replicas, ApplyAdmissionCommit(p)
      PROVE  RunsAsAsked'
  <2> DEFINE r == handling[p].run
             phase == IF handling[p].goal \in Compatible THEN "running" ELSE "terminal"
  <2>1. r \in ApiRuns /\ Enters(r, phase) /\ phase \in ApiPhases /\ asked' = asked
        /\ handling[p].step # "idle"
    BY <1>0, <1>5 DEF ApplyAdmissionCommit, Applies, ControlTypeInv, ApiPhases
  <2>2. posts'[r].phase = phase /\ posts'[r].task = posts[r].task
        /\ \A other \in ApiRuns \ {r} : posts'[other] = posts[other]
    BY <1>0, <2>1, EntersRow
  <2>3. handling[p].goal = asked[posts[r].task]
    BY <2>1 DEF AsAsked
  <2> QED  BY <2>1, <2>2, <2>3 DEF RunsAsAsked
<1>6. ASSUME NEW r \in ApiRuns, RunStep(r)
      PROVE  RunsAsAsked'
  <2>1. PICK phase \in ApiPhases :
          Enters(r, phase) /\ (phase \in {"running", "paused"} => posts[r].phase = "running")
    BY <1>0, <1>6, RunStepEffect
  <2>2. posts'[r].phase = phase
        /\ \A other \in ApiRuns \ {r} : posts'[other] = posts[other]
    BY <1>0, <2>1, EntersRow
  <2> QED  BY <1>1, <2>1, <2>2
<1>7. ASSUME NEW p \in Replicas,
             \/ \E t \in ApiTasks, goal \in Goals : CreateRunAgain(p, t, goal)
             \/ ApplyAdmission(p) \/ Reread(p) \/ BreakOff(p) \/ RestartReplica(p)
      PROVE  RunsAsAsked'
  <2>1. UNCHANGED posts
    BY <1>7 DEF CreateRunAgain, ApplyAdmission, Reread, BreakOff, RestartReplica
  <2> QED  BY <1>2, <2>1
<1>8. CASE UNCHANGED controlVars
  BY <1>2, <1>8 DEF controlVars
<1> QED
  BY <1>3, <1>4, <1>5, <1>6, <1>7, <1>8 DEF ControlNext, RunStep

(* AdmissionsAreSound: whichever replicas, restarts and repeated posts an  *)
(* admission goes through, and wherever it breaks off, its result was      *)
(* evaluated with what the task was created with, the run runs only if     *)
(* that is compatible with its release, and a run whose admission broke    *)
(* off does not.  SameAgain is needed: MCControlEnvelope shows the first   *)
(* of these fail without it.                                               *)
THEOREM AdmissionsSoundIfSame ==
  ASSUME SameAgain
  PROVE  ControlSpec => []AdmissionsAreSound
<1> DEFINE Inv == ControlInv /\ AsAsked /\ RunsAsAsked
<1>1. Inv => AdmissionsAreSound
  BY DEF ControlInv, AdmittingIsServed, ServedOrBrokenOff, AsAsked, JudgedAsCreated,
         AdmissionsAreSound
<1>2. ControlInit => Inv
  <2>1. ControlInit => RunsAsAsked
    BY DEF ControlInit, RunsAsAsked, NoPost
  <2> QED  BY <2>1, ControlInitInv, AsAskedInit
<1>3. Inv /\ [ControlNext]_controlVars => Inv'
  BY SameAgain, ControlStep, AsAskedStep, RunsAsAskedStep
<1> HIDE DEF Inv
<1> QED  BY <1>1, <1>2, <1>3, PTL DEF ControlSpec

-----------------------------------------------------------------------------
(* WorkflowRun.  A run is of a definition that stands, its nodes wait for  *)
(* what that definition says, and what was started is no longer pending.   *)
WorkflowInv ==
  /\ WorkflowTypeOK
  /\ ~ Exists => started = {}
  /\ Exists =>
       /\ workflow \in WorkflowRuns
       /\ definitions[workflow.version] \in SUBSET (Nodes \X Nodes)
       /\ definitions[workflow.version] # NoDefinition
       /\ \A n \in Nodes : workflow.needs[n] =
            {m \in Nodes : <<m, n>> \in definitions[workflow.version]}
       /\ \A n \in started : workflow.node[n] # "pending"
       /\ \A n \in Nodes : workflow.node[n] # "pending" =>
            \A m \in workflow.needs[n] : workflow.node[m] \in {"completed", "failed"}

LEMMA WorkflowInitInv == WorkflowInit => WorkflowInv
BY DEF WorkflowInit, WorkflowInv, WorkflowTypeOK, Exists

LEMMA WorkflowRunFields ==
  ASSUME NEW run \in WorkflowRuns
  PROVE  /\ run.version \in Versions /\ run.status \in RunStatuses
         /\ run.node \in [Nodes -> NodeStatuses]
         /\ run.needs \in [Nodes -> SUBSET Nodes]
         /\ run # NoWorkflow
BY DEF WorkflowRuns, NoWorkflow, RunStatuses

(* What a step that goes on with a run may do to it.                       *)
GoesOn ==
  /\ Exists /\ workflow' \in WorkflowRuns
  /\ workflow'.version = workflow.version /\ workflow'.needs = workflow.needs
  /\ UNCHANGED definitions

LEMMA NodeWritten ==
  ASSUME WorkflowInv, Exists, NEW n \in Nodes, NEW status \in NodeStatuses,
         NEW of \in RunStatuses,
         workflow' = [workflow EXCEPT !.node[n] = status, !.status = of]
  PROVE  /\ workflow' \in WorkflowRuns /\ workflow'.status = of
         /\ workflow'.version = workflow.version /\ workflow'.needs = workflow.needs
         /\ workflow'.node[n] = status
         /\ \A m \in Nodes \ {n} : workflow'.node[m] = workflow.node[m]
<1>1. workflow \in WorkflowRuns
  BY DEF WorkflowInv
<1> DEFINE first == [workflow EXCEPT !.node[n] = status]
<1>2. /\ first \in WorkflowRuns /\ first.version = workflow.version
      /\ first.needs = workflow.needs /\ first.node[n] = status
      /\ first.status = workflow.status
      /\ \A m \in Nodes \ {n} : first.node[m] = workflow.node[m]
  BY <1>1 DEF WorkflowRuns
<1>3. workflow' = [first EXCEPT !.status = of]
  OBVIOUS
<1> HIDE DEF first
<1> QED  BY <1>2, <1>3 DEF WorkflowRuns

LEMMA CompletedEffect ==
  ASSUME WorkflowInv, NEW n \in Nodes, CompleteNode(n)
  PROVE  /\ GoesOn /\ started' = started /\ n \in started
         /\ workflow'.node[n] = "completed"
         /\ \A m \in Nodes \ {n} : workflow'.node[m] = workflow.node[m]
         /\ IF \A m \in Nodes : workflow'.node[m] = "completed"
              THEN workflow'.status = "completed"
              ELSE workflow'.status = workflow.status
<1> DEFINE done == [workflow EXCEPT !.node[n] = "completed"]
<1>1. workflow \in WorkflowRuns /\ Exists /\ n \in started /\ workflow' = Completed(n)
      /\ UNCHANGED <<definitions, started>>
  BY DEF WorkflowInv, CompleteNode
<1>2. /\ done \in WorkflowRuns /\ done.version = workflow.version
      /\ done.needs = workflow.needs /\ done.node[n] = "completed"
      /\ done.status = workflow.status
      /\ \A m \in Nodes \ {n} : done.node[m] = workflow.node[m]
  BY <1>1 DEF WorkflowRuns, NodeStatuses
<1>3. workflow' = IF \A m \in Nodes : done.node[m] = "completed"
                    THEN [done EXCEPT !.status = "completed"] ELSE done
  BY <1>1 DEF Completed
<1> HIDE DEF done
<1>4. CASE \A m \in Nodes : done.node[m] = "completed"
  BY <1>1, <1>2, <1>3, <1>4 DEF GoesOn, WorkflowRuns, RunStatuses
<1>5. CASE ~ \A m \in Nodes : done.node[m] = "completed"
  BY <1>1, <1>2, <1>3, <1>5 DEF GoesOn
<1> QED  BY <1>4, <1>5

LEMMA FailedEffect ==
  ASSUME WorkflowInv, NEW n \in Nodes, FailNode(n)
  PROVE  /\ GoesOn /\ started' = started /\ n \in started
         /\ workflow'.node[n] = "failed" /\ workflow'.status = "failed"
         /\ \A m \in Nodes \ {n} : workflow'.node[m] = workflow.node[m]
<1>1. "failed" \in NodeStatuses /\ "failed" \in RunStatuses
  BY DEF NodeStatuses, RunStatuses
<1> QED  BY <1>1, NodeWritten DEF FailNode, GoesOn

LEMMA ScheduledEffect ==
  ASSUME WorkflowInv, ScheduleReady
  PROVE  /\ GoesOn /\ started' = started \union Ready /\ Ready # {}
         /\ workflow'.status = "running"
         /\ \A m \in Nodes : workflow'.node[m] =
              IF m \in Ready THEN "running" ELSE workflow.node[m]
<1>1. workflow \in WorkflowRuns /\ Exists
  BY DEF WorkflowInv, ScheduleReady
<1> DEFINE next == [m \in Nodes |-> IF m \in Ready THEN "running" ELSE workflow.node[m]]
           first == [workflow EXCEPT !.status = "running"]
<1>2. next \in [Nodes -> NodeStatuses]
  BY <1>1, WorkflowRunFields DEF NodeStatuses
<1>3. /\ first \in WorkflowRuns /\ first.version = workflow.version
      /\ first.needs = workflow.needs /\ first.node = workflow.node
      /\ first.status = "running"
  BY <1>1 DEF WorkflowRuns, RunStatuses
<1>4. workflow' = [first EXCEPT !.node = next]
  BY <1>3, <1>1 DEF ScheduleReady, WorkflowRuns
<1>5. \A m \in Nodes : next[m] = IF m \in Ready THEN "running" ELSE workflow.node[m]
  OBVIOUS
<1> HIDE DEF first, next
<1>6. /\ workflow' \in WorkflowRuns /\ workflow'.version = first.version
      /\ workflow'.needs = first.needs /\ workflow'.node = next
      /\ workflow'.status = first.status
  BY <1>2, <1>3, <1>4 DEF WorkflowRuns
<1> QED  BY <1>1, <1>3, <1>5, <1>6 DEF ScheduleReady, GoesOn

LEMMA InstantiateInv ==
  ASSUME WorkflowInv, NEW v \in Versions, Instantiate(v)
  PROVE  WorkflowInv' /\ (workflow'.status = "pending" /\ \A n \in Nodes : workflow'.node[n] = "pending")
<1> DEFINE needs == [n \in Nodes |-> {m \in Nodes : <<m, n>> \in definitions[v]}]
           node == [n \in Nodes |-> "pending"]
<1>1. /\ needs \in [Nodes -> SUBSET Nodes] /\ node \in [Nodes -> NodeStatuses]
      /\ \A n \in Nodes : node[n] = "pending"
      /\ \A n \in Nodes : needs[n] = {m \in Nodes : <<m, n>> \in definitions[v]}
  BY DEF NodeStatuses
<1>2. workflow' = [version |-> v, status |-> "pending", node |-> node, needs |-> needs]
  BY DEF Instantiate
<1>3. /\ ~ Exists /\ started = {} /\ UNCHANGED <<definitions, started>>
      /\ definitions[v] # NoDefinition /\ definitions[v] \in Edges
  BY DEF Instantiate, Exists, WorkflowInv, WorkflowTypeOK
<1>4. definitions[v] \in SUBSET (Nodes \X Nodes)
  BY <1>3, WorkflowAssumption
<1> HIDE DEF needs, node
<1>5. /\ workflow' \in WorkflowRuns /\ workflow'.version = v /\ workflow'.needs = needs
      /\ workflow'.node = node /\ workflow'.status = "pending"
  BY <1>1, <1>2 DEF WorkflowRuns, RunStatuses
<1>6. Exists'
  BY <1>5, WorkflowRunFields DEF Exists
<1>7. WorkflowTypeOK'
  BY <1>3, <1>5 DEF WorkflowInv, WorkflowTypeOK
<1> QED  BY <1>1, <1>3, <1>4, <1>5, <1>6, <1>7 DEF WorkflowInv

LEMMA RegisterInv ==
  ASSUME WorkflowInv, NEW v \in Versions, NEW edges \in Edges, Register(v, edges)
  PROVE  WorkflowInv' /\ workflow' = workflow
<1>1. /\ definitions' = [definitions EXCEPT ![v] = edges] /\ definitions[v] = NoDefinition
      /\ workflow' = workflow /\ started' = started
  BY DEF Register
<1>2. WorkflowTypeOK'
  BY <1>1 DEF WorkflowInv, WorkflowTypeOK
<1>3. CASE Exists
  <2>1. workflow.version \in Versions /\ workflow.version # v
    BY <1>1, <1>3, WorkflowRunFields DEF WorkflowInv
  <2>2. definitions'[workflow.version] = definitions[workflow.version]
    BY <1>1, <2>1 DEF WorkflowInv, WorkflowTypeOK
  <2> QED  BY <1>1, <1>2, <1>3, <2>2 DEF WorkflowInv, Exists
<1>4. CASE ~ Exists
  BY <1>1, <1>2, <1>4 DEF WorkflowInv, Exists
<1> QED  BY <1>3, <1>4

(* A run goes on as it should if nodes only leave the pending state when   *)
(* what they wait for has completed, and nodes that ended stay ended.      *)
LEMMA GoesOnInv ==
  ASSUME WorkflowInv, GoesOn, started' \subseteq Nodes,
         \A n \in started' : workflow'.node[n] # "pending",
         \A n \in Nodes : workflow'.node[n] # "pending" =>
           \/ workflow.node[n] # "pending"
           \/ \A m \in workflow.needs[n] : workflow.node[m] = "completed",
         \A n \in Nodes : workflow.node[n] \in {"completed", "failed"} =>
           workflow'.node[n] \in {"completed", "failed"}
  PROVE  WorkflowInv'
<1>1. /\ workflow \in WorkflowRuns /\ workflow' \in WorkflowRuns
      /\ Exists' /\ workflow'.version = workflow.version
      /\ workflow'.needs = workflow.needs /\ definitions' = definitions
  BY WorkflowRunFields DEF WorkflowInv, GoesOn, Exists
<1>2. WorkflowTypeOK'
  BY <1>1 DEF WorkflowInv, WorkflowTypeOK
<1>3. \A n \in Nodes : workflow'.node[n] # "pending" =>
        \A m \in workflow'.needs[n] : workflow'.node[m] \in {"completed", "failed"}
  <2>1. \A n \in Nodes : workflow.needs[n] \subseteq Nodes
    BY <1>1, WorkflowRunFields
  <2> QED  BY <1>1, <2>1 DEF WorkflowInv, GoesOn
<1> QED  BY <1>1, <1>2, <1>3 DEF WorkflowInv, GoesOn

LEMMA WorkflowStep ==
  ASSUME WorkflowInv, [WorkflowNext]_workflowVars
  PROVE  WorkflowInv'
<1>0. started \subseteq Nodes
  BY DEF WorkflowInv, WorkflowTypeOK
<1>1. CASE ScheduleReady
  <2>1. \A n \in Ready : n \in Nodes /\ workflow.node[n] = "pending"
          /\ \A m \in workflow.needs[n] : workflow.node[m] = "completed"
    BY DEF Ready, NodesIn
  <2>2. Exists /\ \A n \in started : workflow.node[n] # "pending"
    BY <1>1 DEF WorkflowInv, ScheduleReady
  <2> QED  BY <1>0, <1>1, <2>1, <2>2, ScheduledEffect, GoesOnInv
<1>2. ASSUME NEW n \in Nodes, CompleteNode(n)
      PROVE  WorkflowInv'
  <2>1. Exists /\ \A m \in started : workflow.node[m] # "pending"
    BY <1>2 DEF WorkflowInv, CompleteNode
  <2> QED  BY <1>0, <1>2, <2>1, CompletedEffect, GoesOnInv
<1>3. ASSUME NEW n \in Nodes, FailNode(n)
      PROVE  WorkflowInv'
  <2>1. Exists /\ \A m \in started : workflow.node[m] # "pending"
    BY <1>3 DEF WorkflowInv, FailNode
  <2> QED  BY <1>0, <1>3, <2>1, FailedEffect, GoesOnInv
<1>4. CASE UNCHANGED workflowVars
  BY <1>4 DEF workflowVars, WorkflowInv, WorkflowTypeOK, Exists
<1> QED  BY <1>1, <1>2, <1>3, <1>4, InstantiateInv, RegisterInv DEF WorkflowNext

(* What a workflow run, its definitions and its started nodes are.         *)
THEOREM WorkflowTypeCorrect == WorkflowSpec => []WorkflowTypeOK
<1>1. WorkflowInv => WorkflowTypeOK
  BY DEF WorkflowInv
<1>2. WorkflowInv /\ [WorkflowNext]_workflowVars => WorkflowInv'
  BY WorkflowStep
<1> QED  BY <1>1, <1>2, WorkflowInitInv, PTL DEF WorkflowSpec

(* The edges of the definition and what the nodes of the run wait for.     *)
LEMMA EdgesAreNeeds ==
  ASSUME WorkflowInv, Exists, NEW e \in definitions[workflow.version]
  PROVE  e[1] \in Nodes /\ e[2] \in Nodes /\ e[1] \in workflow.needs[e[2]]
<1>1. e \in Nodes \X Nodes
  BY DEF WorkflowInv
<1>2. e[1] \in Nodes /\ e[2] \in Nodes /\ e = <<e[1], e[2]>>
  BY <1>1
<1> QED  BY <1>2 DEF WorkflowInv

LEMMA DependenciesKept == WorkflowInv => DependenciesAnswered
BY EdgesAreNeeds DEF WorkflowInv, DependenciesAnswered

LEMMA StartsStep ==
  ASSUME WorkflowInv, [WorkflowNext]_workflowVars, Exists,
         NEW e \in definitions[workflow.version],
         workflow.node[e[2]] = "pending", workflow'.node[e[2]] # "pending"
  PROVE  workflow.node[e[1]] = "completed"
<1>0. e[1] \in Nodes /\ e[2] \in Nodes /\ e[1] \in workflow.needs[e[2]]
  BY EdgesAreNeeds
<1>1. CASE ScheduleReady
  <2>1. e[2] \in Ready
    BY <1>0, <1>1, ScheduledEffect
  <2> QED  BY <1>0, <2>1 DEF Ready, NodesIn
<1>2. ASSUME NEW n \in Nodes, CompleteNode(n) \/ FailNode(n)
      PROVE  FALSE
  <2>1. n \in started /\ \A m \in Nodes \ {n} : workflow'.node[m] = workflow.node[m]
    BY <1>2, CompletedEffect, FailedEffect
  <2>2. e[2] # n
    BY <2>1 DEF WorkflowInv
  <2> QED  BY <1>0, <2>1, <2>2
<1>3. ASSUME NEW v \in Versions, Instantiate(v)
      PROVE  FALSE
  BY <1>3 DEF Instantiate, Exists
<1>4. ASSUME NEW v \in Versions, NEW edges \in Edges, Register(v, edges)
      PROVE  FALSE
  BY <1>4 DEF Register
<1>5. CASE UNCHANGED workflowVars
  BY <1>5 DEF workflowVars
<1> QED  BY <1>1, <1>2, <1>3, <1>4, <1>5 DEF WorkflowNext

(* The status of the run, with the nodes looked at one by one.             *)
StatusTold ==
  Exists => (workflow.status = "completed"
               <=> \A n \in Nodes : workflow.node[n] = "completed")

LEMMA StatusStep ==
  ASSUME Nodes # {}, WorkflowInv, StatusTold, [WorkflowNext]_workflowVars
  PROVE  StatusTold'
<1>0. PICK one \in Nodes : TRUE
  OBVIOUS
<1>1. CASE ScheduleReady
  <2>1. PICK n \in Ready : TRUE
    BY <1>1, ScheduledEffect
  <2>2. n \in Nodes /\ workflow'.node[n] = "running" /\ workflow'.status = "running"
    BY <1>1, <2>1, ScheduledEffect DEF Ready, NodesIn
  <2> QED  BY <2>2 DEF StatusTold
<1>2. ASSUME NEW n \in Nodes, CompleteNode(n)
      PROVE  StatusTold'
  <2>1. Exists
    BY <1>2 DEF CompleteNode
  <2>2. CASE \A m \in Nodes : workflow'.node[m] = "completed"
    BY <1>2, <2>2, CompletedEffect DEF StatusTold
  <2>3. CASE ~ \A m \in Nodes : workflow'.node[m] = "completed"
    <3>1. ~ \A m \in Nodes : workflow.node[m] = "completed"
      BY <1>2, <2>3, CompletedEffect
    <3> QED  BY <1>2, <2>1, <2>3, <3>1, CompletedEffect DEF StatusTold
  <2> QED  BY <2>2, <2>3
<1>3. ASSUME NEW n \in Nodes, FailNode(n)
      PROVE  StatusTold'
  BY <1>3, FailedEffect DEF StatusTold
<1>4. ASSUME NEW v \in Versions, Instantiate(v)
      PROVE  StatusTold'
  BY <1>0, <1>4, InstantiateInv DEF StatusTold
<1>5. ASSUME NEW v \in Versions, NEW edges \in Edges, Register(v, edges)
      PROVE  StatusTold'
  BY <1>5, RegisterInv DEF StatusTold, Exists
<1>6. CASE UNCHANGED workflowVars
  BY <1>6 DEF workflowVars, StatusTold, Exists
<1> QED  BY <1>1, <1>2, <1>3, <1>4, <1>5, <1>6 DEF WorkflowNext

(* Whatever answers come late, twice or against one another, no node       *)
(* starts before all it depends on is completed, what started builds on    *)
(* ended nodes, and a run with nodes is completed exactly when they all    *)
(* are.  (A run without nodes is never completed: schedule_ready finds     *)
(* nothing to start.)                                                      *)
THEOREM OrderKeptIfNodes ==
  ASSUME Nodes # {}
  PROVE  WorkflowSpec => WorkflowKeepsOrder
<1>1. WorkflowInit => WorkflowInv /\ StatusTold
  BY WorkflowInitInv DEF WorkflowInit, StatusTold, Exists
<1>2. WorkflowInv /\ StatusTold /\ [WorkflowNext]_workflowVars => WorkflowInv' /\ StatusTold'
  BY WorkflowStep, StatusStep
<1>3. WorkflowInv /\ StatusTold => DependenciesAnswered /\ CompletedMeansAll
  <2>1. StatusTold => CompletedMeansAll
    BY DEF StatusTold, CompletedMeansAll, NodesIn
  <2> QED  BY <2>1, DependenciesKept
<1>4. WorkflowInv /\ [WorkflowNext]_workflowVars =>
        [StartsInOrder]_workflowVars
  BY StartsStep DEF StartsInOrder
<1> QED
  BY <1>1, <1>2, <1>3, <1>4, PTL DEF WorkflowSpec, WorkflowKeepsOrder

-----------------------------------------------------------------------------
(* EvolutionRelease.  Lists that only grow.                                *)
Extends(old, new) ==
  DOMAIN old \subseteq DOMAIN new /\ \A i \in DOMAIN old : new[i] = old[i]

LEMMA Grown ==
  ASSUME NEW S, NEW s \in Seq(S), NEW e \in S
  PROVE  LET new == Append(s, e) IN
         /\ new \in Seq(S) /\ Extends(s, new)
         /\ DOMAIN new = DOMAIN s \union {Len(s) + 1} /\ new[Len(s) + 1] = e
         /\ Len(s) + 1 \in Nat /\ DOMAIN s \subseteq Nat
BY LenProperties DEF Extends

LEMMA Unchanged ==
  ASSUME NEW s, NEW new, new = s
  PROVE  Extends(s, new)
BY DEF Extends

DraftsOf == {Propose(input) : input \in Inputs}

(* EvolutionIsJustified, with the places in the six lists that the links   *)
(* of a chain point to: what they point to is there.                       *)
TriggersSound == \A t \in DOMAIN triggers : triggers[t].evidence

ProposalsSound ==
  \A p \in DOMAIN proposals :
    /\ proposals[p].trigger \in DOMAIN triggers \union {0}
    /\ proposals[p].status = "validated" <=> IsValid(proposals[p].draft)

GenomesSound == \A g \in DOMAIN genomes : genomes[g] \in DOMAIN proposals \union {0}

CandidatesSound ==
  \A c \in DOMAIN candidates : candidates[c] \in DOMAIN genomes \/ candidates[c] = 0

Tells(run) ==
  \/ /\ run.status = "completed"
     /\ run.proposal \in DOMAIN proposals
     /\ proposals[run.proposal].status = "validated"
     /\ proposals[run.proposal].trigger = run.trigger
     /\ \E g \in DOMAIN genomes : genomes[g] = run.proposal
     /\ run.candidate # 0 =>
          /\ run.candidate \in DOMAIN candidates
          /\ candidates[run.candidate] \in DOMAIN genomes
          /\ genomes[candidates[run.candidate]] = run.proposal
  \/ /\ run.status = "aborted" /\ run.candidate = 0
     /\ run.proposal \in DOMAIN proposals
     /\ proposals[run.proposal].status = "rejected"
     /\ proposals[run.proposal].trigger = run.trigger
  \/ /\ run.status \in {"running", "no_evolution_needed"}
     /\ run.proposal = 0 /\ run.candidate = 0

RunsSound == \A i \in DOMAIN evolutions : Tells(evolutions[i])

ReleasesSound ==
  \A i \in DOMAIN manifests :
    /\ manifests[i].candidate \in DOMAIN candidates
    /\ manifests[i].decision = [candidate |-> manifests[i].candidate, outcome |-> "approved"]
    /\ \A gate \in Gates : manifests[i].gates[gate] = "pass"

EvolutionInv ==
  /\ EvolutionTypeOK
  /\ TriggersSound /\ ProposalsSound /\ GenomesSound
  /\ CandidatesSound /\ RunsSound /\ ReleasesSound

LEMMA InvIsJustified == EvolutionInv => EvolutionIsJustified
<1> SUFFICES ASSUME EvolutionInv
             PROVE  ProposalsAreJudged /\ RunsTellTheirOutcome /\ ReleasesAreJustified
  BY DEF EvolutionIsJustified
<1>1. ProposalsAreJudged
  <2>1. \A p \in DOMAIN proposals :
          proposals[p].trigger # 0 => proposals[p].trigger \in DOMAIN triggers
    BY DEF EvolutionInv, ProposalsSound
  <2> QED  BY <2>1 DEF EvolutionInv, TriggersSound, ProposalsSound, ProposalsAreJudged
<1>2. \A i \in DOMAIN evolutions : Tells(evolutions[i])
  BY DEF EvolutionInv, RunsSound
<1>3. RunsTellTheirOutcome
  <2> SUFFICES ASSUME NEW i \in DOMAIN evolutions
               PROVE  LET run == evolutions[i] IN
                      CASE run.status = "completed" ->
                             /\ proposals[run.proposal].status = "validated"
                             /\ proposals[run.proposal].trigger = run.trigger
                             /\ \E g \in DOMAIN genomes : genomes[g] = run.proposal
                             /\ run.candidate # 0 =>
                                  genomes[candidates[run.candidate]] = run.proposal
                        [] run.status = "aborted" ->
                             /\ proposals[run.proposal].status = "rejected"
                             /\ proposals[run.proposal].trigger = run.trigger
                        [] OTHER -> run.proposal = 0 /\ run.candidate = 0
    BY DEF RunsTellTheirOutcome
  <2> QED  BY <1>2 DEF Tells
<1>4. ASSUME NEW i \in DOMAIN manifests, NEW r \in DOMAIN evolutions,
             evolutions[r].candidate = manifests[i].candidate
      PROVE  IsValid(proposals[genomes[candidates[manifests[i].candidate]]].draft)
  <2>1. manifests[i].candidate # 0
    <3>1. candidates \in Seq(DOMAIN genomes \union {0})
      BY DEF EvolutionInv, EvolutionTypeOK
    <3>2. DOMAIN candidates = 1 .. Len(candidates)
      BY <3>1, LenProperties
    <3>3. manifests[i].candidate \in 1 .. Len(candidates) /\ Len(candidates) \in Nat
      BY <3>1, <3>2, LenProperties DEF EvolutionInv, ReleasesSound
    <3> QED  BY <3>3
  <2>2. /\ evolutions[r].proposal \in DOMAIN proposals
        /\ proposals[evolutions[r].proposal].status = "validated"
        /\ genomes[candidates[evolutions[r].candidate]] = evolutions[r].proposal
    BY <1>2, <1>4, <2>1 DEF Tells
  <2>3. IsValid(proposals[evolutions[r].proposal].draft)
    BY <2>2 DEF EvolutionInv, ProposalsSound
  <2> QED  BY <1>4, <2>2, <2>3
<1>5. ReleasesAreJustified
  BY <1>4 DEF EvolutionInv, ReleasesSound, ReleasesAreJustified
<1> QED  BY <1>1, <1>3, <1>5

(* Lists that only grow keep the chains that were there; what is new has   *)
(* to be looked at.                                                        *)
LEMMA StillJustified ==
  ASSUME EvolutionInv, EvolutionTypeOK',
         Extends(triggers, triggers'), Extends(proposals, proposals'),
         Extends(genomes, genomes'), Extends(candidates, candidates'),
         \A t \in DOMAIN triggers' \ DOMAIN triggers : triggers'[t].evidence,
         \A p \in DOMAIN proposals' \ DOMAIN proposals :
           /\ proposals'[p].trigger \in DOMAIN triggers' \union {0}
           /\ proposals'[p].status = "validated" <=> IsValid(proposals'[p].draft),
         \A g \in DOMAIN genomes' \ DOMAIN genomes :
           genomes'[g] \in DOMAIN proposals' \union {0},
         \A c \in DOMAIN candidates' \ DOMAIN candidates :
           candidates'[c] \in DOMAIN genomes' \/ candidates'[c] = 0
  PROVE  /\ TriggersSound' /\ ProposalsSound' /\ GenomesSound' /\ CandidatesSound'
         /\ Extends(evolutions, evolutions') =>
              ((\A i \in DOMAIN evolutions' \ DOMAIN evolutions : Tells(evolutions[i])')
                => RunsSound')
         /\ manifests' = manifests => ReleasesSound'
<1> USE DEF Extends, EvolutionInv
<1>1. TriggersSound'
  BY DEF TriggersSound
<1>2. ProposalsSound'
  BY DEF ProposalsSound
<1>3. GenomesSound'
  BY DEF GenomesSound
<1>4. CandidatesSound'
  BY DEF CandidatesSound
<1>5. ASSUME Extends(evolutions, evolutions'),
             \A i \in DOMAIN evolutions' \ DOMAIN evolutions : Tells(evolutions[i])'
      PROVE  RunsSound'
  <2> SUFFICES ASSUME NEW i \in DOMAIN evolutions
               PROVE  Tells(evolutions[i])'
    BY <1>5 DEF RunsSound
  <2>1. evolutions'[i] = evolutions[i] /\ Tells(evolutions[i])
    BY <1>5 DEF RunsSound
  <2>2. \A c \in DOMAIN candidates : candidates[c] \in DOMAIN genomes =>
          /\ c \in DOMAIN candidates' /\ candidates'[c] \in DOMAIN genomes'
          /\ genomes'[candidates'[c]] = genomes[candidates[c]]
    OBVIOUS
  <2>3. /\ \A p \in DOMAIN proposals : proposals'[p] = proposals[p] /\ p \in DOMAIN proposals'
        /\ \A g \in DOMAIN genomes : genomes'[g] = genomes[g] /\ g \in DOMAIN genomes'
    OBVIOUS
  <2>4. CASE evolutions[i].status = "completed"
    BY <2>1, <2>2, <2>3, <2>4 DEF Tells
  <2>5. CASE evolutions[i].status # "completed"
    BY <2>1, <2>3, <2>5 DEF Tells
  <2> QED  BY <2>4, <2>5
<1>6. manifests' = manifests => ReleasesSound'
  BY DEF ReleasesSound
<1> QED  BY <1>1, <1>2, <1>3, <1>4, <1>5, <1>6

(* The records that the steps append.                                      *)
LEMMA RecordsTyped ==
  /\ \A ref \in Lessons, evidence \in BOOLEAN :
       LET trigger == [ref |-> ref, evidence |-> evidence] IN
       trigger \in Triggers /\ trigger.evidence = evidence
  /\ \A t, p, c \in Nat, status \in {"running", "completed", "no_evolution_needed", "aborted"} :
       LET run == [trigger |-> t, status |-> status, proposal |-> p, candidate |-> c] IN
       /\ run \in Evolutions /\ run.trigger = t /\ run.status = status
       /\ run.proposal = p /\ run.candidate = c
  /\ \A t \in Nat, draft \in DraftsOf, status \in {"validated", "rejected"} :
       LET proposal == [trigger |-> t, draft |-> draft, status |-> status] IN
       /\ proposal \in ProposalsWith(DraftsOf) /\ proposal.trigger = t
       /\ proposal.draft = draft /\ proposal.status = status
BY DEF Triggers, Evolutions, ProposalsWith, ProposalStatuses

(* A run is added to the list, for a trigger that is there or was made by  *)
(* hand.                                                                   *)
LEMMA TriggersAreNumbers ==
  ASSUME EvolutionTypeOK, NEW t \in DOMAIN triggers \union {0}
  PROVE  t \in Nat
BY LenProperties DEF EvolutionTypeOK

LEMMA RanEffect ==
  ASSUME EvolutionTypeOK, NEW t \in Nat, NEW p \in Nat, NEW c \in Nat,
         NEW status \in {"running", "completed", "no_evolution_needed", "aborted"},
         Ran(t, status, p, c)
  PROVE  /\ evolutions' \in Seq(Evolutions) /\ Extends(evolutions, evolutions')
         /\ \A i \in DOMAIN evolutions' \ DOMAIN evolutions :
              /\ evolutions'[i].trigger = t /\ evolutions'[i].status = status
              /\ evolutions'[i].proposal = p /\ evolutions'[i].candidate = c
<1> DEFINE run == [trigger |-> t, status |-> status, proposal |-> p, candidate |-> c]
<1>2. /\ run \in Evolutions /\ run.trigger = t /\ run.status = status
      /\ run.proposal = p /\ run.candidate = c
  BY RecordsTyped
<1>3. evolutions' = Append(evolutions, run) /\ evolutions \in Seq(Evolutions)
  BY DEF Ran, EvolutionTypeOK
<1> HIDE DEF run
<1> QED  BY <1>2, <1>3, Grown

(* A run that leaves nothing behind.                                       *)
LEMMA RanAlone ==
  ASSUME EvolutionTypeOK, NEW t \in DOMAIN triggers \union {0},
         NEW status \in {"running", "no_evolution_needed"}, Ran(t, status, 0, 0)
  PROVE  /\ evolutions' \in Seq(Evolutions) /\ Extends(evolutions, evolutions')
         /\ \A i \in DOMAIN evolutions' \ DOMAIN evolutions :
              /\ evolutions'[i].status = status
              /\ evolutions'[i].proposal = 0 /\ evolutions'[i].candidate = 0
<1> DEFINE none == 0
<1>1. none \in Nat /\ Ran(t, status, none, none)
  OBVIOUS
<1>0. t \in Nat
  BY TriggersAreNumbers
<1> HIDE DEF none
<1>2. /\ evolutions' \in Seq(Evolutions) /\ Extends(evolutions, evolutions')
      /\ \A i \in DOMAIN evolutions' \ DOMAIN evolutions :
           /\ evolutions'[i].status = status
           /\ evolutions'[i].proposal = none /\ evolutions'[i].candidate = none
  BY <1>0, <1>1, RanEffect
<1> QED  BY <1>2 DEF none

(* A proposal is added to the list: the draft of an input, for a trigger   *)
(* that is there or was made by hand.                                      *)
LEMMA ProposedEffect ==
  ASSUME EvolutionTypeOK, NEW t \in DOMAIN triggers \union {0},
         NEW evidence \in BOOLEAN, NEW input \in Inputs \union {NoInput},
         MayEvolve(evidence, input), NEW status \in {"validated", "rejected"},
         Proposed(t, input, status)
  PROVE  LET new == Len(proposals) + 1 IN
         /\ proposals' \in Seq(ProposalsWith(DraftsOf)) /\ Extends(proposals, proposals')
         /\ DOMAIN proposals' = DOMAIN proposals \union {new} /\ new \in Nat
         /\ proposals'[new].trigger = t /\ proposals'[new].status = status
         /\ proposals'[new].draft = Propose(input)
<1> DEFINE proposal == [trigger |-> t, draft |-> Propose(input), status |-> status]
<1>1. t \in Nat /\ Propose(input) \in DraftsOf
  BY LenProperties DEF EvolutionTypeOK, MayEvolve, DraftsOf
<1>2. /\ proposal \in ProposalsWith(DraftsOf) /\ proposal.trigger = t
      /\ proposal.draft = Propose(input) /\ proposal.status = status
  BY <1>1, RecordsTyped
<1>3. proposals' = Append(proposals, proposal) /\ proposals \in Seq(ProposalsWith(DraftsOf))
  BY DEF Proposed, EvolutionTypeOK, DraftsOf
<1> HIDE DEF proposal
<1> QED  BY <1>2, <1>3, Grown

LEMMA RegisterTriggerInv ==
  ASSUME EvolutionInv, NEW ref \in Lessons, NEW evidence \in BOOLEAN,
         RegisterTrigger(ref, evidence)
  PROVE  EvolutionInv'
<1> DEFINE trigger == [ref |-> ref, evidence |-> evidence]
<1>1. trigger \in Triggers /\ trigger.evidence
  BY RecordsTyped DEF RegisterTrigger
<1>2. /\ triggers' = Append(triggers, trigger) /\ triggers \in Seq(Triggers)
      /\ UNCHANGED <<evolutions, proposals, genomes, candidates, manifests>>
  BY DEF RegisterTrigger, EvolutionInv, EvolutionTypeOK
<1> HIDE DEF trigger
<1>3. /\ triggers' \in Seq(Triggers) /\ Extends(triggers, triggers')
      /\ \A t \in DOMAIN triggers' \ DOMAIN triggers : triggers'[t].evidence
  BY <1>1, <1>2, Grown
<1>4. EvolutionTypeOK'
  BY <1>2, <1>3 DEF EvolutionInv, EvolutionTypeOK
<1> QED  BY <1>2, <1>3, <1>4, StillJustified, Unchanged DEF EvolutionInv

LEMMA RunWithoutProposalInv ==
  ASSUME EvolutionInv, NEW t \in DOMAIN triggers \union {0}, NEW evidence \in BOOLEAN,
         NEW input \in Inputs \union {NoInput}, RunWithoutProposal(t, evidence, input)
  PROVE  EvolutionInv'
<1>1. /\ Ran(t, "no_evolution_needed", 0, 0)
      /\ UNCHANGED <<triggers, proposals, genomes, candidates, manifests>>
  BY DEF RunWithoutProposal
<1>2. /\ evolutions' \in Seq(Evolutions) /\ Extends(evolutions, evolutions')
      /\ \A i \in DOMAIN evolutions' \ DOMAIN evolutions :
           /\ evolutions'[i].status = "no_evolution_needed"
           /\ evolutions'[i].proposal = 0 /\ evolutions'[i].candidate = 0
  BY <1>1, RanAlone DEF EvolutionInv
<1>3. \A i \in DOMAIN evolutions' \ DOMAIN evolutions : Tells(evolutions[i])'
  BY <1>2 DEF Tells
<1>4. EvolutionTypeOK'
  BY <1>1, <1>2 DEF EvolutionInv, EvolutionTypeOK
<1> QED  BY <1>1, <1>2, <1>3, <1>4, StillJustified, Unchanged DEF EvolutionInv

LEMMA RunRejectedInv ==
  ASSUME EvolutionInv, NEW t \in DOMAIN triggers \union {0}, NEW evidence \in BOOLEAN,
         NEW input \in Inputs \union {NoInput}, RunRejected(t, evidence, input)
  PROVE  EvolutionInv'
<1> DEFINE new == Len(proposals) + 1
<1>1. /\ MayEvolve(evidence, input) /\ ~ IsValid(Propose(input))
      /\ Proposed(t, input, "rejected") /\ Ran(t, "aborted", new, 0)
      /\ UNCHANGED <<triggers, genomes, candidates, manifests>>
  BY DEF RunRejected
<1>2. /\ proposals' \in Seq(ProposalsWith(DraftsOf)) /\ Extends(proposals, proposals')
      /\ DOMAIN proposals' = DOMAIN proposals \union {new} /\ new \in Nat
      /\ proposals'[new].trigger = t /\ proposals'[new].status = "rejected"
      /\ proposals'[new].draft = Propose(input)
  BY <1>1, ProposedEffect DEF EvolutionInv
<1> HIDE DEF new
<1>3. /\ evolutions' \in Seq(Evolutions) /\ Extends(evolutions, evolutions')
      /\ \A i \in DOMAIN evolutions' \ DOMAIN evolutions :
           /\ evolutions'[i].status = "aborted" /\ evolutions'[i].proposal = new
           /\ evolutions'[i].trigger = t /\ evolutions'[i].candidate = 0
  <2> DEFINE none == 0
  <2>1. none \in Nat /\ Ran(t, "aborted", new, none) /\ t \in Nat
    BY <1>1, TriggersAreNumbers DEF EvolutionInv
  <2> HIDE DEF none
  <2>2. /\ evolutions' \in Seq(Evolutions) /\ Extends(evolutions, evolutions')
        /\ \A i \in DOMAIN evolutions' \ DOMAIN evolutions :
             /\ evolutions'[i].status = "aborted" /\ evolutions'[i].proposal = new
             /\ evolutions'[i].trigger = t /\ evolutions'[i].candidate = none
    BY <1>2, <2>1, RanEffect DEF EvolutionInv
  <2> QED  BY <2>2 DEF none
<1>4. \A i \in DOMAIN evolutions' \ DOMAIN evolutions : Tells(evolutions[i])'
  BY <1>2, <1>3 DEF Tells
<1>5. genomes \in Seq(DOMAIN proposals' \union {0})
  BY <1>2, SeqMonotonic DEF EvolutionInv, EvolutionTypeOK
<1>6. EvolutionTypeOK'
  BY <1>1, <1>2, <1>3, <1>5 DEF EvolutionInv, EvolutionTypeOK, DraftsOf
<1> QED  BY <1>1, <1>2, <1>3, <1>4, <1>6, StillJustified, Unchanged DEF EvolutionInv

LEMMA RunValidatedInv ==
  ASSUME EvolutionInv, NEW t \in DOMAIN triggers \union {0}, NEW evidence \in BOOLEAN,
         NEW input \in Inputs \union {NoInput}, NEW hook \in {"builds", "none", "raises"},
         RunValidated(t, evidence, input, hook)
  PROVE  EvolutionInv'
<1> DEFINE new == Len(proposals) + 1
           genome == Len(genomes) + 1
           candidate == Len(candidates) + 1
           nothing == 0
<1>0. t \in Nat
  BY TriggersAreNumbers DEF EvolutionInv
<1>1. /\ MayEvolve(evidence, input) /\ Proposed(t, input, "validated")
      /\ IsValid(Propose(input)) /\ genomes' = Append(genomes, new)
      /\ UNCHANGED <<triggers, manifests>>
  BY DEF RunValidated, BuildFor
<1>2. /\ proposals' \in Seq(ProposalsWith(DraftsOf)) /\ Extends(proposals, proposals')
      /\ DOMAIN proposals' = DOMAIN proposals \union {new} /\ new \in Nat
      /\ proposals'[new].trigger = t /\ proposals'[new].status = "validated"
      /\ proposals'[new].draft = Propose(input)
  BY <1>1, ProposedEffect DEF EvolutionInv
<1>3. \/ /\ candidates' = Append(candidates, genome)
         /\ Ran(t, "completed", new, candidate)
      \/ Ran(t, "completed", new, nothing) /\ UNCHANGED candidates
      \/ Ran(t, "running", 0, 0) /\ UNCHANGED candidates
  BY DEF RunValidated, BuildFor
<1>4. genomes \in Seq(DOMAIN proposals' \union {0}) /\ new \in DOMAIN proposals' \union {0}
      /\ new \in DOMAIN proposals'
  BY <1>2, SeqMonotonic DEF EvolutionInv, EvolutionTypeOK
<1>5. /\ genomes' \in Seq(DOMAIN proposals' \union {0}) /\ Extends(genomes, genomes')
      /\ DOMAIN genomes' = DOMAIN genomes \union {genome}
      /\ genomes'[genome] = new /\ genome \in Nat
  <2> HIDE DEF new
  <2> QED  BY <1>1, <1>4, Grown
<1>6. candidates \in Seq(DOMAIN genomes' \union {0}) /\ genome \in DOMAIN genomes'
  BY <1>5, SeqMonotonic DEF EvolutionInv, EvolutionTypeOK
<1>7. candidate \in Nat
  BY LenProperties DEF EvolutionInv, EvolutionTypeOK
<1>8. \A p \in DOMAIN proposals' \ DOMAIN proposals :
        /\ proposals'[p].trigger \in DOMAIN triggers' \union {0}
        /\ proposals'[p].status = "validated" <=> IsValid(proposals'[p].draft)
  BY <1>1, <1>2
<1>9. \A g \in DOMAIN genomes' \ DOMAIN genomes : genomes'[g] \in DOMAIN proposals' \union {0}
  BY <1>4, <1>5
<1> HIDE DEF new, genome
<1>10. CASE candidates' = Append(candidates, genome) /\ Ran(t, "completed", new, candidate)
  <2>1. /\ candidates' \in Seq(DOMAIN genomes' \union {0}) /\ Extends(candidates, candidates')
        /\ DOMAIN candidates' = DOMAIN candidates \union {candidate}
        /\ candidates'[candidate] = genome
    BY <1>6, <1>10, Grown
  <2> HIDE DEF candidate
  <2>2. /\ evolutions' \in Seq(Evolutions) /\ Extends(evolutions, evolutions')
        /\ \A i \in DOMAIN evolutions' \ DOMAIN evolutions :
             /\ evolutions'[i].trigger = t /\ evolutions'[i].status = "completed"
             /\ evolutions'[i].proposal = new /\ evolutions'[i].candidate = candidate
    BY <1>0, <1>2, <1>7, <1>10, RanEffect DEF EvolutionInv
  <2>3. \A i \in DOMAIN evolutions' \ DOMAIN evolutions : Tells(evolutions[i])'
    BY <1>2, <1>4, <1>5, <1>6, <2>1, <2>2 DEF Tells
  <2>4. \A c \in DOMAIN candidates' \ DOMAIN candidates : candidates'[c] \in DOMAIN genomes'
    BY <1>6, <2>1
  <2>5. EvolutionTypeOK'
    BY <1>1, <1>2, <1>5, <2>1, <2>2 DEF EvolutionInv, EvolutionTypeOK, DraftsOf
  <2> QED
    BY <1>1, <1>2, <1>5, <1>8, <1>9, <2>1, <2>2, <2>3, <2>4, <2>5, StillJustified, Unchanged
       DEF EvolutionInv
<1>11. CASE Ran(t, "completed", new, nothing) /\ UNCHANGED candidates
  <2>0. nothing = 0 /\ nothing \in Nat
    OBVIOUS
  <2> HIDE DEF nothing
  <2>1. /\ evolutions' \in Seq(Evolutions) /\ Extends(evolutions, evolutions')
        /\ \A i \in DOMAIN evolutions' \ DOMAIN evolutions :
             /\ evolutions'[i].trigger = t /\ evolutions'[i].status = "completed"
             /\ evolutions'[i].proposal = new /\ evolutions'[i].candidate = nothing
    BY <1>0, <1>2, <1>11, <2>0, RanEffect DEF EvolutionInv
  <2>2. \A i \in DOMAIN evolutions' \ DOMAIN evolutions : Tells(evolutions[i])'
    BY <1>2, <1>4, <1>5, <2>0, <2>1 DEF Tells
  <2>3. EvolutionTypeOK'
    BY <1>1, <1>2, <1>5, <1>6, <1>11, <2>1 DEF EvolutionInv, EvolutionTypeOK, DraftsOf
  <2> QED
    BY <1>1, <1>2, <1>5, <1>8, <1>9, <1>11, <2>1, <2>2, <2>3, StillJustified, Unchanged
       DEF EvolutionInv
<1>12. CASE Ran(t, "running", 0, 0) /\ UNCHANGED candidates
  <2>1. /\ evolutions' \in Seq(Evolutions) /\ Extends(evolutions, evolutions')
        /\ \A i \in DOMAIN evolutions' \ DOMAIN evolutions :
             /\ evolutions'[i].status = "running"
             /\ evolutions'[i].proposal = 0 /\ evolutions'[i].candidate = 0
    BY <1>12, RanAlone DEF EvolutionInv
  <2>2. \A i \in DOMAIN evolutions' \ DOMAIN evolutions : Tells(evolutions[i])'
    BY <2>1 DEF Tells
  <2>3. EvolutionTypeOK'
    BY <1>1, <1>2, <1>5, <1>6, <1>12, <2>1 DEF EvolutionInv, EvolutionTypeOK, DraftsOf
  <2> QED
    BY <1>1, <1>2, <1>5, <1>8, <1>9, <1>12, <2>1, <2>2, <2>3, StillJustified, Unchanged
       DEF EvolutionInv
<1> QED  BY <1>3, <1>10, <1>11, <1>12

LEMMA MaterializeInv ==
  ASSUME EvolutionInv, NEW p \in DOMAIN proposals \union {0}, NEW status \in ProposalStatuses,
         Materialize(p, status)
  PROVE  EvolutionInv'
<1>1. /\ genomes' = Append(genomes, p) /\ genomes \in Seq(DOMAIN proposals \union {0})
      /\ UNCHANGED <<triggers, evolutions, proposals, candidates, manifests>>
  BY DEF Materialize, EvolutionInv, EvolutionTypeOK
<1>2. /\ genomes' \in Seq(DOMAIN proposals \union {0}) /\ Extends(genomes, genomes')
      /\ DOMAIN genomes \subseteq DOMAIN genomes'
      /\ \A g \in DOMAIN genomes' \ DOMAIN genomes : genomes'[g] = p
  BY <1>1, Grown
<1>3. candidates \in Seq(DOMAIN genomes' \union {0})
  BY <1>2, SeqMonotonic DEF EvolutionInv, EvolutionTypeOK
<1>4. EvolutionTypeOK'
  BY <1>1, <1>2, <1>3 DEF EvolutionInv, EvolutionTypeOK
<1> QED  BY <1>1, <1>2, <1>4, StillJustified, Unchanged DEF EvolutionInv

LEMMA BuildCandidateInv ==
  ASSUME EvolutionInv, NEW g \in DOMAIN genomes \union {0}, BuildCandidate(g)
  PROVE  EvolutionInv'
<1>1. /\ candidates' = Append(candidates, g) /\ candidates \in Seq(DOMAIN genomes \union {0})
      /\ UNCHANGED <<triggers, evolutions, proposals, genomes, manifests>>
  BY DEF BuildCandidate, EvolutionInv, EvolutionTypeOK
<1>2. /\ candidates' \in Seq(DOMAIN genomes \union {0}) /\ Extends(candidates, candidates')
      /\ \A c \in DOMAIN candidates' \ DOMAIN candidates : candidates'[c] = g
  BY <1>1, Grown
<1>3. EvolutionTypeOK'
  BY <1>1, <1>2 DEF EvolutionInv, EvolutionTypeOK
<1> QED  BY <1>1, <1>2, <1>3, StillJustified, Unchanged DEF EvolutionInv

(* The release controller adds a manifest or writes the one it has anew.   *)
LEMMA ReleaseKept ==
  ASSUME EvolutionInv, manifests' \in Seq(Manifests), ReleasesSound',
         UNCHANGED <<triggers, evolutions, proposals, genomes, candidates>>
  PROVE  EvolutionInv'
BY DEF EvolutionInv, EvolutionTypeOK, TriggersSound, ProposalsSound, GenomesSound,
       CandidatesSound, RunsSound, Tells

LEMMA ActivateInv ==
  ASSUME EvolutionInv, NEW c \in DOMAIN candidates, NEW d \in DOMAIN candidates,
         NEW outcome \in DecisionOutcomes, NEW gates \in [Gates -> GateOutcomes],
         Activate(c, gates, [candidate |-> d, outcome |-> outcome])
  PROVE  EvolutionInv'
<1> DEFINE decision == [candidate |-> d, outcome |-> outcome]
           release == [candidate |-> c, decision |-> decision, gates |-> gates,
                       lifecycle |-> "activated", to |-> 0]
<1>1. c \in Nat /\ d \in Nat
  BY LenProperties DEF EvolutionInv, EvolutionTypeOK
<1>2. /\ \A gate \in Gates : gates[gate] = "pass"
      /\ decision = [candidate |-> c, outcome |-> "approved"]
  BY DEF Activate, MayActivate
<1>3. decision \in ReleaseDecisions
  BY <1>1 DEF ReleaseDecisions
<1>4. /\ manifests' = Append(manifests, release) /\ manifests \in Seq(Manifests)
      /\ UNCHANGED <<triggers, evolutions, proposals, genomes, candidates>>
  BY DEF Activate, EvolutionInv, EvolutionTypeOK
<1> HIDE DEF decision
<1>5. /\ release \in Manifests /\ release.candidate = c /\ release.decision = decision
      /\ release.gates = gates
  BY <1>1, <1>3 DEF Manifests
<1> HIDE DEF release
<1>6. /\ manifests' \in Seq(Manifests) /\ Extends(manifests, manifests')
      /\ \A i \in DOMAIN manifests' \ DOMAIN manifests : manifests'[i] = release
  BY <1>4, <1>5, Grown
<1>7. ReleasesSound'
  BY <1>2, <1>4, <1>5, <1>6 DEF EvolutionInv, ReleasesSound, Extends
<1> QED  BY <1>4, <1>6, <1>7, ReleaseKept

LEMMA RolledBackFields ==
  ASSUME NEW i, NEW to \in Nat, manifests[i] \in Manifests
  PROVE  LET release == RolledBack(i, to) IN
         /\ release \in Manifests /\ release.candidate = manifests[i].candidate
         /\ release.decision = manifests[i].decision /\ release.gates = manifests[i].gates
         /\ release.lifecycle = "rolled_back" /\ release.to = to
BY DEF RolledBack, Manifests

LEMMA RollbackInv ==
  ASSUME EvolutionInv, NEW i \in DOMAIN manifests, NEW to \in DOMAIN manifests,
         Rollback(i, to)
  PROVE  EvolutionInv'
<1>1. /\ manifests' = [manifests EXCEPT ![i] = RolledBack(i, to)]
      /\ manifests \in Seq(Manifests) /\ to \in Nat /\ manifests[i] \in Manifests
      /\ UNCHANGED <<triggers, evolutions, proposals, genomes, candidates>>
  BY LenProperties, ElementOfSeq DEF Rollback, EvolutionInv, EvolutionTypeOK
<1>2. /\ RolledBack(i, to) \in Manifests
      /\ RolledBack(i, to).candidate = manifests[i].candidate
      /\ RolledBack(i, to).decision = manifests[i].decision
      /\ RolledBack(i, to).gates = manifests[i].gates
  BY <1>1, RolledBackFields
<1>3. /\ manifests' \in Seq(Manifests) /\ DOMAIN manifests' = DOMAIN manifests
      /\ manifests'[i] = RolledBack(i, to)
      /\ \A j \in DOMAIN manifests \ {i} : manifests'[j] = manifests[j]
  BY <1>1, <1>2, ExceptSeq
<1>4. ReleasesSound'
  BY <1>1, <1>2, <1>3 DEF EvolutionInv, ReleasesSound
<1> QED  BY <1>1, <1>3, <1>4, ReleaseKept

LEMMA EvolutionStep ==
  ASSUME EvolutionInv, [EvolutionNext]_evolutionVars
  PROVE  EvolutionInv'
<1>1. ASSUME NEW t \in DOMAIN triggers \union {0}, NEW evidence \in BOOLEAN,
             NEW input \in Inputs \union {NoInput}, RunEvolution(t, evidence, input)
      PROVE  EvolutionInv'
  BY <1>1, RunWithoutProposalInv, RunRejectedInv, RunValidatedInv DEF RunEvolution
<1>2. CASE UNCHANGED evolutionVars
  BY <1>2, ReleaseKept DEF evolutionVars, EvolutionInv, EvolutionTypeOK, ReleasesSound
<1> QED
  BY <1>1, <1>2, RegisterTriggerInv, MaterializeInv, BuildCandidateInv, ActivateInv,
     RollbackInv DEF EvolutionNext

LEMMA EvolutionInitInv == EvolutionInit => EvolutionInv
<1> SUFFICES ASSUME EvolutionInit
             PROVE  EvolutionInv
  OBVIOUS
<1>1. EvolutionTypeOK
  BY EmptySeq DEF EvolutionInit, EvolutionTypeOK
<1> QED
  BY <1>1 DEF EvolutionInit, EvolutionInv, TriggersSound, ProposalsSound, GenomesSound,
     CandidatesSound, RunsSound, ReleasesSound

(* Triggers, proposals, genomes, candidates, evolutions and manifests keep *)
(* their shape through every public method of the strategy and the factory.*)
THEOREM EvolutionTypeCorrect == EvolutionSpec => []EvolutionTypeOK
<1>1. EvolutionInv /\ [EvolutionNext]_evolutionVars => EvolutionInv'
  BY EvolutionStep
<1>2. EvolutionInv => EvolutionTypeOK
  BY DEF EvolutionInv
<1> QED  BY <1>1, <1>2, EvolutionInitInv, PTL DEF EvolutionSpec

(* From the trigger of an evolution to the manifest in force the chain     *)
(* holds, in whatever order and however often the public methods are       *)
(* called, with triggers and proposals of the callers' making among those  *)
(* passed in, and with a candidate hook that builds, is missing or raises. *)
THEOREM EvolutionStaysJustified == EvolutionSpec => []EvolutionIsJustified
<1>1. EvolutionInv /\ [EvolutionNext]_evolutionVars => EvolutionInv'
  BY EvolutionStep
<1> QED  BY <1>1, EvolutionInitInv, InvIsJustified, PTL DEF EvolutionSpec

(* A manifest is never taken off the list, and all that ever changes of    *)
(* one is that it is rolled back, maybe once more to another.              *)
THEOREM RollbacksStand == EvolutionSpec => RolledBackForGood
<1> DEFINE Stand == \A i \in DOMAIN manifests :
             manifests'[i] # manifests[i] =>
               /\ manifests'[i].lifecycle = "rolled_back"
               /\ manifests'[i] = [manifests[i] EXCEPT
                    !.lifecycle = "rolled_back", !.to = manifests'[i].to]
<1>1. EvolutionInv /\ [EvolutionNext]_evolutionVars => EvolutionInv'
  BY EvolutionStep
<1>2. EvolutionInv /\ [EvolutionNext]_evolutionVars => [Stand]_evolutionVars
  <2> SUFFICES ASSUME EvolutionInv, EvolutionNext
               PROVE  Stand
    OBVIOUS
  <2>1. ASSUME NEW c \in DOMAIN candidates, NEW gates, NEW decision,
               Activate(c, gates, decision)
        PROVE  Stand
    BY <2>1 DEF Activate, EvolutionInv, EvolutionTypeOK
  <2>2. ASSUME NEW j \in DOMAIN manifests, NEW to \in DOMAIN manifests, Rollback(j, to)
        PROVE  Stand
    <3>1. \A i \in DOMAIN manifests \ {j} : manifests'[i] = manifests[i]
      BY <2>2 DEF Rollback
    <3>2. manifests'[j] = RolledBack(j, to) /\ manifests[j] \in Manifests /\ to \in Nat
      BY <2>2, ElementOfSeq, LenProperties DEF Rollback, EvolutionInv, EvolutionTypeOK
    <3>3. manifests'[j].lifecycle = "rolled_back" /\ manifests'[j].to = to
      BY <3>2, RolledBackFields
    <3> QED  BY <3>1, <3>2, <3>3 DEF RolledBack
  <2>3. CASE UNCHANGED manifests
    BY <2>3
  <2> QED
    BY <2>1, <2>2, <2>3 DEF EvolutionNext, RegisterTrigger, RunEvolution, RunWithoutProposal,
       RunRejected, RunValidated, Materialize, BuildCandidate
<1> QED  BY <1>1, <1>2, EvolutionInitInv, PTL DEF EvolutionSpec, RolledBackForGood

-----------------------------------------------------------------------------
(* RagIndex.  The mirror forgets at least what the backend refuses, and    *)
(* neither holds a chunk of it.                                            *)
RagInv ==
  /\ RagTypeOK
  /\ tombstones \subseteq forgotten
  /\ \A chunk \in IndexedChunks :
       chunk.source \in tombstones => chunk \notin collection.points /\ chunk \notin mirror

Collections == [exists : BOOLEAN, points : SUBSET IndexedChunks]

LEMMA CollectionsTyped ==
  ASSUME RagTypeOK
  PROVE  /\ collection \in Collections /\ Created \in Collections
         /\ Created.points = collection.points
         /\ \A chunk \in IndexedChunks :
              /\ Holding(chunk) \in Collections /\ Holding(chunk).exists = Created.exists
              /\ Holding(chunk).points = collection.points \union {chunk}
         /\ \A source \in Documents :
              /\ Without(source) \in Collections
              /\ Without(source).exists = collection.exists
              /\ Without(source).points = collection.points \ ChunksOf(source)
         /\ collection.exists => Created.exists
<1>1. collection \in Collections
  BY DEF RagTypeOK, Collections
<1>2. /\ Created \in Collections /\ Created.points = collection.points
      /\ collection.exists => Created.exists
  BY <1>1 DEF Created, Collections
<1>3. \A chunk \in IndexedChunks :
        /\ Holding(chunk) \in Collections /\ Holding(chunk).exists = Created.exists
        /\ Holding(chunk).points = collection.points \union {chunk}
  <2> HIDE DEF Created
  <2> QED  BY <1>2 DEF Holding, Collections
<1>4. \A source \in Documents :
        /\ Without(source) \in Collections
        /\ Without(source).exists = collection.exists
        /\ Without(source).points = collection.points \ ChunksOf(source)
  BY <1>1 DEF Without, Collections
<1> QED  BY <1>1, <1>2, <1>3, <1>4

LEMMA EmptyCollection ==
  LET empty == [exists |-> FALSE, points |-> {}] IN
  empty \in Collections /\ empty.points = {}
BY DEF Collections

LEMMA RagStep ==
  ASSUME RagInv, [RagNext]_ragVars
  PROVE  RagInv'
<1>0. /\ collection \in Collections /\ (~ collection.exists => collection.points = {})
      /\ dimension \in BOOLEAN /\ tombstones \subseteq Documents
      /\ mirror \subseteq IndexedChunks /\ forgotten \subseteq Documents
      /\ \A chunk \in IndexedChunks : chunk.source \in Documents
  BY DEF RagInv, RagTypeOK, Collections, IndexedChunks
<1>1. ASSUME NEW chunk \in IndexedChunks, Ingest(chunk)
      PROVE  RagInv'
  <2>1. mirror' \subseteq IndexedChunks
        /\ (chunk.source \in forgotten => mirror' = mirror)
        /\ mirror' \subseteq mirror \union {chunk}
    BY <1>0, <1>1 DEF Ingest, Mirrored
  <2>2. CASE Refused(chunk)
    BY <1>0, <1>1, <2>1, <2>2 DEF Ingest, Refused, RagInv, RagTypeOK
  <2>3. CASE ~ Refused(chunk)
    <3>1. /\ collection' \in Collections /\ collection'.exists
          /\ collection'.points = collection.points \union {chunk} /\ dimension' = TRUE
      BY <1>0, <1>1, <2>3, CollectionsTyped DEF Ingest, RagInv, Collections
    <3> QED  BY <1>0, <1>1, <2>1, <2>3, <3>1 DEF Ingest, Refused, RagInv, RagTypeOK, Collections
  <2> QED  BY <2>2, <2>3
<1>2. ASSUME NEW chunk \in IndexedChunks, IngestFails(chunk)
      PROVE  RagInv'
  <2>1. /\ collection' \in Collections
        /\ ~ collection'.exists => collection'.points = {}
        /\ collection'.points \subseteq collection.points \union {chunk}
    BY <1>0, <1>2, CollectionsTyped DEF IngestFails, RagInv, Collections
  <2> QED  BY <1>0, <1>2, <2>1 DEF IngestFails, Refused, RagInv, RagTypeOK, Collections
<1>3. ASSUME NEW source \in Documents, DeleteSource(source)
      PROVE  RagInv'
  <2>1. /\ collection' \in Collections /\ collection'.exists = collection.exists
        /\ collection'.points = collection.points \ ChunksOf(source)
    BY <1>3, CollectionsTyped DEF DeleteSource, RagInv
  <2> QED  BY <1>0, <1>3, <2>1 DEF DeleteSource, ChunksOf, RagInv, RagTypeOK, Collections
<1>4. ASSUME NEW source \in Documents, DeleteSourceFails(source)
      PROVE  RagInv'
  <2>1. /\ collection' \in Collections /\ collection'.exists = collection.exists
        /\ collection'.points \subseteq collection.points
    BY <1>0, <1>4, CollectionsTyped DEF DeleteSourceFails, RagInv
  <2> QED  BY <1>0, <1>4, <2>1 DEF DeleteSourceFails, RagInv, RagTypeOK, Collections
<1>5. CASE ResolveDimension
  BY <1>0, <1>5 DEF ResolveDimension, RagInv, RagTypeOK, Collections
<1>6. CASE DropCollection
  BY <1>0, <1>6, EmptyCollection DEF DropCollection, RagInv, RagTypeOK, Collections
<1>7. CASE RestartIndexer
  BY <1>0, <1>7 DEF RestartIndexer, RagInv, RagTypeOK, Collections
<1>8. CASE UNCHANGED ragVars
  BY <1>8 DEF ragVars, RagInv, RagTypeOK
<1> QED  BY <1>1, <1>2, <1>3, <1>4, <1>5, <1>6, <1>7, <1>8 DEF RagNext

LEMMA RagInitInv == RagInit => RagInv
BY EmptyCollection DEF RagInit, RagInv, RagTypeOK, Collections

(* The index and its mirror hold chunks, and a collection that was dropped *)
(* holds none, through every call that fails halfway and every restart.    *)
THEOREM RagTypeCorrect == RagSpec => []RagTypeOK
<1>1. RagInv /\ [RagNext]_ragVars => RagInv'
  BY RagStep
<1>2. RagInv => RagTypeOK
  BY DEF RagInv
<1> QED  BY <1>1, <1>2, RagInitInv, PTL DEF RagSpec

(* No search, over whatever allow list and with or without the vector      *)
(* channel, finds a source between its deletion and the end of the process *)
(* or the collection, whatever is ingested or fails in between.            *)
THEOREM DeletedStaysUnserved == RagSpec => []DeletedIsNotServed
<1>1. RagInv /\ [RagNext]_ragVars => RagInv'
  BY RagStep
<1>2. RagInv => DeletedIsNotServed
  BY DEF RagInv, RagTypeOK, DeletedIsNotServed, Ranked, ChunksOf
<1> QED  BY <1>1, <1>2, RagInitInv, PTL DEF RagSpec

-----------------------------------------------------------------------------
(* ContextServices.  An entry is told apart from none by its end.          *)
CacheInv ==
  /\ entries \in [CacheKeys -> Evidence \union {NoEntry}]
  /\ by_source \in [SourceRefs -> SUBSET CacheKeys]
  /\ by_scope \in [ScopeRefs -> SUBSET CacheKeys]
  /\ InvalidationReaches

LEMMA EvidenceFields ==
  ASSUME NEW evidence \in Evidence
  PROVE  /\ evidence.sources \subseteq SourceRefs /\ evidence.scope \in ScopeRefs
         /\ evidence # NoEntry
BY ContextAssumption DEF Evidence, NoEntry

(* Whatever is removed is removed from the indexes of the others too.      *)
LEMMA RemovedKeeps ==
  ASSUME CacheInv, NEW keys, Removed(keys)
  PROVE  CacheInv'
<1>1. /\ \A key \in CacheKeys : entries'[key] = IF key \in keys THEN NoEntry ELSE entries[key]
      /\ \A source \in SourceRefs : by_source'[source] = by_source[source] \ keys
      /\ \A scope \in ScopeRefs : by_scope'[scope] = by_scope[scope] \ keys
  BY DEF Removed
<1>2. /\ entries' \in [CacheKeys -> Evidence \union {NoEntry}]
      /\ by_source' \in [SourceRefs -> SUBSET CacheKeys]
      /\ by_scope' \in [ScopeRefs -> SUBSET CacheKeys]
  BY DEF Removed, CacheInv
<1>3. InvalidationReaches'
  <2> SUFFICES ASSUME NEW key \in CacheKeys, entries'[key] # NoEntry
               PROVE  /\ key \in by_scope'[entries'[key].scope]
                      /\ \A source \in entries'[key].sources : key \in by_source'[source]
    BY DEF InvalidationReaches
  <2>1. key \notin keys /\ entries'[key] = entries[key] /\ entries[key] \in Evidence
    BY <1>1 DEF CacheInv
  <2> QED  BY <1>1, <2>1, EvidenceFields DEF CacheInv, InvalidationReaches
<1> QED  BY <1>2, <1>3 DEF CacheInv

LEMMA PutKeeps ==
  ASSUME CacheInv, NEW put \in CacheKeys, NEW evidence \in Evidence, Put(put, evidence)
  PROVE  CacheInv'
<1>1. evidence.sources \subseteq SourceRefs /\ evidence.scope \in ScopeRefs
  BY EvidenceFields
<1>2. /\ entries' \in [CacheKeys -> Evidence \union {NoEntry}]
      /\ \A key \in CacheKeys :
           entries'[key] = IF key = put THEN evidence ELSE entries[key]
  BY DEF Put, CacheInv
<1>3. /\ by_source' \in [SourceRefs -> SUBSET CacheKeys]
      /\ \A source \in SourceRefs : by_source[source] \subseteq by_source'[source]
      /\ \A source \in evidence.sources : put \in by_source'[source]
  BY <1>1 DEF Put, CacheInv
<1>4. /\ by_scope' \in [ScopeRefs -> SUBSET CacheKeys]
      /\ \A scope \in ScopeRefs : by_scope[scope] \subseteq by_scope'[scope]
      /\ put \in by_scope'[evidence.scope]
  BY <1>1 DEF Put, CacheInv
<1>5. InvalidationReaches'
  <2> SUFFICES ASSUME NEW key \in CacheKeys, entries'[key] # NoEntry
               PROVE  /\ key \in by_scope'[entries'[key].scope]
                      /\ \A source \in entries'[key].sources : key \in by_source'[source]
    BY DEF InvalidationReaches
  <2>1. CASE key = put
    BY <1>2, <1>3, <1>4, <2>1
  <2>2. CASE key # put
    <3>1. entries'[key] = entries[key] /\ entries[key] \in Evidence
      BY <1>2, <2>2 DEF CacheInv
    <3> QED  BY <1>3, <1>4, <3>1, EvidenceFields DEF CacheInv, InvalidationReaches
  <2> QED  BY <2>1, <2>2
<1> QED  BY <1>2, <1>3, <1>4, <1>5 DEF CacheInv

LEMMA CacheStep ==
  ASSUME CacheInv, [ContextNext]_contextVars
  PROVE  CacheInv'
<1>1. CASE UNCHANGED <<entries, by_source, by_scope>>
  BY <1>1 DEF CacheInv, InvalidationReaches
<1>2. CASE CacheNext
  BY <1>1, <1>2, RemovedKeeps, PutKeeps
     DEF CacheNext, GetExpired, InvalidateSource, InvalidateScope, ClockTicks
<1>3. CASE RecordNext
  BY <1>1, <1>3 DEF RecordNext, RegisterConflict, Compress, Plan
<1> QED  BY <1>1, <1>2, <1>3 DEF ContextNext, contextVars

(* To invalidate a source or a scope reaches every entry built from it,    *)
(* though keys are put again with other sources, expire and are removed    *)
(* under another index.                                                    *)
THEOREM InvalidationAlwaysReaches == ContextSpec => []InvalidationReaches
<1>1. ContextInit => CacheInv
  BY DEF ContextInit, CacheInv, InvalidationReaches
<1>2. CacheInv /\ [ContextNext]_contextVars => CacheInv'
  BY CacheStep
<1>3. CacheInv => InvalidationReaches
  BY DEF CacheInv
<1> QED  BY <1>1, <1>2, <1>3, PTL DEF ContextSpec

ConflictsTyped == conflicts \in [Claims -> ClaimConflicts \union {NoConflict}]

(* A registration keeps what the registry says of a claim, and what says   *)
(* otherwise adds its sources to it.                                       *)
LEMMA RegisterKeeps ==
  ASSUME ConflictsTyped, NEW claim \in Claims, NEW conflict \in ClaimConflicts,
         RegisterConflict(claim, conflict)
  PROVE  /\ ConflictsTyped'
         /\ \A other \in Claims : conflicts[other] # NoConflict =>
              conflicts'[other].statement = conflicts[other].statement
         /\ \/ conflicts[claim] = NoConflict
            \/ conflict.statement = conflicts[claim].statement
            \/ conflicts[claim].sources \union conflict.sources
                 \subseteq conflicts'[claim].sources
<1> DEFINE merged == Merged(conflicts[claim], conflict)
<1>1. conflicts[claim] # NoConflict => conflicts[claim] \in ClaimConflicts
  BY DEF ConflictsTyped
<1>2. merged \in ClaimConflicts
  BY <1>1 DEF Merged, ClaimConflicts
<1>3. conflicts[claim] # NoConflict => merged.statement = conflicts[claim].statement
  BY <1>1 DEF Merged, ClaimConflicts
<1>4. conflicts' = [conflicts EXCEPT ![claim] = merged]
  BY DEF RegisterConflict, ConflictsTyped
<1>5. \/ conflicts[claim] = NoConflict
      \/ conflict.statement = conflicts[claim].statement
      \/ conflicts[claim].sources \union conflict.sources \subseteq merged.sources
  BY DEF Merged
<1> HIDE DEF merged
<1> QED  BY <1>2, <1>3, <1>4, <1>5 DEF ConflictsTyped

(* A conflict that was registered stays and keeps its statement, whatever  *)
(* is registered after it, and a claim that says otherwise adds its        *)
(* sources to it.                                                          *)
THEOREM ConflictsAlwaysStand == ContextSpec => ConflictsStand
<1> DEFINE Keeps(claim) == \A conflict \in ClaimConflicts : RegisterConflict(claim, conflict) =>
                             \/ conflict.statement = conflicts[claim].statement
                             \/ conflicts[claim].sources \union conflict.sources
                                  \subseteq conflicts'[claim].sources
           Says == \A claim \in Claims : conflicts[claim] # NoConflict =>
                     conflicts'[claim].statement = conflicts[claim].statement
           Stand == \A claim \in Claims : conflicts[claim] # NoConflict =>
                      /\ conflicts'[claim].statement = conflicts[claim].statement
                      /\ Keeps(claim)
<1>1. ContextInit => ConflictsTyped
  BY DEF ContextInit, ConflictsTyped
<1>2. ConflictsTyped /\ [ContextNext]_contextVars => ConflictsTyped' /\ Stand
  <2> SUFFICES ASSUME ConflictsTyped, [ContextNext]_contextVars
               PROVE  ConflictsTyped' /\ Stand
    OBVIOUS
  <2>1. ASSUME UNCHANGED conflicts
        PROVE  ConflictsTyped' /\ Says
    BY <2>1 DEF ConflictsTyped
  <2>2. ASSUME NEW claim \in Claims, NEW conflict \in ClaimConflicts,
               RegisterConflict(claim, conflict)
        PROVE  ConflictsTyped' /\ Says
    BY <2>2, RegisterKeeps
  <2>3. ConflictsTyped' /\ Says
    BY <2>1, <2>2 DEF ContextNext, CacheNext, RecordNext, contextVars, GetExpired, Put,
       InvalidateSource, InvalidateScope, ClockTicks, Compress, Plan
  <2>4. \A claim \in Claims : conflicts[claim] # NoConflict => Keeps(claim)
    BY RegisterKeeps
  <2> QED  BY <2>3, <2>4
<1>3. Stand => [Stand]_conflicts
  OBVIOUS
<1> QED  BY <1>1, <1>2, <1>3, PTL DEF ContextSpec, ConflictsStand

LEMMA PlannedTyped ==
  ASSUME NEW hints \in 0 .. MaxHints, NEW want \in Wants
  PROVE  Planned(hints, want) \in Plans
<1>1. MaxIntents \in Nat \ {0} /\ hints \in Nat
  BY ContextAssumption
<1> QED  BY <1>1 DEF Planned, Plans

LEMMA ContextTypeStep ==
  ASSUME ContextTypeOK, CacheInv, [ContextNext]_contextVars
  PROVE  ContextTypeOK'
<1>1. CacheInv'
  BY CacheStep
<1>2. clock' \in 0 .. MaxClock
  <2>1. CASE ClockTicks
    BY <2>1, ContextAssumption DEF ClockTicks, ContextTypeOK
  <2>2. CASE UNCHANGED clock
    BY <2>2 DEF ContextTypeOK
  <2> QED
    BY <2>1, <2>2 DEF ContextNext, CacheNext, RecordNext, contextVars, GetExpired, Put,
       InvalidateSource, InvalidateScope, RegisterConflict, Compress, Plan
<1>3. conflicts' \in [Claims -> ClaimConflicts \union {NoConflict}]
  <2>1. ConflictsTyped
    BY DEF ContextTypeOK, ConflictsTyped
  <2>2. CASE UNCHANGED conflicts
    BY <2>2 DEF ContextTypeOK
  <2>3. ASSUME NEW claim \in Claims, NEW conflict \in ClaimConflicts,
               RegisterConflict(claim, conflict)
        PROVE  ConflictsTyped'
    BY <2>1, <2>3, RegisterKeeps
  <2> QED
    BY <2>2, <2>3 DEF ConflictsTyped, ContextNext, CacheNext, RecordNext, contextVars,
       GetExpired, Put, InvalidateSource, InvalidateScope, ClockTicks, Compress, Plan
<1>4. depth' \in 0 .. (IF MaxDepth < 2 THEN 2 ELSE MaxDepth)
  <2>1. CASE Compress
    BY <2>1, ContextAssumption DEF Compress, ContextTypeOK
  <2>2. CASE UNCHANGED depth
    BY <2>2 DEF ContextTypeOK
  <2> QED
    BY <2>1, <2>2 DEF ContextNext, CacheNext, RecordNext, contextVars, GetExpired, Put,
       InvalidateSource, InvalidateScope, ClockTicks, RegisterConflict, Plan
<1>5. plans' \in [Identities -> Plans \union {NoPlan}]
  <2>1. ASSUME NEW identity \in Identities, NEW hints \in 0 .. MaxHints, NEW want \in Wants,
               Plan(identity, hints, want)
        PROVE  plans' \in [Identities -> Plans \union {NoPlan}]
    BY <2>1, PlannedTyped DEF Plan, ContextTypeOK
  <2>2. CASE UNCHANGED plans
    BY <2>2 DEF ContextTypeOK
  <2> QED
    BY <2>1, <2>2 DEF ContextNext, CacheNext, RecordNext, contextVars, GetExpired, Put,
       InvalidateSource, InvalidateScope, ClockTicks, RegisterConflict, Compress
<1> QED  BY <1>1, <1>2, <1>3, <1>4, <1>5 DEF ContextTypeOK, CacheInv

(* No plan has more intents than the planner allows, and no lineage is     *)
(* deeper than its limit, whatever is compressed and planned.              *)
THEOREM ContextTypeCorrect == ContextSpec => []ContextTypeOK
<1> DEFINE Inv == ContextTypeOK /\ CacheInv
<1>1. ContextInit => Inv
  BY ContextAssumption DEF ContextInit, ContextTypeOK, CacheInv, InvalidationReaches
<1>2. Inv /\ [ContextNext]_contextVars => Inv'
  BY ContextTypeStep, CacheStep
<1> QED  BY <1>1, <1>2, PTL DEF ContextSpec

-----------------------------------------------------------------------------
(* SchemaLock.  What was published is in the lock of the base revision,    *)
(* which names no version twice.                                           *)
SchemaInv ==
  /\ Readable(baseline)
  /\ \A document \in published : Entry(document) \in baseline.entries

LEMMA SchemaStep ==
  ASSUME SchemaInv, [SchemaNext]_schemaVars
  PROVE  SchemaInv'
<1>1. CASE Integrate
  <2>1. baseline.entries \subseteq lock.entries
    BY <1>1 DEF Integrate, HistoryKept, NoLock
  <2>2. Readable(lock) /\ \A document \in Documented : Entry(document) \in lock.entries
    BY <1>1 DEF Integrate, Catalogued, AllLocked
  <2> QED  BY <1>1, <2>1, <2>2 DEF Integrate, SchemaInv, Readable, Entry
<1>2. CASE UNCHANGED <<baseline, published>>
  BY <1>2 DEF SchemaInv, Readable, Entry
<1> QED
  BY <1>1, <1>2 DEF SchemaNext, schemaVars, WriteFile, Unlock, Relock, UpdateLock

(* One version never has two contents, whatever files are rewritten and    *)
(* whatever the lock file is edited to between two integrations.           *)
THEOREM VersionsStandForGood == SchemaSpec => []VersionsStand
<1>1. SchemaInit => SchemaInv
  BY DEF SchemaInit, SchemaInv, Readable, NoLock
<1>2. SchemaInv /\ [SchemaNext]_schemaVars => SchemaInv'
  BY SchemaStep
<1>3. SchemaInv => VersionsStand
  BY DEF SchemaInv, Readable, VersionsStand, Entry, Tuple
<1> QED  BY <1>1, <1>2, <1>3, PTL DEF SchemaSpec

(* update_schema_lock keeps the history that was kept before it.           *)
THEOREM HistoryKeptByUpdates == SchemaSpec => UpdatesKeepHistory
<1>1. UpdateLock /\ HistoryKept(lock, baseline) => HistoryKept(lock', baseline)
  BY DEF UpdateLock, HistoryKept, Locked
<1> QED  BY <1>1, PTL DEF SchemaSpec, UpdatesKeepHistory

(* Documents, the lock and its base revision keep their shape.             *)
THEOREM SchemaTypeCorrect == SchemaSpec => []SchemaTypeOK
<1> DEFINE entriesOf == {Entry(d) : d \in Schemas}
           locks == [present : BOOLEAN, entries : SUBSET entriesOf]
<1>1. \A kept \in SUBSET entriesOf : Locked(kept) \in locks
  BY DEF Locked
<1>2. NoLock \in locks
  BY DEF NoLock
<1>3. \A locked \in locks : locked.entries \subseteq entriesOf
  OBVIOUS
<1>4. \A d \in Schemas : Entry(d) \in entriesOf
  OBVIOUS
<1>5. SchemaTypeOK <=> /\ files \in [Files -> Schemas \union {NoFile}]
                      /\ lock \in locks /\ baseline \in locks /\ published \subseteq Schemas
  BY DEF SchemaTypeOK
<1>6. SchemaTypeOK' <=> /\ files' \in [Files -> Schemas \union {NoFile}]
                       /\ lock' \in locks /\ baseline' \in locks /\ published' \subseteq Schemas
  BY DEF SchemaTypeOK
<1> HIDE DEF entriesOf, locks
<1>7. SchemaInit => SchemaTypeOK
  BY <1>2, <1>5 DEF SchemaInit
<1>8. SchemaTypeOK /\ [SchemaNext]_schemaVars => SchemaTypeOK'
  <2> SUFFICES ASSUME SchemaTypeOK, [SchemaNext]_schemaVars
               PROVE  SchemaTypeOK'
    OBVIOUS
  <2>1. Documented \subseteq Schemas
    BY <1>5 DEF Documented
  <2>2. ASSUME NEW f \in Files, NEW document \in Schemas \union {NoFile}, WriteFile(f, document)
        PROVE  SchemaTypeOK'
    BY <1>5, <1>6, <2>2 DEF WriteFile
  <2>3. ASSUME NEW entry \in lock.entries, Unlock(entry)
        PROVE  SchemaTypeOK'
    BY <1>1, <1>3, <1>5, <1>6, <2>3 DEF Unlock
  <2>4. ASSUME NEW entry \in lock.entries, NEW document \in Schemas, Relock(entry, document)
        PROVE  SchemaTypeOK'
    BY <1>1, <1>3, <1>4, <1>5, <1>6, <2>4 DEF Relock
  <2>5. CASE UpdateLock
    <3>1. Missing \subseteq entriesOf
      BY <1>4, <2>1 DEF Missing
    <3> QED  BY <1>1, <1>3, <1>5, <1>6, <2>5, <3>1 DEF UpdateLock
  <2>6. CASE Integrate
    BY <1>5, <1>6, <2>1, <2>6 DEF Integrate
  <2>7. CASE UNCHANGED schemaVars
    BY <1>5, <1>6, <2>7 DEF schemaVars
  <2> QED  BY <2>2, <2>3, <2>4, <2>5, <2>6, <2>7 DEF SchemaNext
<1> QED  BY <1>7, <1>8, PTL DEF SchemaSpec

-----------------------------------------------------------------------------
(* ArtifactStore.  Of a key that was not disturbed there is one put at a   *)
(* time, and one that is about to write finds nothing or what it writes.   *)
Puts == [step : {"head", "get", "write"}, key : ArtifactKeys, content : Contents]

ArtifactInv ==
  /\ bucket \in [ArtifactKeys -> Contents \union {NoContent}]
  /\ puts \in [Writers -> Puts \union {NoPut}]
  /\ refs \subseteq [key : ArtifactKeys, digest : Contents]
  /\ disturbed \subseteq ArtifactKeys
  /\ ReferencesStayTrue
  /\ \A w, v \in Writers :
       w # v /\ puts[w] # NoPut /\ puts[v] # NoPut /\ puts[w].key = puts[v].key =>
         puts[w].key \in disturbed
  /\ \A w \in Writers :
       puts[w].step = "write" /\ puts[w].key \notin disturbed =>
         bucket[puts[w].key] \in {NoContent, puts[w].content}

(* A step of the put of one writer.                                        *)
LEMMA PutStep ==
  ASSUME ArtifactInv, NEW w \in Writers, puts[w].step # "none"
  PROVE  /\ puts[w] \in Puts /\ puts[w] # NoPut
         /\ puts[w].key \in ArtifactKeys /\ puts[w].content \in Contents
         /\ \A step \in {"get", "write"} : Goes(w, step) =>
              /\ puts' \in [Writers -> Puts \union {NoPut}]
              /\ puts'[w].step = step /\ puts'[w].key = puts[w].key
              /\ puts'[w].content = puts[w].content /\ puts'[w] # NoPut
              /\ \A v \in Writers \ {w} : puts'[v] = puts[v]
         /\ Gives(w) =>
              /\ puts' \in [Writers -> Puts \union {NoPut}]
              /\ puts'[w] = NoPut /\ puts'[w].step = "none"
              /\ \A v \in Writers \ {w} : puts'[v] = puts[v]
<1>1. NoPut.step = "none"
  BY DEF NoPut
<1>2. puts[w] \in Puts /\ puts \in [Writers -> Puts \union {NoPut}]
  BY <1>1 DEF ArtifactInv
<1>3. puts[w] # NoPut /\ puts[w].key \in ArtifactKeys /\ puts[w].content \in Contents
  BY <1>1, <1>2 DEF Puts
<1>4. ASSUME NEW step \in {"get", "write"}, Goes(w, step)
      PROVE  /\ puts' \in [Writers -> Puts \union {NoPut}]
             /\ puts'[w].step = step /\ puts'[w].key = puts[w].key
             /\ puts'[w].content = puts[w].content /\ puts'[w] # NoPut
             /\ \A v \in Writers \ {w} : puts'[v] = puts[v]
  <2> DEFINE next == [puts[w] EXCEPT !.step = step]
  <2>1. /\ next \in Puts /\ next.step = step /\ next.key = puts[w].key
        /\ next.content = puts[w].content /\ next # NoPut
    BY <1>1, <1>2 DEF Puts
  <2>2. puts' = [puts EXCEPT ![w] = next]
    BY <1>2, <1>4 DEF Goes
  <2> HIDE DEF next
  <2> QED  BY <1>2, <2>1, <2>2
<1>5. ASSUME Gives(w)
      PROVE  /\ puts' \in [Writers -> Puts \union {NoPut}]
             /\ puts'[w] = NoPut /\ puts'[w].step = "none"
             /\ \A v \in Writers \ {w} : puts'[v] = puts[v]
  BY <1>1, <1>2, <1>5 DEF Gives
<1> QED  BY <1>2, <1>3, <1>4, <1>5

(* Writing what a put brought keeps every reference true.                  *)
LEMMA WriteInv ==
  ASSUME ArtifactInv, NEW w \in Writers, puts[w].step = "write",
         bucket' = [bucket EXCEPT ![puts[w].key] = puts[w].content], Gives(w),
         refs' \subseteq refs \union {[key |-> puts[w].key, digest |-> puts[w].content]},
         disturbed' = disturbed
  PROVE  ArtifactInv'
<1> DEFINE k == puts[w].key
           content == puts[w].content
           own == [key |-> k, digest |-> content]
<1>1. /\ k \in ArtifactKeys /\ content \in Contents /\ puts[w] # NoPut
      /\ puts' \in [Writers -> Puts \union {NoPut}]
      /\ puts'[w] = NoPut /\ puts'[w].step = "none"
      /\ \A v \in Writers \ {w} : puts'[v] = puts[v]
  BY PutStep
<1>2. own \in [key : ArtifactKeys, digest : Contents] /\ own.key = k /\ own.digest = content
  BY <1>1
<1>3. /\ bucket' \in [ArtifactKeys -> Contents \union {NoContent}]
      /\ bucket'[k] = content
      /\ \A other \in ArtifactKeys \ {k} : bucket'[other] = bucket[other]
  BY <1>1 DEF ArtifactInv
<1>4. k \notin disturbed => bucket[k] \in {NoContent, content}
  BY DEF ArtifactInv
<1> HIDE DEF k, content, own
<1>5. ASSUME NEW ref \in refs', ref.key \notin disturbed
      PROVE  bucket'[ref.key] = ref.digest
  <2>1. CASE ref = own
    BY <1>2, <1>3, <2>1
  <2>2. CASE ref \in refs
    <3>1. ref.key \in ArtifactKeys /\ ref.digest \in Contents /\ bucket[ref.key] = ref.digest
      BY <1>5, <2>2 DEF ArtifactInv, ReferencesStayTrue
    <3>2. CASE ref.key = k
      BY <1>3, <1>4, <1>5, <3>1, <3>2, ContentAssumption
    <3> QED  BY <1>3, <3>1, <3>2
  <2> QED  BY <2>1, <2>2 DEF own, k, content
<1>6. refs' \subseteq [key : ArtifactKeys, digest : Contents]
  BY <1>2 DEF ArtifactInv, own, k, content
<1>7. \A u, v \in Writers :
        u # v /\ puts'[u] # NoPut /\ puts'[v] # NoPut /\ puts'[u].key = puts'[v].key =>
          puts'[u].key \in disturbed
  BY <1>1 DEF ArtifactInv
<1>8. ASSUME NEW v \in Writers, puts'[v].step = "write", puts'[v].key \notin disturbed
      PROVE  bucket'[puts'[v].key] \in {NoContent, puts'[v].content}
  <2>1. v # w /\ puts'[v] = puts[v]
    BY <1>1, <1>8
  <2>2. puts[v] # NoPut /\ puts[v].key \in ArtifactKeys
    BY <1>8, <2>1, PutStep
  <2>3. puts[v].key # k
    BY <1>1, <1>8, <2>1, <2>2 DEF ArtifactInv, k
  <2> QED  BY <1>3, <1>8, <2>1, <2>2, <2>3 DEF ArtifactInv
<1> QED  BY <1>1, <1>3, <1>5, <1>6, <1>7, <1>8 DEF ArtifactInv, ReferencesStayTrue

LEMMA ArtifactStep ==
  ASSUME ArtifactInv, [ArtifactNext]_artifactVars
  PROVE  ArtifactInv'
<1>0. NoPut.step = "none"
  BY DEF NoPut
<1>1. ASSUME NEW w \in Writers, NEW k \in ArtifactKeys, NEW content \in Contents,
             PutArtifact(w, k, content)
      PROVE  ArtifactInv'
  <2> DEFINE put == [step |-> "head", key |-> k, content |-> content]
  <2>1. put \in Puts /\ put.step = "head" /\ put.key = k /\ put # NoPut
    BY <1>0 DEF Puts
  <2>2. puts' = [puts EXCEPT ![w] = put] /\ bucket' = bucket /\ refs' = refs
    BY <1>1 DEF PutArtifact
  <2> HIDE DEF put
  <2>3. /\ puts' \in [Writers -> Puts \union {NoPut}] /\ puts'[w] = put
        /\ \A v \in Writers \ {w} : puts'[v] = puts[v]
    BY <2>1, <2>2 DEF ArtifactInv
  <2>4. /\ disturbed \subseteq disturbed' /\ disturbed' \subseteq ArtifactKeys
        /\ (\E v \in Writers : puts[v] # NoPut /\ puts[v].key = k) => k \in disturbed'
    BY <1>1 DEF PutArtifact, ArtifactInv
  <2>5. ReferencesStayTrue'
    BY <2>2, <2>4 DEF ArtifactInv, ReferencesStayTrue
  <2>6. \A u, v \in Writers :
          u # v /\ puts'[u] # NoPut /\ puts'[v] # NoPut /\ puts'[u].key = puts'[v].key =>
            puts'[u].key \in disturbed'
    BY <2>1, <2>3, <2>4 DEF ArtifactInv
  <2>7. \A v \in Writers :
          puts'[v].step = "write" /\ puts'[v].key \notin disturbed' =>
            bucket'[puts'[v].key] \in {NoContent, puts'[v].content}
    BY <2>1, <2>2, <2>3, <2>4 DEF ArtifactInv
  <2> QED  BY <2>2, <2>3, <2>4, <2>5, <2>6, <2>7 DEF ArtifactInv
<1>2. ASSUME NEW w \in Writers, NEW step \in {"get", "write"}, Goes(w, step),
             puts[w].step # "none", UNCHANGED <<bucket, refs>>,
             disturbed \subseteq disturbed', disturbed' \subseteq ArtifactKeys,
             step = "write" /\ puts[w].key \notin disturbed' =>
               bucket[puts[w].key] \in {NoContent, puts[w].content}
      PROVE  ArtifactInv'
  <2>1. /\ puts' \in [Writers -> Puts \union {NoPut}] /\ puts[w] # NoPut
        /\ puts'[w].step = step /\ puts'[w].key = puts[w].key
        /\ puts'[w].content = puts[w].content
        /\ \A v \in Writers \ {w} : puts'[v] = puts[v]
    BY <1>2, PutStep
  <2>2. ReferencesStayTrue'
    BY <1>2 DEF ArtifactInv, ReferencesStayTrue
  <2>3. \A u, v \in Writers :
          u # v /\ puts'[u] # NoPut /\ puts'[v] # NoPut /\ puts'[u].key = puts'[v].key =>
            puts'[u].key \in disturbed'
    BY <1>2, <2>1 DEF ArtifactInv
  <2>4. \A v \in Writers :
          puts'[v].step = "write" /\ puts'[v].key \notin disturbed' =>
            bucket'[puts'[v].key] \in {NoContent, puts'[v].content}
    BY <1>2, <2>1 DEF ArtifactInv
  <2> QED  BY <1>2, <2>1, <2>2, <2>3, <2>4 DEF ArtifactInv
<1>3. ASSUME NEW w \in Writers, Gives(w), puts[w].step # "none",
             UNCHANGED <<bucket, refs, disturbed>>
      PROVE  ArtifactInv'
  BY <1>0, <1>3, PutStep DEF ArtifactInv, ReferencesStayTrue
<1>4. ASSUME NEW w \in Writers, NEW fails \in BOOLEAN, HeadObject(w, fails)
      PROVE  ArtifactInv'
  <2>1. puts[w].step # "none" /\ puts[w].key \in ArtifactKeys /\ UNCHANGED <<bucket, refs>>
    BY <1>4, PutStep DEF HeadObject
  <2>2. /\ disturbed \subseteq disturbed' /\ disturbed' \subseteq ArtifactKeys
        /\ fails => puts[w].key \in disturbed'
    BY <1>4, <2>1 DEF HeadObject, ArtifactInv
  <2>3. CASE fails \/ bucket[puts[w].key] = NoContent
    BY <1>2, <1>4, <2>1, <2>2, <2>3 DEF HeadObject
  <2>4. CASE ~ (fails \/ bucket[puts[w].key] = NoContent)
    BY <1>2, <1>4, <2>1, <2>2, <2>4 DEF HeadObject
  <2> QED  BY <2>3, <2>4
<1>5. ASSUME NEW w \in Writers, GetObject(w)
      PROVE  ArtifactInv'
  <2>1. puts[w].step # "none" /\ UNCHANGED <<bucket, refs, disturbed>>
        /\ disturbed' \subseteq ArtifactKeys
    BY <1>5 DEF GetObject, ArtifactInv
  <2>2. CASE bucket[puts[w].key] = puts[w].content
    BY <1>2, <1>5, <2>1, <2>2 DEF GetObject
  <2>3. CASE bucket[puts[w].key] # puts[w].content
    BY <1>3, <1>5, <2>1, <2>3 DEF GetObject
  <2> QED  BY <2>2, <2>3
<1>6. ASSUME NEW w \in Writers, PutObject(w)
      PROVE  ArtifactInv'
  BY <1>6, WriteInv DEF PutObject
<1>7. ASSUME NEW w \in Writers, NEW written \in BOOLEAN, Breaks(w, written)
      PROVE  ArtifactInv'
  <2>1. CASE written
    BY <1>7, <2>1, WriteInv DEF Breaks
  <2>2. CASE ~ written
    BY <1>3, <1>7, <2>2 DEF Breaks
  <2> QED  BY <2>1, <2>2
<1>8. CASE UNCHANGED artifactVars
  BY <1>8 DEF artifactVars, ArtifactInv, ReferencesStayTrue
<1> QED  BY <1>1, <1>4, <1>5, <1>6, <1>7, <1>8 DEF ArtifactNext

LEMMA ArtifactInitInv == ArtifactInit => ArtifactInv
BY DEF ArtifactInit, ArtifactInv, ReferencesStayTrue, NoPut

(* Buckets, puts under way and references keep their shape.                *)
THEOREM ArtifactTypeCorrect == ArtifactSpec => []ArtifactTypeOK
<1>1. ArtifactInv => ArtifactTypeOK
  <2>1. \A put \in Puts \union {NoPut} : put.step \in Steps
    BY DEF Puts, NoPut, Steps
  <2> QED  BY <2>1 DEF ArtifactInv, ArtifactTypeOK
<1>2. ArtifactInv /\ [ArtifactNext]_artifactVars => ArtifactInv'
  BY ArtifactStep
<1> QED  BY <1>1, <1>2, ArtifactInitInv, PTL DEF ArtifactSpec

(* A reference that was handed out stays true through failing requests,    *)
(* lost answers and puts of other content, however many writers there are, *)
(* unless two puts of its key overlapped or a head request of one failed.  *)
THEOREM ReferencesTrueForGood == ArtifactSpec => []ReferencesStayTrue
<1>1. ArtifactInv => ReferencesStayTrue
  BY DEF ArtifactInv
<1>2. ArtifactInv /\ [ArtifactNext]_artifactVars => ArtifactInv'
  BY ArtifactStep
<1> QED  BY <1>1, <1>2, ArtifactInitInv, PTL DEF ArtifactSpec

-----------------------------------------------------------------------------
(* AuthorityStores.  A row is that of the record, or there is neither; an  *)
(* event has one row if it was appended, published if it was sent.         *)
RowsInv ==
  /\ records \in [Ids -> StoredRecords \union {NoRecordOf}]
  /\ rows = [id \in Ids |-> IF records[id] = NoRecordOf THEN NoRow ELSE Row(records[id])]

OutboxInv ==
  /\ appended \in Seq([event : Events, moment : Moments, release : {"r", NoRelease}])
  /\ sent \subseteq Events
  /\ \A row \in outbox : row \in [event : Events, moment : Moments, published : BOOLEAN, marks : Nat]
  /\ \A row, other \in outbox : row.event = other.event => row = other
  /\ \A event \in Events : event \in EventsIn <=> InOutbox(event)
  /\ \A event \in Events : event \in sent <=> DedupeInSql(event)

StoresInv == RowsInv /\ OutboxInv /\ SameAnswers /\ kind \in DOMAIN Repositories \union {"outbox"}

LEMMA RowTells ==
  ASSUME NEW record \in StoredRecords
  PROVE  /\ record # NoRecordOf /\ Row(record) # NoRow
         /\ Row(record).number = record.number /\ Row(record).payload = record
         /\ Row(record).token = {record.lease} \ {NoLease}
BY DEF StoredRecords, NoRecordOf, Row, NoRow

LEMMA RowsHoldRecords == RowsInv => SameRecords
<1> SUFFICES ASSUME RowsInv, NEW id \in Ids
             PROVE  FromRow(rows[id]) = records[id]
  BY DEF SameRecords
<1>1. CASE records[id] = NoRecordOf
  BY <1>1 DEF RowsInv, FromRow
<1>2. CASE records[id] # NoRecordOf
  BY <1>2, RowTells DEF RowsInv, FromRow
<1> QED  BY <1>1, <1>2

LEMMA TokensAreNumbers == \A token \in Fencings \union {0} : token \in Nat
BY StoresAssumption

(* What the conditional UPDATE and the checks in memory make of a token.   *)
LEMMA TokensPassAlike ==
  ASSUME NEW record \in StoredRecords, NEW token \in Fencings \union {Unasked}
  PROVE  TokenPasses(Row(record), token) <=> ~ (token # Unasked /\ token < record.lease)
<1>1. /\ token \in Nat /\ record.lease \in Nat
      /\ Row(record).token = IF record.lease = 0 THEN {} ELSE {record.lease}
  <2>1. token \in Nat
    BY TokensAreNumbers DEF Unasked
  <2>2. record.lease \in Nat
    <3>1. record.lease \in Fencings \union {NoLease}
      BY DEF StoredRecords
    <3> QED  BY <3>1, TokensAreNumbers DEF NoLease
  <2>3. Row(record).token = {record.lease} \ {0}
    BY RowTells DEF NoLease
  <2> QED  BY <2>1, <2>2, <2>3
<1>2. TokenPasses(Row(record), token) <=>
        token = 0 \/ \A current \in Row(record).token : current <= token
  BY DEF TokenPasses, Unasked
<1>3. CASE record.lease = 0
  BY <1>1, <1>2, <1>3
<1>4. CASE record.lease # 0
  <2>1. TokenPasses(Row(record), token) <=> token = 0 \/ record.lease <= token
    BY <1>1, <1>2, <1>4
  <2> QED  BY <1>1, <2>1 DEF Unasked
<1> QED  BY <1>3, <1>4

LEMMA AnswersOfUpdates ==
  ASSUME RowsInv, NEW id \in Ids,
         NEW expected \in Numbers \union {Unasked}, NEW token \in Fencings \union {Unasked}
  PROVE  LET one == UpdateInMemory(id, expected, token)
             two == UpdateInSql(id, expected, token) IN
         /\ one = "done" <=> two = "done"
         /\ one # two => one = "revision conflict" /\ two = "stale fencing"
         /\ one = "done" => records[id] # NoRecordOf
<1>1. CASE records[id] = NoRecordOf
  <2>1. rows[id] = NoRow
    BY <1>1 DEF RowsInv
  <2> QED  BY <1>1, <2>1 DEF UpdateInMemory, UpdateInSql
<1>2. CASE records[id] # NoRecordOf
  <2>1. records[id] \in StoredRecords
    BY <1>2 DEF RowsInv
  <2>2. rows[id] = Row(records[id])
    BY <1>2 DEF RowsInv
  <2>3. /\ rows[id] # NoRow /\ rows[id].number = records[id].number
        /\ TokenPasses(rows[id], token) <=> ~ (token # Unasked /\ token < records[id].lease)
    BY <2>1, <2>2, RowTells, TokensPassAlike
  <2> QED  BY <1>2, <2>3 DEF UpdateInMemory, UpdateInSql
<1> QED  BY <1>1, <1>2

LEMMA RecordWritten ==
  ASSUME RowsInv, NEW id \in Ids, NEW record \in StoredRecords,
         records' = [records EXCEPT ![id] = record],
         rows' = [rows EXCEPT ![id] = Row(record)]
  PROVE  RowsInv'
<1>1. records' \in [Ids -> StoredRecords \union {NoRecordOf}]
  BY DEF RowsInv
<1>2. ASSUME NEW i \in Ids
      PROVE  rows'[i] = IF records'[i] = NoRecordOf THEN NoRow ELSE Row(records'[i])
  <2>1. CASE i = id
    BY <2>1, RowTells DEF RowsInv
  <2>2. CASE i # id
    BY <2>2 DEF RowsInv
  <2> QED  BY <2>1, <2>2
<1>3. rows' = [i \in Ids |-> rows'[i]]
  BY DEF RowsInv
<1> QED  BY <1>1, <1>2, <1>3 DEF RowsInv

LEMMA OutboxKept ==
  ASSUME OutboxInv, UNCHANGED <<appended, sent, outbox>>
  PROVE  OutboxInv'
BY DEF OutboxInv, EventsIn, InOutbox, DedupeInSql

LEMMA RowsKept ==
  ASSUME RowsInv, UNCHANGED <<records, rows>>
  PROVE  RowsInv'
BY DEF RowsInv

LEMMA SameAnswer ==
  ASSUME answers'[1] = answers'[2]
  PROVE  SameAnswers'
BY DEF SameAnswers

LEMMA RecordStep ==
  ASSUME StoresInv, NEW id \in Ids, NEW record \in StoredRecords,
         \/ \E at \in TimesToList : Create(id, record, at)
         \/ \E expected \in Numbers \union {Unasked}, token \in Fencings \union {Unasked} :
              Update(id, record, expected, token)
  PROVE  StoresInv'
<1>1. ASSUME NEW at \in TimesToList, Create(id, record, at)
      PROVE  StoresInv'
  <2>1. CreateInMemory(id) = CreateInSql(id)
    BY RowTells DEF StoresInv, RowsInv, CreateInMemory, CreateInSql
  <2>2. answers'[1] = answers'[2] /\ UNCHANGED <<kind, appended, sent, outbox>>
    BY <1>1, <2>1 DEF Create
  <2>3. CASE answers'[1] = "done"
    <3>1. records' = [records EXCEPT ![id] = record] /\ rows' = [rows EXCEPT ![id] = Row(record)]
      BY <1>1, <2>2, <2>3 DEF Create
    <3>2. RowsInv'
      BY <3>1, RecordWritten DEF StoresInv
    <3> QED
      BY <2>2, <3>2, OutboxKept, SameAnswer DEF StoresInv
  <2>4. CASE answers'[1] # "done"
    <3>1. UNCHANGED <<records, rows>>
      BY <1>1, <2>2, <2>4 DEF Create
    <3> QED
      BY <2>2, <3>1, OutboxKept, RowsKept, SameAnswer DEF StoresInv
  <2> QED  BY <2>3, <2>4
<1>2. ASSUME NEW expected \in Numbers \union {Unasked}, NEW token \in Fencings \union {Unasked},
             Update(id, record, expected, token)
      PROVE  StoresInv'
  <2> DEFINE one == UpdateInMemory(id, expected, token)
             two == UpdateInSql(id, expected, token)
  <2>1. /\ one = "done" <=> two = "done"
        /\ one # two => one = "revision conflict" /\ two = "stale fencing"
    BY AnswersOfUpdates DEF StoresInv
  <2>2. answers' = <<one, two>> /\ UNCHANGED <<kind, appended, sent, outbox>>
    BY <1>2 DEF Update
  <2>3. /\ records' = IF one = "done" THEN [records EXCEPT ![id] = record] ELSE records
        /\ rows' = IF two = "done" THEN [rows EXCEPT ![id] = Row(record)] ELSE rows
    BY <1>2, <2>2 DEF Update
  <2> HIDE DEF one, two
  <2>4. SameAnswers'
    BY <2>1, <2>2 DEF SameAnswers
  <2>5. RowsInv'
    <3>1. CASE one = "done"
      BY <2>1, <2>3, <3>1, RecordWritten DEF StoresInv
    <3>2. CASE one # "done"
      BY <2>1, <2>3, <3>2 DEF StoresInv, RowsInv
    <3> QED  BY <3>1, <3>2
  <2> QED
    BY <2>2, <2>4, <2>5, OutboxKept DEF StoresInv
<1> QED  BY <1>1, <1>2

LEMMA AppendStep ==
  ASSUME StoresInv, NEW event \in Events, NEW at \in Moments, NEW release \in {"r", NoRelease},
         AppendEntry([event |-> event, moment |-> at, release |-> release])
  PROVE  StoresInv'
<1> DEFINE entry == [event |-> event, moment |-> at, release |-> release]
           row == [event |-> event, moment |-> at, published |-> FALSE, marks |-> 0]
<1>1. event \in EventsIn <=> InOutbox(event)
  BY DEF StoresInv, OutboxInv
<1>2. /\ answers'[1] = answers'[2] /\ UNCHANGED <<kind, records, rows, sent>>
      /\ answers'[1] = "done" <=> ~ InOutbox(event)
  BY <1>1 DEF AppendEntry
<1>3. CASE InOutbox(event)
  <2>1. UNCHANGED <<appended, outbox>>
    BY <1>2, <1>3 DEF AppendEntry
  <2> QED
    BY <1>2, <2>1, OutboxKept, RowsKept, SameAnswer DEF StoresInv
<1>4. CASE ~ InOutbox(event)
  <2>1. appended' = Append(appended, entry) /\ outbox' = outbox \union {row}
    BY <1>2, <1>4 DEF AppendEntry
  <2>2. /\ entry \in [event : Events, moment : Moments, release : {"r", NoRelease}]
        /\ entry.event = event
    OBVIOUS
  <2>3. /\ row \in [event : Events, moment : Moments, published : BOOLEAN, marks : Nat]
        /\ row.event = event /\ ~ row.published
    OBVIOUS
  <2> HIDE DEF entry, row
  <2>4. appended' \in Seq([event : Events, moment : Moments, release : {"r", NoRelease}])
    BY <2>1, <2>2 DEF StoresInv, OutboxInv
  <2>5. EventsIn' = EventsIn \union {event}
    <3>1. /\ Len(appended') = Len(appended) + 1 /\ Len(appended) \in Nat
          /\ appended'[Len(appended) + 1] = entry
          /\ \A i \in 1 .. Len(appended) : appended'[i] = appended[i]
          /\ DOMAIN appended = 1 .. Len(appended) /\ DOMAIN appended' = 1 .. Len(appended) + 1
      BY <2>1, <2>2, <2>4, LenProperties DEF StoresInv, OutboxInv
    <3> QED  BY <2>2, <3>1 DEF EventsIn
  <2>6. \A e \in Events : InOutbox(e)' <=> InOutbox(e) \/ e = event
    BY <2>1, <2>3 DEF InOutbox
  <2>7. \A e \in Events : DedupeInSql(e)' <=> DedupeInSql(e)
    BY <2>1, <2>3 DEF DedupeInSql
  <2>8. \A r, other \in outbox' : r.event = other.event => r = other
    BY <1>4, <2>1, <2>3 DEF InOutbox, StoresInv, OutboxInv
  <2>9. OutboxInv'
    BY <1>2, <2>1, <2>3, <2>4, <2>5, <2>6, <2>7, <2>8 DEF StoresInv, OutboxInv
  <2> QED  BY <1>2, <2>9, RowsKept, SameAnswer DEF StoresInv
<1> QED  BY <1>3, <1>4

LEMMA MarkStep ==
  ASSUME StoresInv, NEW event \in Events, MarkPublished(event)
  PROVE  StoresInv'
<1> DEFINE Marked(row) == IF row.event = event
                            THEN [row EXCEPT !.published = TRUE, !.marks = @ + 1] ELSE row
           OutboxRows == [event : Events, moment : Moments, published : BOOLEAN, marks : Nat]
<1>1. event \in EventsIn <=> InOutbox(event)
  BY DEF StoresInv, OutboxInv
<1>2. /\ answers'[1] = answers'[2] /\ UNCHANGED <<kind, records, rows, appended>>
      /\ sent' = IF InOutbox(event) THEN sent \union {event} ELSE sent
      /\ outbox' = {Marked(row) : row \in outbox}
  BY <1>1 DEF MarkPublished
<1>3. ASSUME NEW row \in OutboxRows
      PROVE  /\ Marked(row) \in OutboxRows /\ Marked(row).event = row.event
             /\ Marked(row).published <=> row.published \/ row.event = event
  <2> DEFINE once == [row EXCEPT !.published = TRUE]
             marked == [once EXCEPT !.marks = @ + 1]
  <2>1. once \in OutboxRows /\ once.event = row.event /\ once.published
    OBVIOUS
  <2> HIDE DEF once
  <2>2. marked \in OutboxRows /\ marked.event = row.event /\ marked.published
    BY <2>1
  <2>3. marked = [row EXCEPT !.published = TRUE, !.marks = @ + 1]
    BY DEF once
  <2> QED  BY <2>2, <2>3
<1>4. \A row \in outbox : row \in OutboxRows
  BY DEF StoresInv, OutboxInv
<1> HIDE DEF Marked, OutboxRows
<1>5. \A e \in Events : InOutbox(e)' <=> InOutbox(e)
  BY <1>2, <1>3, <1>4 DEF InOutbox
<1>6. \A e \in Events : DedupeInSql(e)' <=> DedupeInSql(e) \/ (e = event /\ InOutbox(event))
  BY <1>2, <1>3, <1>4 DEF DedupeInSql, InOutbox
<1>7. \A r, other \in outbox' : r.event = other.event => r = other
  BY <1>2, <1>3, <1>4 DEF StoresInv, OutboxInv
<1>8. \A row \in outbox' : row \in OutboxRows
  BY <1>2, <1>3, <1>4
<1>9. OutboxInv'
  BY <1>2, <1>5, <1>6, <1>7, <1>8 DEF StoresInv, OutboxInv, EventsIn, OutboxRows
<1> QED  BY <1>2, <1>9, RowsKept, SameAnswer DEF StoresInv

LEMMA StoresStep ==
  ASSUME StoresInv, [StoresNext]_storeVars
  PROVE  StoresInv'
<1>1. CASE UNCHANGED storeVars
  BY <1>1, OutboxKept, RowsKept DEF storeVars, StoresInv, SameAnswers
<1> QED  BY <1>1, RecordStep, AppendStep, MarkStep DEF StoresNext

LEMMA StoresInitInv == StoresInit => StoresInv
BY DEF StoresInit, StoresInv, RowsInv, OutboxInv, SameAnswers, EventsIn, InOutbox, DedupeInSql

(* The column created_at holds what was given, or nothing was added yet.   *)
CreatedTyped == created \in [Ids -> Moments \union {NoMoment}]

(* A row was marked at most as often as the bound allows.                  *)
MarksBounded == \A row \in outbox : row.marks \in 0 .. MaxMarks

LEMMA MarkBounded ==
  ASSUME StoresInv, MarksBounded, NEW event \in Events, MarkPublished(event)
  PROVE  MarksBounded'
<1> DEFINE Marked(row) == IF row.event = event
                            THEN [row EXCEPT !.published = TRUE, !.marks = @ + 1] ELSE row
           OutboxRows == [event : Events, moment : Moments, published : BOOLEAN, marks : Nat]
<1>1. outbox' = {Marked(row) : row \in outbox}
  BY DEF MarkPublished
<1>2. ASSUME NEW row \in outbox
      PROVE  Marked(row).marks \in 0 .. MaxMarks
  <2>1. row \in OutboxRows /\ row.marks \in 0 .. MaxMarks
    BY DEF StoresInv, OutboxInv, MarksBounded
  <2>2. CASE row.event # event
    BY <2>1, <2>2
  <2>3. CASE row.event = event
    <3>1. RowOf(event) = row
      BY <2>3 DEF RowOf, StoresInv, OutboxInv
    <3>2. row.marks < MaxMarks
      BY <2>3, <3>1 DEF MarkPublished, InOutbox
    <3> DEFINE once == [row EXCEPT !.published = TRUE]
    <3>3. once \in OutboxRows /\ once.marks = row.marks
      BY <2>1
    <3>4. Marked(row) = [once EXCEPT !.marks = @ + 1]
      BY <2>3
    <3> HIDE DEF once, Marked
    <3>5. Marked(row).marks = row.marks + 1
      BY <3>3, <3>4
    <3> QED  BY <2>1, <3>2, <3>5, StoresAssumption
  <2> QED  BY <2>2, <2>3
<1> QED  BY <1>1, <1>2 DEF MarksBounded

LEMMA StoresTypeStep ==
  ASSUME StoresInv, arrived \in Seq(Ids), CreatedTyped, MarksBounded, [StoresNext]_storeVars
  PROVE  arrived' \in Seq(Ids) /\ CreatedTyped' /\ MarksBounded'
<1>1. arrived' \in Seq(Ids) /\ CreatedTyped'
  <2>1. ASSUME NEW id \in Ids, NEW record, NEW at \in TimesToList, Create(id, record, at)
        PROVE  arrived' \in Seq(Ids) /\ CreatedTyped'
    <3>1. arrived' \in Seq(Ids)
      BY <2>1, AppendProperties DEF Create
    <3> QED  BY <2>1, <3>1 DEF Create, CreatedTyped, TimesToList
  <2>2. CASE UNCHANGED <<arrived, created>>
    BY <2>2 DEF CreatedTyped
  <2> QED  BY <2>1, <2>2 DEF StoresNext, storeVars, Update, AppendEntry, MarkPublished
<1>2. MarksBounded'
  <2>1. CASE UNCHANGED outbox
    BY <2>1 DEF MarksBounded
  <2>2. ASSUME NEW entry, AppendEntry(entry)
        PROVE  MarksBounded'
    <3> DEFINE row == [event |-> entry.event, moment |-> entry.moment,
                       published |-> FALSE, marks |-> 0]
    <3>1. outbox' \subseteq outbox \union {row}
      BY <2>2 DEF AppendEntry
    <3>2. row.marks = 0
      OBVIOUS
    <3> HIDE DEF row
    <3> QED  BY <3>1, <3>2, StoresAssumption DEF MarksBounded
  <2>3. ASSUME NEW event \in Events, MarkPublished(event)
        PROVE  MarksBounded'
    BY <2>3, MarkBounded
  <2> QED  BY <2>1, <2>2, <2>3 DEF StoresNext, storeVars, Create, Update
<1> QED  BY <1>1, <1>2

(* Records, rows and the two outboxes keep their shape.                    *)
THEOREM StoresTypeCorrect == StoresSpec => []StoresTypeOK
<1> DEFINE Inv == StoresInv /\ arrived \in Seq(Ids) /\ CreatedTyped /\ MarksBounded
<1>1. StoresInit => Inv
  BY StoresInitInv, EmptySeq DEF StoresInit, CreatedTyped, MarksBounded
<1>2. Inv /\ [StoresNext]_storeVars => Inv'
  BY StoresStep, StoresTypeStep
<1>3. Inv => StoresTypeOK
  <2> SUFFICES ASSUME Inv
               PROVE  StoresTypeOK
    OBVIOUS
  <2>1. \A id \in Ids : records[id] # NoRecordOf => records[id] \in StoredRecords
    BY DEF StoresInv, RowsInv
  <2>2. rows \in [Ids -> {Row(record) : record \in StoredRecords} \union {NoRow}]
    BY <2>1 DEF StoresInv, RowsInv
  <2>3. \A row \in outbox : row.event \in Events
    BY DEF StoresInv, OutboxInv
  <2> QED  BY <2>2, <2>3 DEF StoresInv, RowsInv, OutboxInv, CreatedTyped, MarksBounded, StoresTypeOK
<1> QED  BY <1>1, <1>2, <1>3, PTL DEF StoresSpec

(* For any identities, revisions, tokens and events: both sets of stores   *)
(* hold the same records, did what the last call asked or both refused it, *)
(* and know the same events as published.                                  *)
THEOREM StoresHoldTheSame == StoresSpec => [](SameRecords /\ SameAnswers /\ SamePublished)
<1>1. StoresInv /\ [StoresNext]_storeVars => StoresInv'
  BY StoresStep
<1>2. StoresInv => SameRecords /\ SameAnswers /\ SamePublished
  BY RowsHoldRecords DEF StoresInv, OutboxInv, SamePublished, DedupeInMemory
<1> QED  BY <1>1, <1>2, StoresInitInv, PTL DEF StoresSpec

(* Which ids arrived, and that every entry has its row.                    *)
ArrivedInv ==
  /\ CreatedTyped
  /\ arrived \in Seq(Ids)
  /\ \A i, j \in 1 .. Len(arrived) : i # j => arrived[i] # arrived[j]
  /\ \A i \in 1 .. Len(arrived) : records[arrived[i]] # NoRecordOf

HasRow(entry, row) == entry.event = row.event /\ entry.moment = row.moment

AppendedInv ==
  /\ IsFiniteSet(outbox)
  /\ \A i, j \in 1 .. Len(appended) : i # j => appended[i].event # appended[j].event
  /\ \A row \in outbox : \E i \in 1 .. Len(appended) : HasRow(appended[i], row)

ExistsAlike == answers[1] = "exists" <=> answers[2] = "exists"

HandOverInv == StoresInv /\ ArrivedInv /\ AppendedInv /\ ExistsAlike

LEMMA ArrivedKept ==
  ASSUME ArrivedInv, UNCHANGED <<arrived, created>>,
         \A id \in Ids : records'[id] = NoRecordOf => records[id] = NoRecordOf
  PROVE  ArrivedInv'
<1>1. \A i \in 1 .. Len(arrived) : arrived[i] \in Ids
  BY DEF ArrivedInv
<1> QED  BY <1>1 DEF ArrivedInv, CreatedTyped

LEMMA AppendedKept ==
  ASSUME AppendedInv, UNCHANGED <<appended, outbox>>
  PROVE  AppendedInv'
BY DEF AppendedInv

LEMMA CreateHandsOver ==
  ASSUME HandOverInv, NEW id \in Ids, NEW record \in StoredRecords,
         NEW at \in TimesToList, Create(id, record, at)
  PROVE  ArrivedInv' /\ AppendedInv' /\ ExistsAlike'
<1>1. CreateInMemory(id) = CreateInSql(id)
  BY RowTells DEF HandOverInv, StoresInv, RowsInv, CreateInMemory, CreateInSql
<1>2. answers'[1] = answers'[2] /\ UNCHANGED <<appended, outbox>>
  BY <1>1 DEF Create
<1>0. CreatedTyped'
  BY DEF HandOverInv, ArrivedInv, CreatedTyped, Create, TimesToList
<1>3. ArrivedInv'
  <2>1. CASE answers'[1] # "done"
    <3>1. UNCHANGED <<arrived, created, records>>
      BY <1>2, <2>1 DEF Create
    <3> QED  BY <3>1, ArrivedKept DEF HandOverInv
  <2>2. CASE answers'[1] = "done"
    <3>1. /\ records' = [records EXCEPT ![id] = record] /\ arrived' = Append(arrived, id)
          /\ records[id] = NoRecordOf
      BY <2>2 DEF Create, CreateInMemory
    <3>2. record # NoRecordOf
      BY RowTells
    <3>3. \A i \in Ids : records'[i] = IF i = id THEN record ELSE records[i]
      BY <3>1 DEF HandOverInv, StoresInv, RowsInv
    <3> DEFINE n == Len(arrived)
    <3>4. /\ n \in Nat /\ arrived' \in Seq(Ids) /\ Len(arrived') = n + 1 /\ arrived'[n + 1] = id
          /\ \A i \in 1 .. n : arrived'[i] = arrived[i] /\ arrived[i] \in Ids
      BY <3>1, AppendProperties DEF HandOverInv, ArrivedInv
    <3>5. /\ \A i, j \in 1 .. n : i # j => arrived[i] # arrived[j]
          /\ \A i \in 1 .. n : records[arrived[i]] # NoRecordOf
      BY DEF HandOverInv, ArrivedInv
    <3>6. \A i \in 1 .. n : arrived[i] # id
      BY <3>1, <3>5
    <3> HIDE DEF n
    <3>7. \A i \in 1 .. n + 1 : i = n + 1 \/ i \in 1 .. n
      BY <3>4
    <3>8. \A i, j \in 1 .. n + 1 : i # j => arrived'[i] # arrived'[j]
      BY <3>4, <3>5, <3>6, <3>7
    <3>9. \A i \in 1 .. n + 1 : records'[arrived'[i]] # NoRecordOf
      BY <3>2, <3>3, <3>4, <3>5, <3>7
    <3> QED  BY <1>0, <3>4, <3>8, <3>9 DEF ArrivedInv
  <2> QED  BY <2>1, <2>2
<1> QED
  BY <1>2, <1>3, AppendedKept DEF HandOverInv, ExistsAlike

LEMMA UpdateHandsOver ==
  ASSUME HandOverInv, NEW id \in Ids, NEW record \in StoredRecords,
         NEW expected \in Numbers \union {Unasked}, NEW token \in Fencings \union {Unasked},
         Update(id, record, expected, token)
  PROVE  ArrivedInv' /\ AppendedInv' /\ ExistsAlike'
<1>1. ExistsAlike'
  BY DEF Update, UpdateInMemory, UpdateInSql, ExistsAlike
<1>2. UNCHANGED <<arrived, created, appended, outbox>>
  BY DEF Update
<1>3. record # NoRecordOf
  BY RowTells
<1>4. \A i \in Ids : records'[i] = NoRecordOf => records[i] = NoRecordOf
  BY <1>3 DEF Update, HandOverInv, StoresInv, RowsInv
<1> QED  BY <1>1, <1>2, <1>4, ArrivedKept, AppendedKept DEF HandOverInv

LEMMA AppendHandsOver ==
  ASSUME HandOverInv, NEW event \in Events, NEW at \in Moments, NEW release \in {"r", NoRelease},
         AppendEntry([event |-> event, moment |-> at, release |-> release])
  PROVE  ArrivedInv' /\ AppendedInv' /\ ExistsAlike'
<1> DEFINE entry == [event |-> event, moment |-> at, release |-> release]
           row == [event |-> event, moment |-> at, published |-> FALSE, marks |-> 0]
           n == Len(appended)
<1>1. event \in EventsIn <=> InOutbox(event)
  BY DEF HandOverInv, StoresInv, OutboxInv
<1>2. answers'[1] = answers'[2] /\ UNCHANGED <<records, arrived, created>>
  BY <1>1 DEF AppendEntry
<1>3. ArrivedInv'
  BY <1>2, ArrivedKept DEF HandOverInv
<1>4. CASE InOutbox(event)
  <2>1. UNCHANGED <<appended, outbox>>
    BY <1>1, <1>4 DEF AppendEntry
  <2> QED  BY <1>2, <1>3, <2>1, AppendedKept DEF HandOverInv, ExistsAlike
<1>5. CASE ~ InOutbox(event)
  <2>1. appended' = Append(appended, entry) /\ outbox' = outbox \union {row} /\ event \notin EventsIn
    BY <1>1, <1>5 DEF AppendEntry
  <2>2. HasRow(entry, row) /\ entry.event = event
    BY DEF HasRow
  <2> HIDE DEF entry, row
  <2>3. /\ n \in Nat /\ Len(appended') = n + 1 /\ appended'[n + 1] = entry
        /\ \A i \in 1 .. n : appended'[i] = appended[i]
        /\ DOMAIN appended = 1 .. n
    BY <2>1, LenProperties DEF HandOverInv, StoresInv, OutboxInv
  <2>4. \A i \in 1 .. n : appended[i].event # event
    BY <2>1, <2>3 DEF EventsIn
  <2>5. /\ \A i, j \in 1 .. n : i # j => appended[i].event # appended[j].event
        /\ \A r \in outbox : \E i \in 1 .. n : HasRow(appended[i], r)
        /\ IsFiniteSet(outbox)
    BY DEF HandOverInv, AppendedInv
  <2> HIDE DEF n
  <2>6. \A i \in 1 .. n + 1 : i = n + 1 \/ i \in 1 .. n
    BY <2>3
  <2>7. \A i, j \in 1 .. n + 1 : i # j => appended'[i].event # appended'[j].event
    BY <2>2, <2>3, <2>4, <2>5, <2>6
  <2>8. \A r \in outbox' : \E i \in 1 .. n + 1 : HasRow(appended'[i], r)
    <3> SUFFICES ASSUME NEW r \in outbox'
                 PROVE  \E i \in 1 .. n + 1 : HasRow(appended'[i], r)
      OBVIOUS
    <3>1. CASE r = row
      <4>1. n + 1 \in 1 .. n + 1
        BY <2>3
      <4> QED  BY <2>2, <2>3, <3>1, <4>1
    <3>2. CASE r \in outbox
      <4>1. PICK i \in 1 .. n : HasRow(appended[i], r)
        BY <2>5, <3>2
      <4>2. i \in 1 .. n + 1
        BY <2>3
      <4> QED  BY <2>3, <4>1, <4>2
    <3> QED  BY <2>1, <3>1, <3>2
  <2>9. IsFiniteSet(outbox')
    BY <2>1, <2>5, FS_AddElement
  <2> QED  BY <1>2, <1>3, <2>3, <2>7, <2>8, <2>9 DEF AppendedInv, ExistsAlike
<1> QED  BY <1>4, <1>5

LEMMA MarkHandsOver ==
  ASSUME HandOverInv, NEW event \in Events, MarkPublished(event)
  PROVE  ArrivedInv' /\ AppendedInv' /\ ExistsAlike'
<1> DEFINE Marked(row) == IF row.event = event
                            THEN [row EXCEPT !.published = TRUE, !.marks = @ + 1] ELSE row
           OutboxRows == [event : Events, moment : Moments, published : BOOLEAN, marks : Nat]
<1>1. ExistsAlike'
  BY DEF MarkPublished, ExistsAlike
<1>2. UNCHANGED <<records, arrived, created, appended>> /\ outbox' = {Marked(row) : row \in outbox}
  BY DEF MarkPublished
<1>3. ASSUME NEW row \in OutboxRows
      PROVE  Marked(row).event = row.event /\ Marked(row).moment = row.moment
  BY <1>3
<1>4. \A row \in outbox : row \in OutboxRows
  BY DEF HandOverInv, StoresInv, OutboxInv
<1> HIDE DEF Marked, OutboxRows
<1>5. IsFiniteSet(outbox')
  <2> DEFINE g == [row \in outbox |-> Marked(row)]
  <2>1. g \in Surjection(outbox, outbox')
    BY <1>2 DEF Surjection
  <2> QED  BY <2>1, FS_Surjection DEF HandOverInv, AppendedInv
<1>6. \A row \in outbox' : \E i \in 1 .. Len(appended) : HasRow(appended[i], row)
  BY <1>2, <1>3, <1>4 DEF HandOverInv, AppendedInv, HasRow
<1> QED
  BY <1>1, <1>2, <1>5, <1>6, ArrivedKept DEF HandOverInv, AppendedInv

LEMMA HandOverStep ==
  ASSUME HandOverInv, [StoresNext]_storeVars
  PROVE  HandOverInv'
<1>1. StoresInv'
  BY StoresStep DEF HandOverInv
<1>2. CASE UNCHANGED storeVars
  BY <1>1, <1>2 DEF HandOverInv, ArrivedInv, CreatedTyped, AppendedInv, ExistsAlike, storeVars
<1> QED
  BY <1>1, <1>2, CreateHandsOver, UpdateHandsOver, AppendHandsOver, MarkHandsOver
     DEF StoresNext, HandOverInv

LEMMA HandOverInitInv == StoresInit => HandOverInv
<1> SUFFICES ASSUME StoresInit
             PROVE  HandOverInv
  OBVIOUS
<1>1. StoresInv
  BY StoresInitInv
<1>2. Len(arrived) = 0 /\ Len(appended) = 0 /\ arrived \in Seq(Ids)
  BY EmptySeq DEF StoresInit
<1> QED
  BY <1>1, <1>2, FS_EmptySet DEF StoresInit, HandOverInv, ArrivedInv, CreatedTyped, AppendedInv, ExistsAlike

(* What a list is in the order of.                                         *)
LEMMA SortKeysAreNumbers ==
  ASSUME HandOverInv, NEW id \in Ids, records[id] # NoRecordOf
  PROVE  SortKey(id) \in Int
<1>1. /\ records[id] \in StoredRecords /\ rows[id] = Row(records[id])
      /\ created[id] \in Moments \union {NoMoment}
  BY DEF HandOverInv, StoresInv, RowsInv, ArrivedInv, CreatedTyped
<1>2. rows[id].number \in Int
  BY <1>1, RowTells, StoresAssumption DEF StoredRecords
<1>3. created[id] \in Int
  <2>1. \A at \in Moments \union {0} : at \in Int
    BY StoresAssumption
  <2> QED  BY <1>1, <2>1 DEF NoMoment
<1> QED  BY <1>2, <1>3 DEF SortKey

(* Over SQL the same records are listed, and in the order they were added  *)
(* if what the list is in the order of rises.                              *)
LEMMA RecordListsAgree ==
  ASSUME HandOverInv
  PROVE  SameLists
<1> DEFINE S == Range(arrived)
           key == [id \in S |-> SortKey(id)]
           n == Len(arrived)
<1>1. /\ n \in Nat /\ arrived \in Seq(Ids) /\ arrived \in [1 .. n -> S]
      /\ \A x \in S : \E i \in 1 .. n : arrived[i] = x
      /\ IsFiniteSet(S) /\ \A k \in 1 .. n : arrived[k] \in Ids
  <2>1. n \in Nat /\ arrived \in Seq(Ids) /\ arrived \in [1 .. n -> Ids]
    BY LenProperties DEF HandOverInv, ArrivedInv
  <2> QED  BY <2>1, ElementsAreFinite DEF Range
<1>2. \A i \in 1 .. n : key[arrived[i]] = SortKey(arrived[i]) /\ key[arrived[i]] \in Int
  <2> SUFFICES ASSUME NEW i \in 1 .. n
               PROVE  key[arrived[i]] = SortKey(arrived[i]) /\ key[arrived[i]] \in Int
    OBVIOUS
  <2>1. arrived[i] \in Ids /\ arrived[i] \in S /\ records[arrived[i]] # NoRecordOf
    BY <1>1 DEF HandOverInv, ArrivedInv
  <2>2. SortKey(arrived[i]) \in Int
    BY <2>1, SortKeysAreNumbers
  <2> QED  BY <2>1, <2>2
<1>0. ListedInSql = OrderedBy(S, key)
  BY DEF ListedInSql
<1> HIDE DEF key
<1>3. \A x \in S : key[x] \in Int
  BY <1>1, <1>2
<1>4. Range(ListedInSql) = Range(ListedInMemory)
  <2>1. IsFiniteSet(S)
    BY <1>1
  <2> HIDE DEF S, n
  <2>2. /\ OrderedBy(S, key) \in [1 .. Cardinality(S) -> S]
        /\ \A x \in S : \E k \in 1 .. Cardinality(S) : OrderedBy(S, key)[k] = x
    BY <1>3, <2>1, OrderedByLists
  <2>3. Range(OrderedBy(S, key)) = S
    BY <2>2 DEF Range
  <2> QED  BY <1>0, <2>3 DEF ListedInMemory, S
<1>5. ASSUME AddedInOrder
      PROVE  ListedInSql = ListedInMemory
  <2> DEFINE f == [i \in 1 .. n |-> key[arrived[i]]]
  <2>1. \A j, k \in 1 .. n : j < k => f[j] < f[k]
    <3>1. \A i \in 1 .. n : f[i] \in Int
      BY <1>2
    <3>2. \A i \in 2 .. n : i - 1 \in 1 .. n /\ i \in 1 .. n
      BY <1>1
    <3>3. \A i \in 2 .. n : f[i - 1] < f[i]
      BY <1>2, <1>5, <3>2 DEF AddedInOrder
    <3> HIDE DEF f, n
    <3> QED  BY <1>1, <3>1, <3>3, NextRises
  <2>2. Rises(arrived, n, S, key)
    BY <1>1, <2>1 DEF Rises
  <2>3. n \in Nat /\ IsFiniteSet(S)
    BY <1>1
  <2> HIDE DEF n, S
  <2>4. OrderedBy(S, key) = arrived
    BY ONLY <1>3, <2>2, <2>3, OrderIsUnique
  <2> QED  BY <1>0, <2>4 DEF ListedInMemory
<1> QED  BY <1>4, <1>5 DEF SameLists

(* The events that are not published yet, and where they were appended.    *)
Waiting == {i \in 1 .. Len(appended) : appended[i].event \notin sent}

Bare(i) == [event |-> appended[i].event, moment |-> appended[i].moment, release |-> NoRelease]

WaitingEntries == {EntryFromRow(row) : row \in {r \in outbox : ~ r.published}}

LEMMA RowsAreWaiting ==
  ASSUME HandOverInv
  PROVE  WaitingEntries = {Bare(i) : i \in Waiting}
<1> DEFINE n == Len(appended)
<1>1. /\ n \in Nat /\ DOMAIN appended = 1 .. n
      /\ \A i \in 1 .. n : appended[i] \in [event : Events, moment : Moments, release : {"r", NoRelease}]
  BY LenProperties DEF HandOverInv, StoresInv, OutboxInv
<1>2. \A row \in outbox : /\ row.event \in Events
                          /\ row.published <=> row.event \in sent
  BY DEF HandOverInv, StoresInv, OutboxInv, DedupeInSql
<1>3. ASSUME NEW row \in outbox, NEW i \in 1 .. n, HasRow(appended[i], row)
      PROVE  EntryFromRow(row) = Bare(i)
  BY <1>3 DEF EntryFromRow, Bare, HasRow
<1>4. ASSUME NEW row \in outbox, ~ row.published
      PROVE  \E i \in Waiting : EntryFromRow(row) = Bare(i)
  <2>1. PICK i \in 1 .. n : HasRow(appended[i], row)
    BY DEF HandOverInv, AppendedInv
  <2>2. appended[i].event \notin sent
    BY <1>2, <1>4, <2>1 DEF HasRow
  <2> QED  BY <1>3, <2>1, <2>2 DEF Waiting
<1>5. ASSUME NEW i \in Waiting
      PROVE  \E row \in outbox : ~ row.published /\ EntryFromRow(row) = Bare(i)
  <2>1. i \in 1 .. n /\ appended[i].event \notin sent
    BY DEF Waiting
  <2>2. appended[i].event \in EventsIn /\ appended[i].event \in Events
    BY <1>1, <2>1 DEF EventsIn
  <2>3. PICK row \in outbox : row.event = appended[i].event
    BY <2>2 DEF HandOverInv, StoresInv, OutboxInv, InOutbox
  <2>4. PICK j \in 1 .. n : HasRow(appended[j], row)
    BY DEF HandOverInv, AppendedInv
  <2>5. j = i
    BY <2>1, <2>3, <2>4 DEF HandOverInv, AppendedInv, HasRow
  <2> QED  BY <1>2, <1>3, <2>1, <2>3, <2>4, <2>5
<1> QED  BY <1>4, <1>5 DEF WaitingEntries

(* The in-memory outbox hands over the waiting entries, in their order.    *)
HandsOver(p, m) ==
  /\ Ascends(p, m, Waiting)
  /\ UnpublishedInMemory = [k \in 1 .. m |-> appended[p[k]]]

LEMMA MemoryHandsOver ==
  ASSUME HandOverInv
  PROVE  \E m \in Nat : \E p : HandsOver(p, m)
<1> DEFINE n == Len(appended)
<1>1. n \in Nat /\ DOMAIN appended = 1 .. n
  BY LenProperties DEF HandOverInv, StoresInv, OutboxInv
<1>2. UnpublishedInMemory = SubSeqAt(appended, Waiting)
  BY <1>1 DEF UnpublishedInMemory, Filter, Waiting
<1>3. Waiting \in SUBSET (1 .. n)
  BY DEF Waiting
<1> HIDE DEF n
<1>4. Cardinality(Waiting) \in Nat
  <2>1. Cardinality(Waiting) \in 0 .. n
    BY <1>1, <1>3, PlacesAscend
  <2> QED  BY <1>1, <2>1
<1> QED  BY <1>1, <1>2, <1>3, <1>4, PlacesAscend DEF HandsOver, Follows

Kept == [i \in DOMAIN UnpublishedInMemory |->
           [UnpublishedInMemory[i] EXCEPT !.release = NoRelease]]

LEMMA KeptIsBare ==
  ASSUME HandOverInv, NEW m \in Nat, NEW p, HandsOver(p, m)
  PROVE  /\ Kept = [k \in 1 .. m |-> Bare(p[k])]
         /\ Kept \in [1 .. m -> WaitingEntries]
         /\ Range(Kept) = WaitingEntries
         /\ \A x \in WaitingEntries : \E k \in 1 .. m : Kept[k] = x
<1>1. \A k \in 1 .. m : p[k] \in Waiting
  BY DEF HandsOver, Ascends
<1>2. \A i \in Waiting : \E k \in 1 .. m : p[k] = i
  BY DEF HandsOver, Ascends
<1>3. \A i \in 1 .. Len(appended) :
        appended[i] \in [event : Events, moment : Moments, release : {"r", NoRelease}]
  BY LenProperties DEF HandOverInv, StoresInv, OutboxInv
<1>4. \A i \in Waiting : [appended[i] EXCEPT !.release = NoRelease] = Bare(i)
  BY <1>3 DEF Waiting, Bare
<1>5. DOMAIN UnpublishedInMemory = 1 .. m
      /\ \A k \in 1 .. m : UnpublishedInMemory[k] = appended[p[k]]
  BY DEF HandsOver
<1>6. Kept = [k \in 1 .. m |-> Bare(p[k])]
  BY <1>1, <1>4, <1>5 DEF Kept
<1>7. Kept \in [1 .. m -> WaitingEntries] /\ \A x \in WaitingEntries : \E k \in 1 .. m : Kept[k] = x
  BY <1>1, <1>2, <1>6, RowsAreWaiting
<1>8. Range(Kept) = WaitingEntries
  BY <1>7 DEF Range
<1> QED  BY <1>6, <1>7, <1>8

LEMMA OutboxListsAgree ==
  ASSUME HandOverInv
  PROVE  /\ Range(UnpublishedInSql) = Range(Kept)
         /\ (\A i \in 2 .. Len(appended) : appended[i - 1].moment < appended[i].moment)
              => UnpublishedInSql = Kept
<1> DEFINE key == [entry \in WaitingEntries |-> entry.moment]
           n == Len(appended)
<1>0. PICK m \in Nat : \E p : HandsOver(p, m)
  BY MemoryHandsOver
<1>1. PICK p : HandsOver(p, m)
  BY <1>0
<1>2. /\ Kept = [k \in 1 .. m |-> Bare(p[k])]
      /\ Kept \in [1 .. m -> WaitingEntries]
      /\ Range(Kept) = WaitingEntries
      /\ \A x \in WaitingEntries : \E k \in 1 .. m : Kept[k] = x
  BY <1>1, KeptIsBare
<1>3. IsFiniteSet(WaitingEntries)
  <2>1. Kept \in Surjection(1 .. m, WaitingEntries)
    BY <1>2 DEF Surjection
  <2>2. IsFiniteSet(1 .. m)
    BY FS_Interval
  <2> QED  BY <2>1, <2>2, FS_Surjection
<1>4. UnpublishedInSql = OrderedBy(WaitingEntries, key)
  BY DEF UnpublishedInSql, WaitingEntries
<1>5. /\ n \in Nat
      /\ \A i \in 1 .. n : appended[i].moment \in Int
  <2>1. /\ n \in Nat
        /\ \A i \in 1 .. n : appended[i] \in [event : Events, moment : Moments, release : {"r", NoRelease}]
    BY LenProperties DEF HandOverInv, StoresInv, OutboxInv
  <2> QED  BY <2>1, StoresAssumption
<1>6. \A x \in WaitingEntries : key[x] \in Int
  <2> SUFFICES ASSUME NEW x \in WaitingEntries
               PROVE  x.moment \in Int
    OBVIOUS
  <2>1. PICK i \in Waiting : x = Bare(i)
    BY RowsAreWaiting
  <2> QED  BY <1>5, <2>1 DEF Waiting, Bare
<1> HIDE DEF key
<1>7. Range(OrderedBy(WaitingEntries, key)) = WaitingEntries
  BY <1>3, <1>6, OrderedByLists DEF Range
<1>8. ASSUME \A i \in 2 .. n : appended[i - 1].moment < appended[i].moment
      PROVE  UnpublishedInSql = Kept
  <2> DEFINE f == [i \in 1 .. n |-> appended[i].moment]
  <2>1. \A j, k \in 1 .. n : j < k => f[j] < f[k]
    <3>1. \A i \in 1 .. n : f[i] \in Int
      BY <1>5
    <3>2. \A i \in 2 .. n : f[i - 1] < f[i]
      <4>1. \A i \in 2 .. n : i - 1 \in 1 .. n /\ i \in 1 .. n
        BY <1>5
      <4> QED  BY <1>8, <4>1
    <3>3. n \in Nat
      BY <1>5
    <3> HIDE DEF f, n
    <3> QED  BY ONLY <3>1, <3>2, <3>3, NextRises
  <2>2. \A k \in 1 .. m : p[k] \in 1 .. n
    BY <1>1 DEF HandsOver, Ascends, Waiting
  <2>3. \A k \in 1 .. m : key[Kept[k]] = f[p[k]]
    BY <1>2, <2>2 DEF key, Bare
  <2>4. \A j, k \in 1 .. m : j < k => p[j] < p[k]
    BY <1>1 DEF HandsOver, Ascends
  <2> HIDE DEF f
  <2>5. \A j, k \in 1 .. m : j < k => key[Kept[j]] < key[Kept[k]]
    BY <2>1, <2>2, <2>3, <2>4
  <2>6. Rises(Kept, m, WaitingEntries, key)
    BY <1>2, <2>5 DEF Rises
  <2>7. OrderedBy(WaitingEntries, key) = Kept
    BY ONLY <1>0, <1>3, <1>6, <2>6, OrderIsUnique
  <2> QED  BY <1>4, <2>7
<1> QED  BY <1>2, <1>4, <1>7, <1>8

(* For any identities, revisions, tokens, events and times, whatever was   *)
(* called in any order: the in-memory stores and those over SQL hold the   *)
(* same records, answer alike, list the same records and hand over the     *)
(* same events, in the same order wherever the callers' times or numbers   *)
(* rise with each record; up to the differences that the property names.   *)
THEOREM StoresAgreeForGood == StoresSpec => []StoresAgreeThroughout
<1>1. HandOverInv => StoresAgreeThroughout
  <2> SUFFICES ASSUME HandOverInv
               PROVE  StoresAgreeThroughout
    OBVIOUS
  <2>1. StoresAgree
    BY RowsHoldRecords, RecordListsAgree DEF HandOverInv, StoresInv, StoresAgree
  <2>2. SamePublished
    BY DEF HandOverInv, StoresInv, OutboxInv, SamePublished, DedupeInMemory
  <2>3. OutboxesAgree
    BY <2>2, OutboxListsAgree DEF HandOverInv, ExistsAlike, OutboxesAgree, Kept
  <2> QED  BY <2>1, <2>3 DEF StoresAgreeThroughout
<1>2. HandOverInv /\ [StoresNext]_storeVars => HandOverInv'
  BY HandOverStep
<1> QED  BY <1>1, <1>2, HandOverInitInv, PTL DEF StoresSpec

-----------------------------------------------------------------------------
(* Evidence.  Reports keep the numbers they were given, and what was       *)
(* observed was collected and ingested.                                    *)
EvidenceInv ==
  /\ EvidenceTypeOK
  /\ \A r \in collector : r.no <= reported
  /\ \A r, s \in collector : r.no = s.no => r = s
  /\ \A o \in observations : o.of \in collector /\ o.ingest \in 1 .. ingests
  /\ ErrorsCountOncePerIngest

(* An error is counted for the number of its report and of an ingestion.   *)
LEMMA ErrorsByNumber ==
  ASSUME EvidenceInv, NEW window \in SUBSET observations
  PROVE  LET errors == {o.of.no : o \in ErrorsIn(window)} IN
         /\ errors \in SUBSET (1 .. MaxReports)
         /\ Cardinality(ErrorsIn(window)) \in Nat /\ Cardinality(errors) * ingests \in Nat
         /\ Cardinality(ErrorsIn(window)) <= Cardinality(errors) * ingests
<1> DEFINE S == ErrorsIn(window)
           T == {o.of.no : o \in S}
           number == [o \in S |-> <<o.of.no, o.ingest>>]
<1>0. MaxReports \in Nat /\ ingests \in Nat
  BY EvidenceAssumption DEF EvidenceInv, EvidenceTypeOK
<1>1. S \subseteq observations
  BY DEF ErrorsIn
<1>2. \A o \in S : o.of.no \in 1 .. MaxReports /\ o.ingest \in 1 .. ingests
  BY <1>1 DEF EvidenceInv, EvidenceTypeOK, Reports
<1>3. \A o, p \in S : o.of.no = p.of.no /\ o.ingest = p.ingest => o = p
  <2>1. \A o \in S : o \in [of : Reports, ingest : 1 .. MaxIngests]
    BY <1>1 DEF EvidenceInv, EvidenceTypeOK
  <2>2. \A o, p \in S : o.of.no = p.of.no => o.of = p.of
    BY <1>1 DEF EvidenceInv
  <2> QED  BY <2>1, <2>2
<1>4. T \in SUBSET (1 .. MaxReports) /\ IsFiniteSet(T)
  <2>1. T \subseteq 1 .. MaxReports
    BY <1>2
  <2>2. IsFiniteSet(1 .. MaxReports)
    BY <1>0, FS_Interval
  <2> QED  BY <2>1, <2>2, FS_Subset
<1>5. IsFiniteSet(1 .. ingests) /\ Cardinality(1 .. ingests) = ingests
  BY <1>0, FS_Interval
<1>6. number \in Injection(S, T \X (1 .. ingests))
  <2>1. number \in [S -> T \X (1 .. ingests)]
    BY <1>2
  <2>2. \A o, p \in S : number[o] = number[p] => o = p
    BY <1>3
  <2> QED  BY <2>1, <2>2 DEF Injection, IsInjective
<1> HIDE DEF S, T, number
<1>7. /\ IsFiniteSet(T \X (1 .. ingests))
      /\ Cardinality(T \X (1 .. ingests)) = Cardinality(T) * ingests
  BY <1>4, <1>5, FS_Product
<1>8. IsFiniteSet(S) /\ Cardinality(S) <= Cardinality(T \X (1 .. ingests))
  BY <1>6, <1>7, FS_Injection
<1>9. Cardinality(S) \in Nat /\ Cardinality(T \X (1 .. ingests)) \in Nat
  BY <1>7, <1>8, FS_CardinalityType
<1> QED  BY <1>4, <1>7, <1>8, <1>9 DEF S, T

LEMMA EvidenceStep ==
  ASSUME EvidenceInv, [EvidenceNext]_evidenceVars
  PROVE  EvidenceInv'
<1>0. /\ EvidenceTypeOK /\ reported \in Nat /\ MaxReports \in Nat
      /\ ingests \in Nat /\ MaxIngests \in Nat /\ collector \subseteq Reports
      /\ observations \subseteq [of : Reports, ingest : 1 .. MaxIngests]
  BY EvidenceAssumption DEF EvidenceInv, EvidenceTypeOK
<1>1. ASSUME NEW sort \in {"trace", "log"}, NEW tenant \in Tenants, NEW error \in BOOLEAN,
             Emit(sort, tenant, error)
      PROVE  EvidenceInv'
  <2> DEFINE new == [no |-> reported + 1, kind |-> sort, tenant |-> tenant,
                     error |-> error, at |-> moment]
  <2>1. /\ new \in Reports /\ new.no = reported + 1 /\ reported + 1 \in 0 .. MaxReports
    BY <1>0, <1>1 DEF Emit, Reports, EvidenceTypeOK
  <2>2. /\ collector' = collector \union {new} /\ reported' = reported + 1
        /\ observations' = observations /\ ingests' = ingests
        /\ found' = found /\ moment' = moment
    BY <1>1 DEF Emit
  <2> HIDE DEF new
  <2>3. \A r \in collector : r.no \in Nat /\ r.no <= reported
    BY <1>0 DEF EvidenceInv, Reports
  <2>4. EvidenceTypeOK'
    BY <1>0, <2>1, <2>2 DEF EvidenceTypeOK
  <2>5. /\ \A r \in collector' : r.no <= reported'
        /\ \A r, s \in collector' : r.no = s.no => r = s
    BY <1>0, <2>1, <2>2, <2>3 DEF EvidenceInv
  <2> QED  BY <2>2, <2>4, <2>5 DEF EvidenceInv, ErrorsCountOncePerIngest
<1>2. CASE IngestEvidence
  <2> DEFINE new == {[of |-> r, ingest |-> ingests + 1] : r \in Observed}
  <2>1. /\ observations' = observations \union new /\ collector' = collector
        /\ ingests' = ingests + 1 /\ ingests + 1 \in 1 .. MaxIngests
        /\ reported' = reported /\ found' = found /\ moment' = moment
    BY <1>0, <1>2 DEF IngestEvidence
  <2>2. \A o \in new : /\ o.of \in collector /\ o.ingest = ingests + 1
                       /\ o \in [of : Reports, ingest : 1 .. MaxIngests]
    BY <1>0, <2>1 DEF Observed
  <2> HIDE DEF new
  <2>3. EvidenceTypeOK'
    BY <1>0, <2>1, <2>2 DEF EvidenceTypeOK
  <2>4. \A o \in observations' : o.of \in collector' /\ o.ingest \in 1 .. ingests'
    BY <1>0, <2>1, <2>2 DEF EvidenceInv
  <2> QED  BY <2>1, <2>3, <2>4 DEF EvidenceInv, ErrorsCountOncePerIngest
<1>3. CASE DetectTriggerCandidate
  <2> DEFINE errors == {o.of.no : o \in ErrorsIn(RollingWindow)}
             candidate == [errors |-> errors, ingests |-> ingests]
  <2>1. /\ found' = found \union {candidate} /\ collector' = collector /\ ingests' = ingests
        /\ observations' = observations /\ reported' = reported /\ moment' = moment
    BY <1>3 DEF DetectTriggerCandidate
  <2>2. RollingWindow \in SUBSET observations
    BY DEF RollingWindow
  <2>3. Cardinality(ErrorsIn(RollingWindow)) >= 3
    BY <1>3 DEF DetectTriggerCandidate, Breaches
  <2>4. errors \in SUBSET (1 .. MaxReports) /\ Cardinality(errors) * ingests >= 3
    <3>1. /\ errors \in SUBSET (1 .. MaxReports)
          /\ Cardinality(ErrorsIn(RollingWindow)) \in Nat /\ Cardinality(errors) * ingests \in Nat
          /\ Cardinality(ErrorsIn(RollingWindow)) <= Cardinality(errors) * ingests
      BY <2>2, ErrorsByNumber
    <3> HIDE DEF errors
    <3> QED  BY <2>3, <3>1
  <2> HIDE DEF errors
  <2>5. /\ candidate \in [errors : SUBSET (1 .. MaxReports), ingests : 0 .. MaxIngests]
        /\ candidate.errors = errors /\ candidate.ingests = ingests
    BY <1>0, <2>4 DEF EvidenceTypeOK
  <2> HIDE DEF candidate
  <2>6. EvidenceTypeOK'
    BY <1>0, <2>1, <2>5 DEF EvidenceTypeOK
  <2>7. ErrorsCountOncePerIngest'
    BY <2>1, <2>4, <2>5 DEF EvidenceInv, ErrorsCountOncePerIngest
  <2> QED  BY <2>1, <2>6, <2>7 DEF EvidenceInv
<1>4. CASE Pass
  <2>1. /\ moment' \in 0 .. MaxMoment
        /\ UNCHANGED <<collector, observations, ingests, reported, found>>
    BY <1>4, EvidenceAssumption DEF Pass, EvidenceInv, EvidenceTypeOK
  <2> QED  BY <1>0, <2>1 DEF EvidenceInv, EvidenceTypeOK, ErrorsCountOncePerIngest
<1>5. CASE UNCHANGED evidenceVars
  BY <1>5 DEF evidenceVars, EvidenceInv, EvidenceTypeOK, ErrorsCountOncePerIngest
<1> QED  BY <1>1, <1>2, <1>3, <1>4, <1>5 DEF EvidenceNext

LEMMA EvidenceInitInv == EvidenceInit => EvidenceInv
BY EvidenceAssumption DEF EvidenceInit, EvidenceInv, EvidenceTypeOK, ErrorsCountOncePerIngest

(* What is collected, observed and found keeps its shape.                  *)
THEOREM EvidenceTypeCorrect == EvidenceSpec => []EvidenceTypeOK
<1>1. EvidenceInv => EvidenceTypeOK
  BY DEF EvidenceInv
<1> QED  BY <1>1, EvidenceInitInv, EvidenceStep, PTL DEF EvidenceSpec

(* For any number of reports, ingestions and moments, any window and any   *)
(* rate: what a candidate rests on is three errors, each counted at most   *)
(* once for each time its collector was ingested.                          *)
THEOREM TriggersCountErrorsOnce == EvidenceSpec => []ErrorsCountOncePerIngest
<1>1. EvidenceInv => ErrorsCountOncePerIngest
  BY DEF EvidenceInv
<1> QED  BY <1>1, EvidenceInitInv, EvidenceStep, PTL DEF EvidenceSpec

-----------------------------------------------------------------------------
(* The services beside one another.  Each is its own specification there:  *)
(* a step of one leaves the variables of the others alone.                 *)
LEMMA EachStepAlone ==
  ASSUME [ServicesNext]_serviceVars
  PROVE  /\ [Next]_vars /\ [MemoryNext]_memoryVars /\ [WorkflowNext]_workflowVars
         /\ [EvolutionNext]_evolutionVars /\ [RagNext]_ragVars /\ [ContextNext]_contextVars
         /\ [SchemaNext]_schemaVars /\ [StoresNext]_storeVars /\ [EvidenceNext]_evidenceVars
         /\ [ArtifactNext]_artifactVars /\ [ControlNext]_controlVars
<1>1. CASE UNCHANGED serviceVars
  BY <1>1 DEF serviceVars, runtimeVars, recordVars
<1>2. CASE ServicesNext
  BY <1>2 DEF ServicesNext, ActionsAlone, MemoryAlone, WorkflowAlone, EvolutionAlone, RagAlone,
     ContextAlone, SchemasAlone, StoresAlone, EvidenceAlone, ArtifactsAlone, ControlAlone,
     runtimeVars, recordVars, ContextNext
<1> QED  BY <1>1, <1>2

LEMMA EachAlone ==
  ServicesSpec => /\ Spec /\ MemorySpec /\ WorkflowSpec /\ EvolutionSpec /\ RagSpec
                  /\ ContextSpec /\ SchemaSpec /\ StoresSpec /\ EvidenceSpec
                  /\ ArtifactSpec /\ ControlSpec
<1>1. ServicesInit => /\ Init /\ MemoryInit /\ WorkflowInit /\ EvolutionInit /\ RagInit
                      /\ ContextInit /\ SchemaInit /\ StoresInit /\ EvidenceInit
                      /\ ArtifactInit /\ ControlInit
  BY DEF ServicesInit
<1>2. [ServicesNext]_serviceVars =>
        /\ [Next]_vars /\ [MemoryNext]_memoryVars /\ [WorkflowNext]_workflowVars
        /\ [EvolutionNext]_evolutionVars /\ [RagNext]_ragVars /\ [ContextNext]_contextVars
        /\ [SchemaNext]_schemaVars /\ [StoresNext]_storeVars /\ [EvidenceNext]_evidenceVars
        /\ [ArtifactNext]_artifactVars /\ [ControlNext]_controlVars
  BY EachStepAlone
<1> QED
  BY <1>1, <1>2, PTL DEF ServicesSpec, Spec, MemorySpec, WorkflowSpec, EvolutionSpec, RagSpec,
     ContextSpec, SchemaSpec, StoresSpec, EvidenceSpec, ArtifactSpec, ControlSpec

(* The state of every service has its type, whichever services run.        *)
THEOREM EveryServiceTypeCorrect == ServicesSpec => []ServicesTypeOK
<1>1. /\ TypeOK /\ MemoryTypeOK /\ WorkflowTypeOK /\ EvolutionTypeOK /\ RagTypeOK
      /\ ContextTypeOK /\ SchemaTypeOK /\ StoresTypeOK /\ EvidenceTypeOK
      /\ ArtifactTypeOK /\ ControlTypeOK
      => ServicesTypeOK
  BY DEF ServicesTypeOK
<1> QED
  BY <1>1, EachAlone, TypeCorrect, MemoryTypeCorrect, WorkflowTypeCorrect, EvolutionTypeCorrect,
     RagTypeCorrect, ContextTypeCorrect, SchemaTypeCorrect, StoresTypeCorrect,
     EvidenceTypeCorrect, ArtifactTypeCorrect, ControlTypeCorrect, PTL

(* What the services settled stays settled: revisions of actions that have *)
(* one caller each, retired memories, rolled-back manifests, registered    *)
(* conflicts and the history of the schema lock.                           *)
THEOREM SettledForGoodIfExclusive ==
  ASSUME Exclusive PROVE ServicesSpec => WhatIsSettledStays
<1>1. Spec => RevisionsNeverFall
  BY RevisionsNeverFallIfExclusive
<1> QED
  BY <1>1, EachAlone, RetiredForGood, RollbacksStand, ConflictsAlwaysStand,
     HistoryKeptByUpdates, PTL DEF WhatIsSettledStays
=============================================================================
