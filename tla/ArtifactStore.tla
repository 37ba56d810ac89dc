----------------------------- MODULE ArtifactStore -----------------------------
(***************************************************************************)
(* S3ArtifactStore of infrastructure/artifact/store.py under concurrent    *)
(* callers: put asks whether the object exists, compares it if so, and     *)
(* writes; between two requests others make theirs.  The bucket is         *)
(* external, and any request to it may fail.                               *)
(***************************************************************************)
EXTENDS Naturals, FiniteSets

CONSTANTS
  Writers,      \* tasks that store results
  ArtifactKeys, \* keys: one per action (ResultProjector._store_artifact)
  Contents      \* what may be stored

VARIABLES
  bucket,   \* the content under each key, or none
  puts,     \* the put each writer is in
  refs,     \* the references handed out: a key and a digest
  disturbed \* ghost: keys two puts overlapped on, or a head request failed on

artifactVars == <<bucket, puts, refs, disturbed>>

-----------------------------------------------------------------------------
NoContent == "no content"

ASSUME ContentAssumption == NoContent \notin Contents

NoPut == [step |-> "none"]

Steps == {"head", "get", "write", "none"}

ArtifactInit ==
  /\ bucket    = [k \in ArtifactKeys |-> NoContent]
  /\ puts      = [w \in Writers |-> NoPut]
  /\ refs      = {}
  /\ disturbed = {}

Goes(w, step) == puts' = [puts EXCEPT ![w].step = step]

Gives(w) == puts' = [puts EXCEPT ![w] = NoPut]

PutArtifact(w, k, content) ==
  /\ puts[w] = NoPut
  /\ puts' = [puts EXCEPT ![w] = [step |-> "head", key |-> k, content |-> content]]
  /\ disturbed' = disturbed \union
       {k2 \in {k} : \E v \in Writers : puts[v] # NoPut /\ puts[v].key = k2}
  /\ UNCHANGED <<bucket, refs>>

(* exists: every exception of head_object counts as "no".                  *)
HeadObject(w, fails) ==
  /\ puts[w].step = "head"
  /\ Goes(w, IF fails \/ bucket[puts[w].key] = NoContent THEN "write" ELSE "get")
  /\ disturbed' = IF fails THEN disturbed \union {puts[w].key} ELSE disturbed
  /\ UNCHANGED <<bucket, refs>>

(* Mutant: what exists may be replaced.                                    *)
GetUncompared(w) ==
  /\ puts[w].step = "get"
  /\ Goes(w, "write")
  /\ UNCHANGED <<bucket, refs, disturbed>>

(* Other content under the key raises.                                     *)
GetObject(w) ==
  /\ puts[w].step = "get"
  /\ IF bucket[puts[w].key] = puts[w].content THEN Goes(w, "write") ELSE Gives(w)
  /\ UNCHANGED <<bucket, refs, disturbed>>

PutObject(w) ==
  /\ puts[w].step = "write"
  /\ bucket' = [bucket EXCEPT ![puts[w].key] = puts[w].content]
  /\ refs' = refs \union {[key |-> puts[w].key, digest |-> puts[w].content]}
  /\ Gives(w)
  /\ UNCHANGED disturbed

(* A get or a write fails, or its answer is lost after it took effect.     *)
Breaks(w, written) ==
  /\ puts[w].step \in {"get", "write"}
  /\ written => puts[w].step = "write"
  /\ bucket' = IF written THEN [bucket EXCEPT ![puts[w].key] = puts[w].content] ELSE bucket
  /\ Gives(w)
  /\ UNCHANGED <<refs, disturbed>>

ArtifactNext ==
  \E w \in Writers :
    \/ \E k \in ArtifactKeys, content \in Contents : PutArtifact(w, k, content)
    \/ \E fails \in BOOLEAN : HeadObject(w, fails)
    \/ GetObject(w)
    \/ PutObject(w)
    \/ \E written \in BOOLEAN : Breaks(w, written)

ArtifactSpec == ArtifactInit /\ [][ArtifactNext]_artifactVars

-----------------------------------------------------------------------------
ArtifactTypeOK ==
  /\ bucket \in [ArtifactKeys -> Contents \union {NoContent}]
  /\ \A w \in Writers : puts[w].step \in Steps
  /\ refs \subseteq [key : ArtifactKeys, digest : Contents]
  /\ disturbed \subseteq ArtifactKeys

(* A reference stays true: what is stored under its key has its digest,    *)
(* through requests that fail or lose their answer and puts of other       *)
(* content, unless two puts of the key overlapped or a head request failed:*)
(* put asks and writes in separate requests, and takes every error of the  *)
(* question for "there is nothing" (store.py 96).                          *)
ReferencesStayTrue ==
  \A ref \in refs : ref.key \notin disturbed => bucket[ref.key] = ref.digest
=============================================================================
