------------------------------ MODULE SchemaLock ------------------------------
(***************************************************************************)
(* The catalog of machine schemas of common/schema_registry.py: documents  *)
(* on disk, the lock file that fixes the digest of every version, and the  *)
(* command main() that integration runs before a branch becomes the base   *)
(* revision.                                                               *)
(*                                                                         *)
(* A document is its id, its version, its text and the ids it refers to;   *)
(* two documents have one digest exactly if they are equal.  "none" stands *)
(* for metadata the loader refuses.                                        *)
(***************************************************************************)
EXTENDS FiniteSets

CONSTANTS
  Files,      \* paths of schema files under the schema root
  Schemas,    \* the documents an author may write into a file
  PayloadRefs \* the payload schemas the event catalog names

VARIABLES
  files,    \* the document in each file
  lock,     \* schema-lock.json, or NoLock
  baseline, \* the lock of the base revision, or NoLock
  published \* ghost: every document that was ever part of a base revision

schemaVars == <<files, lock, baseline, published>>

-----------------------------------------------------------------------------
NoFile == [id |-> "none"]

NoLock == [present |-> FALSE, entries |-> {}]

Locked(entries) == [present |-> TRUE, entries |-> entries]

Entry(document) ==
  [id |-> document.id, version |-> document.version, digest |-> document]

Tuple(entry) == <<entry.id, entry.version>>

Documented == {files[f] : f \in {g \in Files : files[g] # NoFile}}

(* _require_schema_metadata, and no $id in two files.                      *)
WellIdentified ==
  /\ \A f \in Files : files[f] # NoFile => files[f].version # "none"
  /\ \A f, g \in Files : f # g /\ files[f] # NoFile => files[f].id # files[g].id

RefsResolve ==
  \A document \in Documented : document.refs \subseteq {d.id : d \in Documented}

CatalogResolves == PayloadRefs \subseteq {d.id : d \in Documented}

(* A lock file that names a tuple twice is refused when it is read.        *)
Readable(locked) ==
  \A one, other \in locked.entries : Tuple(one) = Tuple(other) => one = other

(* _validate_schema_lock                                                   *)
AllLocked ==
  lock.present /\ \A document \in Documented : Entry(document) \in lock.entries

(* validate_schema_lock_history                                            *)
HistoryKept(locked, base) == base.entries \subseteq locked.entries

(* validate_schema_catalog                                                 *)
Catalogued ==
  WellIdentified /\ RefsResolve /\ CatalogResolves /\ Readable(lock) /\ AllLocked

-----------------------------------------------------------------------------
SchemaInit ==
  /\ files     = [f \in Files |-> NoFile]
  /\ lock      = NoLock
  /\ baseline  = NoLock
  /\ published = {}

(* Authors write and remove files, and edit the lock file by hand.         *)
WriteFile(f, document) ==
  /\ files' = [files EXCEPT ![f] = document]
  /\ UNCHANGED <<lock, baseline, published>>

Unlock(entry) ==
  /\ entry \in lock.entries
  /\ lock' = Locked(lock.entries \ {entry})
  /\ UNCHANGED <<files, baseline, published>>

Relock(entry, document) ==
  /\ entry \in lock.entries
  /\ Tuple(entry) = Tuple(Entry(document))
  /\ lock' = Locked((lock.entries \ {entry}) \union {Entry(document)})
  /\ UNCHANGED <<files, baseline, published>>

Missing == {Entry(d) : d \in Documented} \ lock.entries

(* update_schema_lock: it appends what is new, and refuses as a whole when *)
(* a locked version has another digest.                                    *)
UpdateLock ==
  /\ WellIdentified /\ RefsResolve /\ CatalogResolves /\ Readable(lock)
  /\ \A old \in lock.entries, new \in Missing : Tuple(old) # Tuple(new)
  /\ lock' = Locked(lock.entries \union Missing)
  /\ UNCHANGED <<files, baseline, published>>

(* Mutant: the base revision is not looked at.                             *)
IntegrateUnbased ==
  /\ Catalogued
  /\ baseline' = lock
  /\ published' = published \union Documented
  /\ UNCHANGED <<files, lock>>

(* main() without --update-lock; the baseline is given once there is one.  *)
Integrate ==
  /\ Catalogued
  /\ baseline # NoLock => HistoryKept(lock, baseline)
  /\ baseline' = lock
  /\ published' = published \union Documented
  /\ UNCHANGED <<files, lock>>

SchemaNext ==
  \/ \E f \in Files, document \in Schemas \union {NoFile} : WriteFile(f, document)
  \/ \E entry \in lock.entries : Unlock(entry)
  \/ \E entry \in lock.entries, document \in Schemas : Relock(entry, document)
  \/ UpdateLock
  \/ Integrate

SchemaSpec == SchemaInit /\ [][SchemaNext]_schemaVars

-----------------------------------------------------------------------------
SchemaTypeOK ==
  LET locks == [present : BOOLEAN, entries : SUBSET {Entry(d) : d \in Schemas}] IN
  /\ files \in [Files -> Schemas \union {NoFile}]
  /\ lock \in locks
  /\ baseline \in locks
  /\ published \subseteq Schemas

(* One version never has two contents: whatever is rewritten, removed and  *)
(* brought back, or locked by hand in between, two documents that ever     *)
(* were part of a base revision differ in their id or their version, or    *)
(* not at all.                                                             *)
VersionsStand ==
  \A one, other \in published :
    one.id = other.id /\ one.version = other.version => one = other

(* update_schema_lock never makes a branch unfit: when the history was     *)
(* kept before it, it is kept after it (schema_registry.py:576).           *)
UpdatesKeepHistory ==
  [][UpdateLock /\ HistoryKept(lock, baseline) => HistoryKept(lock', baseline)]_schemaVars
=============================================================================
