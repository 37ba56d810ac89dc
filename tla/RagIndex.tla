-------------------------------- MODULE RagIndex --------------------------------
(***************************************************************************)
(* One process that indexes sources with rag/pipeline.py into a Qdrant     *)
(* collection (infrastructure/vector/qdrant_backend.py) and mirrors them   *)
(* in the lexical index of rag/index.py.  The collection is a service of   *)
(* its own: it outlives the process and any call to it may fail, with or   *)
(* without effect.  Tombstones and mirror live in the process.             *)
(*                                                                         *)
(* A document is one source in one version and makes one chunk.            *)
(***************************************************************************)
EXTENDS RetrievalRules

CONSTANTS
  Documents,   \* set of sources
  DocVersions

VARIABLES
  collection,  \* [exists, points]: what Qdrant holds
  dimension,   \* QdrantBackend._dimension is known
  tombstones,  \* QdrantBackend._deleted_sources
  mirror,      \* RetrievalIndex._chunks
  forgotten    \* RetrievalIndex._deleted_sources

ragVars == <<collection, dimension, tombstones, mirror, forgotten>>

IndexedChunks == [source : Documents, version : DocVersions]

RagTypeOK ==
  /\ collection \in [exists : BOOLEAN, points : SUBSET IndexedChunks]
  /\ ~ collection.exists => collection.points = {}
  /\ dimension \in BOOLEAN
  /\ tombstones \subseteq Documents
  /\ mirror \subseteq IndexedChunks
  /\ forgotten \subseteq Documents

RagInit ==
  /\ collection = [exists |-> FALSE, points |-> {}]
  /\ dimension = FALSE
  /\ tombstones = {}
  /\ mirror = {}
  /\ forgotten = {}

ChunksOf(source) == {chunk \in IndexedChunks : chunk.source = source}

-----------------------------------------------------------------------------
(* upsert creates the collection only while it does not know a dimension.  *)
Created ==
  IF dimension THEN collection ELSE [collection EXCEPT !.exists = TRUE]

Holding(chunk) == [Created EXCEPT !.points = @ \union {chunk}]

Refused(chunk) == chunk.source \in tombstones

(* RetrievalIndex.add                                                      *)
Mirrored(chunk) ==
  IF chunk.source \in forgotten THEN mirror ELSE mirror \union {chunk}

Ingest(chunk) ==
  /\ Refused(chunk) \/ Created.exists
  /\ IF Refused(chunk)
       THEN UNCHANGED <<collection, dimension>>
       ELSE collection' = Holding(chunk) /\ dimension' = TRUE
  /\ mirror' = Mirrored(chunk)
  /\ UNCHANGED <<tombstones, forgotten>>

(* A call raises: the dimension is remembered before the collection is     *)
(* made, and without a collection every later call raises as well.         *)
IngestFails(chunk) ==
  /\ ~ Refused(chunk)
  /\ collection' \in {collection, Created}
                       \union (IF Created.exists THEN {Holding(chunk)} ELSE {})
  /\ dimension' = TRUE
  /\ UNCHANGED <<tombstones, mirror, forgotten>>

Without(source) == [collection EXCEPT !.points = @ \ ChunksOf(source)]

(* Mutant: the mirror is not told.                                         *)
DeleteSourceVectorOnly(source) ==
  /\ collection.exists
  /\ collection' = Without(source)
  /\ tombstones' = tombstones \union {source}
  /\ UNCHANGED <<dimension, mirror, forgotten>>

(* delete: the backend first, which counts in a collection that must       *)
(* exist, then the mirror.                                                 *)
DeleteSource(source) ==
  /\ collection.exists
  /\ collection' = Without(source)
  /\ tombstones' = tombstones \union {source}
  /\ mirror' = mirror \ ChunksOf(source)
  /\ forgotten' = forgotten \union {source}
  /\ UNCHANGED dimension

(* count or delete raises: neither tombstone nor mirror has been reached.  *)
DeleteSourceFails(source) ==
  /\ collection' \in {collection, Without(source)}
  /\ UNCHANGED <<dimension, tombstones, mirror, forgotten>>

(* A search learns the dimension of a collection that exists.              *)
ResolveDimension ==
  /\ collection.exists
  /\ dimension' = TRUE
  /\ UNCHANGED <<collection, tombstones, mirror, forgotten>>

DropCollection ==
  /\ collection' = [exists |-> FALSE, points |-> {}]
  /\ tombstones' = {}
  /\ dimension' = FALSE
  /\ UNCHANGED <<mirror, forgotten>>

(* The process restarts: only the collection is left.                      *)
RestartIndexer ==
  /\ dimension' = FALSE
  /\ tombstones' = {}
  /\ mirror' = {}
  /\ forgotten' = {}
  /\ UNCHANGED collection

RagNext ==
  \/ \E chunk \in IndexedChunks : Ingest(chunk) \/ IngestFails(chunk)
  \/ \E source \in Documents : DeleteSource(source) \/ DeleteSourceFails(source)
  \/ ResolveDimension
  \/ DropCollection
  \/ RestartIndexer

RagSpec == RagInit /\ [][RagNext]_ragVars

-----------------------------------------------------------------------------
(* The chunks a hybrid search may rank, of all that match: the backend     *)
(* filters by a list only if there is one.                                 *)
Ranked(allowlist, sources, outage) ==
  LET allowed == AllowedSources(allowlist, sources)
      vector == {chunk \in collection.points : allowlist # {} => chunk.source \in allowlist}
  IN {chunk \in mirror \union (IF outage THEN {} ELSE vector) : chunk.source \in allowed}

(* RAG-008: from the moment a deletion has succeeded until the process     *)
(* ends or drops the collection, no search finds the source again, in      *)
(* neither channel, whatever is ingested or fails in between.              *)
DeletedIsNotServed ==
  \A source \in tombstones, allowlist \in SUBSET Documents, outage \in BOOLEAN :
    Ranked(allowlist, Documents, outage) \intersect ChunksOf(source) = {}
=============================================================================
