----------------------------- MODULE RetrievalRules -----------------------------
(***************************************************************************)
(* The pure rules of rag/: authorised lexical search (retrieval.py), its   *)
(* fusion with vector hits (hybrid.py), and the evidence pack              *)
(* (evidence.py).                                                          *)
(*                                                                         *)
(* A chunk is a record with an id, a source, a version, a text and a       *)
(* locator; a text is a model value.  A channel returns chunks in rank     *)
(* order.  Its scores are left out: fusion counts ranks only.              *)
(***************************************************************************)
EXTENDS Orders, SequencesExt

Places(chunk, ranking) == {i \in DOMAIN ranking : ranking[i].id = chunk.id}

(* The sources a query may draw on: its own allow list, or all that the    *)
(* retriever was built with.                                               *)
AllowedSources(allowlist, sources) ==
  IF allowlist # {} THEN allowlist ELSE sources

UpTo(ranking, n) == SubSeq(ranking, 1, IF Len(ranking) < n THEN Len(ranking) ELSE n)

InSources(ranking, sources) ==
  Filter(ranking, LAMBDA chunk : chunk.source \in sources)

-----------------------------------------------------------------------------
(* _fuse: reciprocal ranks.  1/(k+r) of each channel that has the chunk,   *)
(* as a fraction of numerator and denominator.                             *)
RankScore(chunk, lexical, vector, k) ==
  LET places(ranking) == Places(chunk, ranking)
      weight(ranking) == k + (CHOOSE i \in places(ranking) : TRUE) IN
  CASE places(lexical) # {} /\ places(vector) # {} ->
         [over |-> weight(lexical) + weight(vector),
          under |-> weight(lexical) * weight(vector)]
    [] places(lexical) # {} /\ places(vector) = {} ->
         [over |-> 1, under |-> weight(lexical)]
    [] OTHER -> [over |-> 1, under |-> weight(vector)]

Scores(better, other) == better.over * other.under > other.over * better.under

(* Best score first, equal scores by id.                                   *)
Fuse(lexical, vector, k) ==
  LET score(chunk) == RankScore(chunk, lexical, vector, k) IN
  InOrder(ToSet(lexical) \union ToSet(vector), LAMBDA a, b :
    \/ Scores(score(a), score(b))
    \/ ~ Scores(score(b), score(a)) /\ a.id < b.id)

(* Mutant: the backend's own filter is trusted.                            *)
HybridSearchTrusting(query) ==
  LET lexical == InSources(query.lexical,
                           AllowedSources(query.allowlist, query.sources))
      answered == query.embedded /\ ~ query.backend_failed
      vector == IF answered THEN query.vector ELSE <<>>
      fused == Fuse(lexical, vector, query.rrf_k) IN
  [chunks |-> UpTo(fused, query.top_k), degraded |-> ~ answered]

(* search: the vector channel is asked only when the query was embedded,   *)
(* is filtered again whatever the backend returned, and may fail; either   *)
(* way what is left is the lexical channel, marked degraded.               *)
HybridSearch(query) ==
  LET allowed == AllowedSources(query.allowlist, query.sources)
      lexical == InSources(query.lexical, allowed)
      answered == query.embedded /\ ~ query.backend_failed
      vector == IF answered THEN InSources(query.vector, allowed) ELSE <<>>
      fused == Fuse(lexical, vector, query.rrf_k) IN
  [chunks |-> UpTo(fused, query.top_k), degraded |-> ~ answered]

-----------------------------------------------------------------------------
(* EvidencePackBuilder.build                                               *)
SameText(a, b) ==
  a.source = b.source /\ a.version = b.version /\ a.text = b.text

Distinct(chunks) ==
  FoldLeft(LAMBDA kept, chunk :
             IF \E i \in DOMAIN kept : SameText(kept[i], chunk) THEN kept
                                                                ELSE Append(kept, chunk),
           <<>>, chunks)

(* Chunks of a source in conflict are kept over the limit, until a chunk   *)
(* of another source meets a full pack: nothing is read after that.        *)
EvidenceChunks(chunks, conflicting, limit) ==
  FoldLeft(LAMBDA pack, chunk :
             CASE pack.full -> pack
               [] ~ pack.full /\ chunk.source \notin conflicting
                    /\ Len(pack.kept) >= limit -> [pack EXCEPT !.full = TRUE]
               [] OTHER -> [pack EXCEPT !.kept = Append(@, chunk)],
           [kept |-> <<>>, full |-> FALSE], Distinct(chunks)).kept

-----------------------------------------------------------------------------
(* Fusion is fair: a chunk that both channels of a query place before      *)
(* another, or that has a place where the other has none, is fused before  *)
(* it; every chunk of a channel is fused once.                             *)
FusedFairly(lexical, vector, fused) ==
  LET ahead(ranking, a, b) ==
        \A j \in Places(b, ranking) : \E i \in Places(a, ranking) : i < j IN
  /\ ToSet(fused) = ToSet(lexical) \union ToSet(vector)
  /\ \A i, j \in DOMAIN fused :
       i < j => /\ fused[i] # fused[j]
                /\ ~ (ahead(lexical, fused[j], fused[i])
                      /\ ahead(vector, fused[j], fused[i]))

(* What a search serves comes from the allowed sources, at most top_k of   *)
(* it, and an outage of the vectors leaves exactly the best lexical hits.  *)
SearchedSafely(query) ==
  LET result == HybridSearch(query)
      allowed == AllowedSources(query.allowlist, query.sources)
      lexical == InSources(query.lexical, allowed) IN
  /\ \A i \in DOMAIN result.chunks : result.chunks[i].source \in allowed
  /\ Len(result.chunks) <= query.top_k
  /\ result.degraded => result.chunks = UpTo(lexical, query.top_k)

(* A pack shows no text of a source version twice, holds chunks of sources *)
(* without a conflict up to the limit only, and leaves nothing out that    *)
(* comes before a chunk it was too full for.  What comes after that chunk  *)
(* is left out, chunks of sources in conflict too, which RAG-012 wants kept*)
(* (rag/evidence.py 67).                                                   *)
PackedFairly(chunks, conflicting, limit) ==
  LET pack == EvidenceChunks(chunks, conflicting, limit) IN
  /\ \A i, j \in DOMAIN pack : SameText(pack[i], pack[j]) => i = j
  /\ IsPrefix(pack, Distinct(chunks))
  /\ pack # Distinct(chunks) =>
       /\ Distinct(chunks)[Len(pack) + 1].source \notin conflicting
       /\ Len(pack) >= limit
  /\ \A i \in DOMAIN pack : pack[i].source \notin conflicting => i <= limit
=============================================================================
